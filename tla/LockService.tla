---------------------------- MODULE LockService -----------------------------
(***************************************************************************)
(* The protocols above the lock table: NLM blocking locks and their        *)
(* GRANTED callbacks (pkg/adapter/nfs/nlm.go, internal/adapter/nfs/nlm),   *)
(* NFSv4 LOCK and LOCKU (v4/state/manager.go), SMB LOCK, and the restart   *)
(* grace period (pkg/metadata/lock/grace.go, pkg/metadata/service.go).     *)
(*                                                                         *)
(* Each owner asks for one range (Ask).  view[o] is what the client knows  *)
(* of its request: idle, denied (the handler has met a conflict and has    *)
(* not queued the request yet), blocked, holds, lost (held before the      *)
(* restart, to be reclaimed) or marking (reclaimed, grace not told yet).   *)
(* A waiter is <<owner, attempt>>, which stands for the *Waiter pointer.   *)
(* A pass is one goroutine of processNLMWaiters.                           *)
(***************************************************************************)
EXTENDS LockTable, Sequences, SequencesExt

CONSTANTS V4Names,      \* the names of the NFSv4 owner, one per server boot
          Ask,          \* the range and mode each owner asks for
          Passes,       \* processNLMWaiters goroutines
          MaxSpawned,   \* bound on goroutines not yet started
          MaxQueue,     \* BlockingQueue.maxQueue
          MaxTries,     \* bound on the blocking requests of each owner
          MaxBoots      \* bound on server boots

VARIABLES boot,         \* number of this server boot
          grace,        \* GracePeriodManager.state
          expected,     \* expectedClients
          reclaimed,    \* reclaimedClients
          sweep,        \* clients whose locks onGraceEnd has yet to sweep
          view,         \* what each client knows of its request
          queue,        \* the blocking queue of the file
          cancelled,    \* waiters whose cancelled flag is set
          draining,     \* crashed clients whose waiters are not drained yet
          tries,        \* blocking requests made by each owner
          spawned,      \* goroutines not yet started
          pass          \* the running goroutines

serviceVars == <<boot, grace, expected, reclaimed, sweep, view, queue, cancelled,
                 draining, tries, spawned, pass>>
graceVars == <<grace, expected, reclaimed, sweep>>
nlmVars == <<queue, cancelled, draining, tries, spawned, pass>>

V4Owners == Range(V4Names)
NlmOwners == Owners \ V4Owners
Asks(o) == [off |-> Ask[o].off, len |-> Ask[o].len]
Waiters == UNION {{<<o, n>> : n \in 1..MaxTries[o]} : o \in NlmOwners}
Nobody == <<>>

SetView(o, v) == view' = [view EXCEPT ![o] = v]
AskedLock(o) == Request(o, Asks(o), Ask[o].ex)
Acquire(o) == AddUnifiedLock(o, Asks(o), Ask[o].ex)
\* RemoveUnifiedLock, its not-found error ignored.
Release(o) == RemoveUnifiedLock(o, Asks(o))
                \/ (Overlapped(o, Asks(o)) = {} /\ UNCHANGED lockVars)

\* "go processNLMWaiters": one more goroutine to start.
Spawn == spawned < MaxSpawned /\ spawned' = spawned + 1

-----------------------------------------------------------------------------
(* NLM handlers.                                                           *)

\* LOCK, not a reclaim: refused in grace, else granted or in conflict.  Only a
\* blocking request goes on from a conflict, to be queued.
NlmLock(o) ==
  /\ view[o] = "idle" /\ grace # "active"
  /\ \/ Acquire(o) /\ SetView(o, "holds")
     \/ /\ ~UniGrantable(AskedLock(o))
        /\ Does("block") /\ tries[o] < MaxTries[o]
        /\ SetView(o, "denied")
        /\ UNCHANGED lockVars
  /\ UNCHANGED <<boot, graceVars, nlmVars>>

\* The second half of a blocking LOCK: Enqueue, or DENIED_NOLOCKS when full.
Enqueue(o) ==
  /\ view[o] = "denied"
  /\ \/ /\ Len(queue) < MaxQueue
        /\ tries' = [tries EXCEPT ![o] = @ + 1]
        /\ queue' = Append(queue, <<o, tries'[o]>>)
        /\ SetView(o, "blocked")
     \/ /\ Len(queue) >= MaxQueue
        /\ SetView(o, "idle")
        /\ UNCHANGED <<tries, queue>>
  /\ UNCHANGED <<lockVars, boot, graceVars, cancelled, draining, spawned, pass>>

NlmUnlock(o) ==
  /\ view[o] = "holds"
  /\ \/ RemoveUnifiedLock(o, Asks(o)) /\ Spawn
     \/ Overlapped(o, Asks(o)) = {} /\ UNCHANGED <<lockVars, spawned>>
  /\ SetView(o, "idle")
  /\ UNCHANGED <<boot, graceVars, queue, cancelled, draining, tries, pass>>

\* CANCEL answers GRANTED whether or not the waiter is still queued.
Cancel(o) ==
  LET w == <<o, tries[o]>> IN
  /\ view[o] = "blocked"
  /\ IF Contains(queue, w)
     THEN /\ queue' = Remove(queue, w)
          /\ cancelled' = cancelled \cup {w}
     ELSE UNCHANGED <<queue, cancelled>>
  /\ SetView(o, "idle")
  /\ UNCHANGED <<lockVars, boot, graceVars, draining, tries, spawned, pass>>

\* FREE_ALL or SM_NOTIFY: the client has crashed.  Its locks are released,
\* except in grace, and then its waiters are drained.
ReleaseCrashedClient(c) ==
  /\ c \notin draining
  /\ IF grace = "active" THEN UNCHANGED lockVars ELSE ReleaseByOwnerPrefix(c)
  /\ view' = [o \in Owners |-> IF ClientOf[o] = c THEN "idle" ELSE view[o]]
  /\ view' # view
  /\ draining' = draining \cup {c}
  /\ UNCHANGED <<boot, graceVars, queue, cancelled, tries, spawned, pass>>

RemoveClientWaiters(c) ==
  LET ofClient(w) == ClientOf[w[1]] = c IN
  /\ c \in draining
  /\ draining' = draining \ {c}
  /\ queue' = SelectSeq(queue, LAMBDA w : ~ofClient(w))
  /\ cancelled' = cancelled \cup {w \in Range(queue) : ofClient(w)}
  /\ UNCHANGED <<lockVars, boot, graceVars, view, tries, spawned, pass>>

-----------------------------------------------------------------------------
(* processNLMWaiters.                                                      *)

IdlePass == [pc |-> "idle", todo |-> <<>>, w |-> Nobody]
Step(p, pc, todo, w) == pass' = [pass EXCEPT ![p] = [pc |-> pc, todo |-> todo, w |-> w]]

\* The snapshot of the queue.
StartPass(p) ==
  /\ spawned > 0 /\ pass[p].pc = "idle"
  /\ spawned' = spawned - 1
  /\ IF queue = <<>> THEN UNCHANGED pass ELSE Step(p, "next", queue, Nobody)
  /\ UNCHANGED <<lockVars, boot, graceVars, view, queue, cancelled, draining, tries>>

\* The next waiter: skipped when cancelled or still in conflict.
TryWaiter(p) ==
  LET w == Head(pass[p].todo)
      rest == Tail(pass[p].todo) IN
  /\ pass[p].pc = "next" /\ pass[p].todo # <<>>
  /\ \/ /\ w \in cancelled \/ ~UniGrantable(AskedLock(w[1]))
        /\ Step(p, "next", rest, Nobody)
        /\ UNCHANGED lockVars
     \/ /\ w \notin cancelled
        /\ Acquire(w[1])
        /\ Step(p, "granted", rest, w)
  /\ UNCHANGED <<boot, graceVars, view, queue, cancelled, draining, tries, spawned>>

EndPass(p) ==
  /\ pass[p].pc = "next" /\ pass[p].todo = <<>>
  /\ pass' = [pass EXCEPT ![p] = IdlePass]
  /\ UNCHANGED <<lockVars, boot, graceVars, view, queue, cancelled, draining, tries,
                 spawned>>

\* ProcessGrantedCallback looks at the cancelled flag once, before it sends.
CheckCancelled(p) ==
  /\ pass[p].pc = "granted"
  /\ IF pass[p].w \in cancelled THEN Step(p, "next", pass[p].todo, Nobody)
     ELSE Step(p, "sending", pass[p].todo, pass[p].w)
  /\ UNCHANGED <<lockVars, boot, graceVars, view, queue, cancelled, draining, tries,
                 spawned>>

\* Mutant: a failed callback removes the waiter as a successful one does.
SendGrantedOnce(p) ==
  LET o == pass[p].w[1] IN
  /\ pass[p].pc = "sending"
  /\ Step(p, "remove", pass[p].todo, pass[p].w)
  /\ \/ /\ IF view[o] = "blocked" THEN SetView(o, "holds") ELSE UNCHANGED view
        /\ UNCHANGED lockVars
     \/ Release(o) /\ UNCHANGED view
  /\ UNCHANGED <<boot, graceVars, queue, cancelled, draining, tries, spawned>>

SendGranted(p) ==
  LET o == pass[p].w[1] IN
  /\ pass[p].pc = "sending"
  /\ \/ /\ Step(p, "remove", pass[p].todo, pass[p].w)
        /\ IF view[o] = "blocked" THEN SetView(o, "holds") ELSE UNCHANGED view
        /\ UNCHANGED lockVars
     \/ /\ Step(p, "next", pass[p].todo, Nobody)
        /\ Release(o)
        /\ UNCHANGED view
  /\ UNCHANGED <<boot, graceVars, queue, cancelled, draining, tries, spawned>>

RemoveWaiter(p) ==
  /\ pass[p].pc = "remove"
  /\ queue' = Remove(queue, pass[p].w)
  /\ Step(p, "next", pass[p].todo, Nobody)
  /\ UNCHANGED <<lockVars, boot, graceVars, view, cancelled, draining, tries, spawned>>

-----------------------------------------------------------------------------
(* SMB and NFSv4.                                                          *)

SmbLock(s) ==
  /\ Lock(s, Asks(s), Ask[s].ex)
  /\ \A l \in locks : l.owner # s
  /\ UNCHANGED serviceVars

\* An SMB release notifies the NFS adapter, outside the mutex.
SmbRelease(s) ==
  /\ Unlock(s, Asks(s)) \/ UnlockAllForOpen(s)
  /\ Spawn
  /\ UNCHANGED <<boot, graceVars, view, queue, cancelled, draining, tries, pass>>

V4Lock(o) ==
  /\ o = V4Names[boot] /\ view[o] = "idle" /\ grace # "active"
  /\ Acquire(o) /\ SetView(o, "holds")
  /\ UNCHANGED <<boot, graceVars, nlmVars>>

V4Unlock(o) ==
  /\ o \in V4Owners /\ view[o] = "holds"
  /\ Release(o) /\ SetView(o, "idle")
  /\ UNCHANGED <<boot, graceVars, nlmVars>>

-----------------------------------------------------------------------------
(* Restart, grace and reclaim.                                             *)

\* The name an owner has after the next boot: an NFSv4 owner id contains the
\* client id, which the new server instance hands out afresh.
Reborn(o) == IF o = V4Names[boot] THEN V4Names[boot + 1] ELSE o

Reboot ==
  /\ boot < MaxBoots
  /\ Restart
  /\ boot' = boot + 1
  /\ \E clean \in BOOLEAN :
       grace' = IF ~clean \/ lockStore # {} THEN "active" ELSE "normal"
  /\ expected' = {ClientOf[l.owner] : l \in lockStore}
  /\ reclaimed' = {} /\ sweep' = {}
  /\ view' = [n \in Owners |->
                IF \E o \in Owners : Reborn(o) = n /\ view[o] \in {"holds", "lost", "marking"}
                THEN "lost" ELSE "idle"]
  /\ queue' = <<>> /\ cancelled' = {} /\ draining' = {} /\ spawned' = 0
  /\ pass' = [p \in Passes |-> IdlePass]
  /\ UNCHANGED tries

\* LOCK with reclaim set.  NLM records the reclaim with the grace period in a
\* second step; NFSv4 never does.
Reclaim(o) ==
  /\ view[o] = "lost" /\ grace = "active"
  /\ \/ Acquire(o) /\ SetView(o, IF o \in V4Owners THEN "holds" ELSE "marking")
     \/ ~UniGrantable(AskedLock(o)) /\ SetView(o, "idle") /\ UNCHANGED lockVars
  /\ UNCHANGED <<boot, graceVars, nlmVars>>

\* MarkReclaimed, with its early exit.
MarkReclaimed(o) ==
  LET all == expected # {} /\ expected \subseteq reclaimed' IN
  /\ view[o] = "marking" /\ SetView(o, "holds")
  /\ IF grace = "active"
     THEN /\ reclaimed' = reclaimed \cup {ClientOf[o]}
          /\ grace' = IF all THEN "normal" ELSE grace
          /\ sweep' = IF all THEN expected \ reclaimed' ELSE sweep
     ELSE UNCHANGED <<reclaimed, grace, sweep>>
  /\ UNCHANGED <<lockVars, boot, expected, nlmVars>>

\* The timer ends grace; its callback then sweeps the clients not seen.
GraceTimer ==
  /\ grace = "active"
  /\ grace' = "normal"
  /\ sweep' = expected \ reclaimed
  /\ view' = [o \in Owners |-> IF view[o] = "lost" THEN "idle" ELSE view[o]]
  /\ UNCHANGED <<lockVars, boot, expected, reclaimed, nlmVars>>

Sweep(c) ==
  /\ c \in sweep
  /\ RemoveClientLocks(c)
  /\ sweep' = sweep \ {c}
  /\ UNCHANGED <<boot, grace, expected, reclaimed, view, nlmVars>>

-----------------------------------------------------------------------------

ServiceInit ==
  /\ LockInit
  /\ boot = 1 /\ grace = "normal" /\ expected = {} /\ reclaimed = {} /\ sweep = {}
  /\ view = [o \in Owners |-> "idle"]
  /\ queue = <<>> /\ cancelled = {} /\ draining = {} /\ spawned = 0
  /\ tries = [o \in NlmOwners |-> 0]
  /\ pass = [p \in Passes |-> IdlePass]

PassStep(p) ==
  \/ StartPass(p) \/ TryWaiter(p) \/ EndPass(p) \/ CheckCancelled(p)
  \/ SendGranted(p) \/ RemoveWaiter(p)

ServiceNext ==
  /\ UNCHANGED work
  /\ \/ Does("nlm") /\ \E o \in NlmOwners : NlmLock(o) \/ Enqueue(o) \/ NlmUnlock(o)
     \/ Does("cancel") /\ \E o \in NlmOwners : Cancel(o)
     \/ Does("crash") /\ \E o \in NlmOwners :
          ReleaseCrashedClient(ClientOf[o]) \/ RemoveClientWaiters(ClientOf[o])
     \/ \E p \in Passes : PassStep(p)
     \/ Does("open") /\ \E s \in Opens : SmbLock(s) \/ SmbRelease(s)
     \/ Does("v4") /\ \E o \in V4Owners : V4Lock(o) \/ V4Unlock(o)
     \/ Does("reboot") /\ Reboot
     \/ \E o \in Owners : Reclaim(o) \/ MarkReclaimed(o)
     \/ GraceTimer
     \/ \E o \in Opens \cup Owners : Sweep(ClientOf[o])

ServiceSpec == ServiceInit /\ [][ServiceNext]_<<lockVars, serviceVars, work>>

-----------------------------------------------------------------------------
(* Properties.                                                             *)

\* The queue, the passes and the clients' views hold values of their kinds.
ServiceTypeOK ==
  /\ boot \in 1..MaxBoots /\ grace \in {"normal", "active"}
  /\ view \in [Owners -> {"idle", "denied", "blocked", "holds", "lost", "marking"}]
  /\ Range(queue) \subseteq Waiters /\ cancelled \subseteq Waiters
  /\ Len(queue) <= MaxQueue /\ spawned \in 0..MaxSpawned
  /\ \A p \in Passes : pass[p].pc \in {"idle", "next", "granted", "sending", "remove"}

\* A request the client was told is BLOCKED is never forgotten: its waiter stays
\* queued, exactly once, through denied attempts, failed callbacks and overlapping
\* passes, until it is granted.  Only the drain after a crash of its own client may
\* cancel it, which a request made between the two halves of FREE_ALL can meet.
BlockedIsQueued ==
  \A o \in NlmOwners :
    LET w == <<o, tries[o]>> IN
    view[o] = "blocked" =>
      \/ Cardinality({i \in DOMAIN queue : queue[i] = w}) = 1 /\ w \notin cancelled
      \/ Does("crash") /\ w \in cancelled

\* In grace the reclaim of a lock held before the restart is granted: nothing in
\* either table stands in its way.
PriorOwnerReclaims ==
  grace = "active" =>
    \A o \in Owners : view[o] = "lost" => UniGrantable(AskedLock(o))
=============================================================================
