------------------------------ MODULE OpenState -----------------------------
(***************************************************************************)
(* NFSv4 open and lock state (v4/state/manager.go, openowner.go,           *)
(* lockowner.go, stateid.go and the handlers that cache their replies):    *)
(* OPEN with its share reservation, OPEN_CONFIRM, OPEN_DOWNGRADE, CLOSE,   *)
(* LOCK, LOCKU, RELEASE_LOCKOWNER, FREE_STATEID and the end of a lease.    *)
(*                                                                         *)
(* An owner orders its requests by a seqid and repeats the last one until  *)
(* it is answered; the server keeps the reply of the last one.  Executing  *)
(* a request and caching its encoded reply are two critical sections of    *)
(* sm.mu, so they are two steps here.  A client has one request of an      *)
(* owner outstanding.  NFSv4.1 ("v41ops") sends seqid 0, which skips all   *)
(* that.  Refusals that change nothing are no steps.  Replies are told     *)
(* apart by operation, stateid and seqid; the seqid of a stateid is left   *)
(* out (clients present the current one).  Byte ranges are one range per   *)
(* file: LockTable models the lock manager.  MaxSeqid stands for 2^32 - 1, *)
(* after which a seqid is 1 again.  A workload names the owners that take  *)
(* part in it.                                                             *)
(***************************************************************************)
EXTENDS Naturals, FiniteSets, Workload

CONSTANTS OpenOwners, LockOwners,
          OwnerClient,     \* the client of each of them
          OpenFiles,
          MaxOwners,       \* bound on the OpenOwner records made
          MaxOpens,        \* bound on the open stateids generated
          MaxLockStates,   \* bound on the lock stateids generated
          Starts,          \* the seqids a client starts an owner with
          MaxSeqid

VARIABLES ownerRec, nextOwner,   \* the OpenOwner records, and the next one
          openOwners,            \* the live record of an owner; 0: none
          openStateByOther, openStateByFile, nextOpen,
          closedOwnerByOther,    \* the retained record of a closed stateid
          lockOwners,            \* the LockOwner records
          lockStateByOther, nextLock,
          held,                  \* the lock manager: <<lock-owner, file, mode>>
          openReply, lockReply   \* replies being encoded, not yet cached

ownerVars == <<ownerRec, nextOwner, openOwners, closedOwnerByOther>>
openVars == <<openStateByOther, openStateByFile, nextOpen>>
lockVars == <<lockOwners, lockStateByOther, nextLock, held, lockReply>>
openStateVars == <<ownerVars, openVars, lockVars, openReply>>

Modes == {"read", "write"}
OwnerRecs == 1..MaxOwners
Opens == 1..MaxOpens
LockStates == 1..MaxLockStates
Gone == [owner |-> 0]
NoReply == <<"none">>
Clients == {OwnerClient[n] : n \in OpenOwners \cup LockOwners}

\* last is LastSeqID, result the LastResult; reply, a history, is what the
\* last request of this owner was really answered.
OwnerRecord(n, last, conf, states, result, reply) ==
  [name |-> n, last |-> last, confirmed |-> conf, states |-> states,
   result |-> result, reply |-> reply]
NewOwner(n) == OwnerRecord(n, 0, FALSE, {}, NoReply, NoReply)
Share(k, f, access, deny, locks) ==
  [owner |-> k, file |-> f, access |-> access, deny |-> deny, locks |-> locks]
NewLockOwner == [last |-> 0, result |-> NoReply, reply |-> NoReply]
NoLockOwner == [last |-> 0, result |-> NoReply, reply |-> <<"absent">>]

ASSUME OpenConstants ==
  /\ MaxOwners \in Nat /\ MaxOpens \in Nat /\ MaxLockStates \in Nat
  /\ MaxSeqid \in Nat /\ MaxSeqid >= 3 /\ Starts \subseteq 1..MaxSeqid
  /\ OpenOwners \cap LockOwners = {}

OpenInit ==
  /\ ownerRec = [k \in OwnerRecs |-> NewOwner("none")] /\ nextOwner = 1
  /\ openOwners = [n \in OpenOwners |-> 0]
  /\ openStateByOther = [o \in Opens |-> Gone]
  /\ openStateByFile = [f \in OpenFiles |-> {}]
  /\ nextOpen = 1
  /\ closedOwnerByOther = [o \in Opens |-> 0]
  /\ lockOwners = [n \in LockOwners |-> NoLockOwner]
  /\ lockStateByOther = [l \in LockStates |-> Gone] /\ nextLock = 1
  /\ held = {}
  /\ openReply = [n \in OpenOwners |-> NoReply]
  /\ lockReply = [n \in LockOwners |-> NoReply]

Live(o) == openStateByOther[o] # Gone
LiveLock(l) == lockStateByOther[l] # Gone
Known(n) == lockOwners[n] # NoLockOwner

-----------------------------------------------------------------------------
(* Seqids.                                                                 *)

NextSeqID(q) == IF q = MaxSeqid THEN 1 ELSE q + 1

Seqids == IF Does("v41ops") THEN {0} ELSE 1..MaxSeqid

ValidateSeqID(last, q) ==
  IF q = 0 \/ q = NextSeqID(last) THEN "ok"
  ELSE IF q = last THEN "replay" ELSE "bad"

\* A new request of an owner comes when its last one has been answered.
Ready(n, q) == Does(n) /\ openReply[n] = NoReply /\ q \in Seqids
LockReady(n, q) == Does(n) /\ lockReply[n] = NoReply /\ q \in Seqids

\* The owner record after a request with seqid q.
Advanced(r, q, conf, states, reply) ==
  OwnerRecord(r.name, q, r.confirmed \/ conf, states, r.result, reply)
AdvancedLock(r, q, reply) == [last |-> q, result |-> r.result, reply |-> reply]

\* What the request is answered, and still has to be cached.  A seqid of 0
\* leaves the replies to the slot table.
Answer(n, q, reply) ==
  openReply' = [openReply EXCEPT ![n] = IF q = 0 THEN NoReply ELSE reply]

-----------------------------------------------------------------------------
(* OPEN.                                                                   *)

\* Mutant: only what the others deny is looked at, not what they have open.
ShareConflictOneWay(k, f, access, deny) ==
  \E o \in openStateByFile[f] :
    openStateByOther[o].owner # k /\ access \cap openStateByOther[o].deny # {}

\* shareConflictLocked: another owner denies this access, or has what would be
\* denied.
ShareConflict(k, f, access, deny) ==
  \E o \in openStateByFile[f] :
    /\ openStateByOther[o].owner # k
    /\ \/ access \cap openStateByOther[o].deny # {}
       \/ deny \cap openStateByOther[o].access # {}

\* The record OPEN uses: the live one, or a new one.
RecordFor(n) == IF openOwners[n] = 0 THEN nextOwner ELSE openOwners[n]

\* A record OPEN makes is in the table from here on, whatever comes of it.
Registered(n) ==
  /\ RecordFor(n) \in OwnerRecs
  /\ openOwners' = [openOwners EXCEPT ![n] = RecordFor(n)]
  /\ nextOwner' = IF openOwners[n] = 0 THEN nextOwner + 1 ELSE nextOwner

Owner(n) == IF openOwners[n] = 0 THEN NewOwner(n) ELSE ownerRec[openOwners[n]]

\* An OPEN that passes the seqid gate: a new owner may start anywhere.
Admitted(n, q) ==
  /\ Ready(n, q)
  /\ IF openOwners[n] = 0 THEN q \in Starts \cup {0}
     ELSE ValidateSeqID(Owner(n).last, q) = "ok"

\* OpenFile answers NFS4ERR_SHARE_DENIED; the seqid does not advance.
OpenDenied(n, q, f, access, deny) ==
  /\ Admitted(n, q)
  /\ ShareConflict(RecordFor(n), f, access, deny)
  /\ Registered(n)
  /\ ownerRec' = [ownerRec EXCEPT ![RecordFor(n)] = Owner(n)]
  /\ UNCHANGED <<closedOwnerByOther, openVars, lockVars, openReply>>

\* OpenFile succeeds: the share modes of an owner add up on a file.  NFSv4.1
\* confirms the owner at once (ConfirmOpenV41).
OpenFile(n, q, f, access, deny) ==
  LET k == RecordFor(n)
      same == {o \in Owner(n).states : openStateByOther[o].file = f}
      o == IF same = {} THEN nextOpen ELSE CHOOSE x \in same : TRUE
      old == openStateByOther[o]
      os == IF same = {}
            THEN Share(k, f, access, deny, {})
            ELSE Share(old.owner, f, old.access \cup access, old.deny \cup deny, old.locks)
      reply == <<"OPEN", o, q>>
  IN
  /\ Admitted(n, q)
  /\ ~ShareConflict(k, f, access, deny)
  /\ o \in Opens
  /\ Registered(n)
  /\ nextOpen' = IF same = {} THEN nextOpen + 1 ELSE nextOpen
  /\ openStateByOther' = [openStateByOther EXCEPT ![o] = os]
  /\ openStateByFile' = [openStateByFile EXCEPT ![f] = @ \cup {o}]
  /\ ownerRec' = [ownerRec EXCEPT ![k] =
       Advanced(Owner(n), q, q = 0, Owner(n).states \cup {o}, reply)]
  /\ Answer(n, q, reply)
  /\ UNCHANGED <<closedOwnerByOther, lockVars>>

-----------------------------------------------------------------------------
(* OPEN_CONFIRM, OPEN_DOWNGRADE and CLOSE name an open by its stateid.     *)

OwnerOf(o) == ownerRec[openStateByOther[o].owner]

\* A request on a live open that passes the seqid gate.
Accepted(o, q) ==
  /\ Live(o)
  /\ Ready(OwnerOf(o).name, q)
  /\ ValidateSeqID(OwnerOf(o).last, q) = "ok"

\* The open has these share modes, and the owner's seqid advances.
Restamped(o, q, op, access, deny) ==
  LET os == openStateByOther[o]
      reply == <<op, o, q>>
  IN
  /\ openStateByOther' = [openStateByOther EXCEPT ![o] =
                            Share(os.owner, os.file, access, deny, os.locks)]
  /\ ownerRec' = [ownerRec EXCEPT ![os.owner] =
       Advanced(@, q, op = "OPEN_CONFIRM", @.states, reply)]
  /\ Answer(OwnerOf(o).name, q, reply)
  /\ UNCHANGED <<nextOwner, openOwners, closedOwnerByOther, openStateByFile, nextOpen, lockVars>>

ConfirmOpen(o, q) ==
  /\ Accepted(o, q) /\ q # 0
  /\ Restamped(o, q, "OPEN_CONFIRM", openStateByOther[o].access, openStateByOther[o].deny)

\* DowngradeOpen only takes modes away, and leaves some access.
DowngradeOpen(o, q, access, deny) ==
  /\ Accepted(o, q)
  /\ access # {} /\ access \subseteq openStateByOther[o].access
  /\ deny \subseteq openStateByOther[o].deny
  /\ Restamped(o, q, "OPEN_DOWNGRADE", access, deny)

\* An owner without opens leaves the table.
OwnerLeft(k, gone) ==
  [n \in OpenOwners |-> IF openOwners[n] = k /\ ownerRec[k].states \subseteq gone
                        THEN 0 ELSE openOwners[n]]

\* The open leaves openStateByOther, the per-file index and its owner.
DropOpen(o) ==
  /\ openStateByOther' = [openStateByOther EXCEPT ![o] = Gone]
  /\ openStateByFile' = [openStateByFile EXCEPT ![openStateByOther[o].file] = @ \ {o}]
  /\ openOwners' = OwnerLeft(openStateByOther[o].owner, {o})

\* CloseFile.  The record stays reachable from the closed stateid, for a copy
\* of the CLOSE.
CloseFile(o, q) ==
  LET k == openStateByOther[o].owner IN
  /\ Accepted(o, q)
  /\ openStateByOther[o].locks = {}
  /\ DropOpen(o)
  /\ closedOwnerByOther' = [closedOwnerByOther EXCEPT ![o] = k]
  /\ ownerRec' = [ownerRec EXCEPT ![k] =
       Advanced(@, q, FALSE, @.states \ {o}, <<"CLOSE">>)]
  /\ Answer(OwnerOf(o).name, q, <<"CLOSE">>)
  /\ UNCHANGED <<nextOwner, nextOpen, lockVars>>

-----------------------------------------------------------------------------
(* Caching a reply.                                                        *)

\* The records CacheOpenOwnerResult may store a reply in: the live one, else
\* one that a closed stateid of that owner leads to.  The map is searched in
\* no particular order.
CacheTargets(n) ==
  IF openOwners[n] # 0 THEN {openOwners[n]}
  ELSE {k \in OwnerRecs : ownerRec[k].name = n
                          /\ \E o \in Opens : closedOwnerByOther[o] = k}

\* The record with this reply cached.
Cached(r, reply) == OwnerRecord(r.name, r.last, r.confirmed, r.states, reply, r.reply)

\* Mutant: a reply is cached for an owner in the table only.
CacheLiveOwnerResult(n) ==
  /\ openReply[n] # NoReply
  /\ ownerRec' = [k \in OwnerRecs |-> IF k = openOwners[n] THEN Cached(ownerRec[k], openReply[n])
                                      ELSE ownerRec[k]]
  /\ openReply' = [openReply EXCEPT ![n] = NoReply]
  /\ UNCHANGED <<nextOwner, openOwners, closedOwnerByOther, openVars, lockVars>>

CacheOpenOwnerResult(n) ==
  /\ openReply[n] # NoReply
  /\ IF CacheTargets(n) = {} THEN UNCHANGED ownerRec
     ELSE \E k \in CacheTargets(n) :
            ownerRec' = [ownerRec EXCEPT ![k] = Cached(@, openReply[n])]
  /\ openReply' = [openReply EXCEPT ![n] = NoReply]
  /\ UNCHANGED <<nextOwner, openOwners, closedOwnerByOther, openVars, lockVars>>

CacheLockOwnerResult(n) ==
  /\ lockReply[n] # NoReply
  /\ lockOwners' = IF ~Known(n) THEN lockOwners
                   ELSE [lockOwners EXCEPT ![n] =
                           [last |-> @.last, result |-> lockReply[n], reply |-> @.reply]]
  /\ lockReply' = [lockReply EXCEPT ![n] = NoReply]
  /\ UNCHANGED <<ownerVars, openVars, lockStateByOther, nextLock, held, openReply>>

-----------------------------------------------------------------------------
(* Locks.                                                                  *)

\* acquireLock is refused by a lock of another owner, unless both only read.
Denied(n, f, mode) ==
  \E h \in held : h[1] # n /\ h[2] = f /\ "write" \in {h[3], mode}

\* The holdings once n has the range in this mode.
Acquired(n, f, mode) == {h \in held : h[1] # n \/ h[2] # f} \cup {<<n, f, mode>>}

HeldBy(n, f) == {h \in held : h[1] = n /\ h[2] = f}

AnswerLock(n, q, reply) ==
  lockReply' = [lockReply EXCEPT ![n] = IF q = 0 THEN NoReply ELSE reply]

\* The lock state of a lock-owner on an open, or a new one.
LockStateFor(n, o) ==
  LET same == {l \in openStateByOther[o].locks : lockStateByOther[l].owner = n}
  IN IF same = {} THEN nextLock ELSE CHOOSE l \in same : TRUE

LockOwner(n) == IF Known(n) THEN lockOwners[n] ELSE NewLockOwner

\* The seqid gate of a LOCK that brings a lock-owner to an open: both seqids
\* count, and a new lock-owner starts at 1.
LockNewAdmitted(n, lq, o, oq) ==
  LET openValid == ValidateSeqID(OwnerOf(o).last, oq)
  IN
  /\ openValid # "bad"
  /\ IF Known(n) \/ lq = 0
     THEN ValidateSeqID(LockOwner(n).last, lq) = "ok" /\ openValid = "ok"
     ELSE lq = NextSeqID(0)

\* LockNew: granted, denied, or given up while a lease of another protocol is
\* broken (the request is cancelled: the new records stay, no seqid advances).
LockNew(n, lq, o, oq, mode) ==
  LET os == openStateByOther[o]
      l == LockStateFor(n, o)
      fresh == l = nextLock
      ls == [owner |-> n, open |-> o, file |-> os.file]
  IN
  /\ Live(o) /\ LockReady(n, lq) /\ Ready(OwnerOf(o).name, oq)
  /\ OwnerClient[n] = OwnerClient[OwnerOf(o).name]
  /\ LockNewAdmitted(n, lq, o, oq)
  /\ mode \in os.access
  /\ l \in LockStates
  /\ openStateByOther' = [openStateByOther EXCEPT ![o] =
                            Share(os.owner, os.file, os.access, os.deny, os.locks \cup {l})]
  /\ lockStateByOther' = [lockStateByOther EXCEPT ![l] = ls]
  /\ nextLock' = IF fresh THEN nextLock + 1 ELSE nextLock
  /\ UNCHANGED <<nextOwner, openOwners, closedOwnerByOther, openStateByFile, nextOpen, openReply>>
  /\ \/ /\ ~Denied(n, os.file, mode)
        /\ held' = Acquired(n, os.file, mode)
        /\ lockOwners' = [lockOwners EXCEPT ![n] =
                            AdvancedLock(LockOwner(n), lq, <<"LOCK", l, lq>>)]
        /\ ownerRec' = [ownerRec EXCEPT ![os.owner] =
                          Advanced(@, oq, FALSE, @.states, @.reply)]
        /\ AnswerLock(n, lq, <<"LOCK", l, lq>>)
     \/ /\ Denied(n, os.file, mode)
        /\ lockOwners' = [lockOwners EXCEPT ![n] =
                            AdvancedLock(LockOwner(n), lq, <<"DENIED">>)]
        /\ ownerRec' = [ownerRec EXCEPT ![os.owner] =
                          Advanced(@, oq, FALSE, @.states, @.reply)]
        /\ AnswerLock(n, lq, <<"DENIED">>)
        /\ UNCHANGED held
     \/ /\ lockOwners' = [lockOwners EXCEPT ![n] = LockOwner(n)]
        /\ UNCHANGED <<ownerRec, held, lockReply>>

\* A LOCK or LOCKU with a current lock stateid that passes the seqid gate.
LockAccepted(l, q) ==
  /\ LiveLock(l)
  /\ LockReady(lockStateByOther[l].owner, q)
  /\ ValidateSeqID(lockOwners[lockStateByOther[l].owner].last, q) = "ok"

\* The lock-owner's seqid advances.
RestampedLock(l, q, reply) ==
  LET n == lockStateByOther[l].owner IN
  /\ lockOwners' = [lockOwners EXCEPT ![n] = AdvancedLock(@, q, reply)]
  /\ AnswerLock(n, q, reply)
  /\ UNCHANGED <<ownerVars, openVars, lockStateByOther, nextLock, openReply>>

LockExisting(l, q, mode) ==
  LET ls == lockStateByOther[l] IN
  /\ LockAccepted(l, q)
  /\ mode \in openStateByOther[ls.open].access
  /\ \/ /\ ~Denied(ls.owner, ls.file, mode)
        /\ held' = Acquired(ls.owner, ls.file, mode)
        /\ RestampedLock(l, q, <<"LOCK", l, q>>)
     \/ /\ Denied(ls.owner, ls.file, mode)
        /\ RestampedLock(l, q, <<"DENIED">>)
        /\ UNCHANGED held

\* UnlockFile succeeds whether or not the range was locked, and keeps the
\* lock state.
UnlockFile(l, q) ==
  LET ls == lockStateByOther[l] IN
  /\ LockAccepted(l, q)
  /\ held' = held \ HeldBy(ls.owner, ls.file)
  /\ RestampedLock(l, q, <<"LOCKU", l, q>>)

\* The lock states that remain, and the opens without the others.
WithoutLocks(gone) ==
  /\ lockStateByOther' = [l \in LockStates |-> IF l \in gone THEN Gone ELSE lockStateByOther[l]]
  /\ openStateByOther' = [o \in Opens |->
       LET os == openStateByOther[o]
       IN IF Live(o) THEN Share(os.owner, os.file, os.access, os.deny, os.locks \ gone)
          ELSE Gone]

LockStatesOf(n) == {l \in LockStates : LiveLock(l) /\ lockStateByOther[l].owner = n}

\* Mutant: RELEASE_LOCKOWNER does not look at the locks of the owner.
LocksHeldNever(n) == FALSE

\* ReleaseLockOwner answers NFS4ERR_LOCKS_HELD.
LocksHeld(n) == \E l \in LockStatesOf(n) : HeldBy(n, lockStateByOther[l].file) # {}

ReleaseLockOwner(n) ==
  /\ ~Does("v41ops") /\ Known(n) /\ ~LocksHeld(n)
  /\ WithoutLocks(LockStatesOf(n))
  /\ lockOwners' = [lockOwners EXCEPT ![n] = NoLockOwner]
  /\ UNCHANGED <<ownerVars, openStateByFile, nextOpen, nextLock, held, lockReply, openReply>>

\* freeLockStateidLocked takes the locks of the owner on the file with it, and
\* the owner with its last lock state.
FreeLockStateid(l) ==
  LET ls == lockStateByOther[l] IN
  /\ Does("v41ops") /\ LiveLock(l)
  /\ WithoutLocks({l})
  /\ held' = held \ HeldBy(ls.owner, ls.file)
  /\ lockOwners' = IF LockStatesOf(ls.owner) = {l}
                   THEN [lockOwners EXCEPT ![ls.owner] = NoLockOwner] ELSE lockOwners
  /\ UNCHANGED <<ownerVars, openStateByFile, nextOpen, nextLock, lockReply, openReply>>

\* freeOpenStateidLocked.
FreeOpenStateid(o) ==
  /\ Does("v41ops") /\ Live(o)
  /\ openStateByOther[o].locks = {}
  /\ DropOpen(o)
  /\ ownerRec' = [ownerRec EXCEPT ![openStateByOther[o].owner] =
       OwnerRecord(@.name, @.last, @.confirmed, @.states \ {o}, @.result, @.reply)]
  /\ UNCHANGED <<nextOwner, nextOpen, closedOwnerByOther, lockVars, openReply>>

-----------------------------------------------------------------------------

\* The open and lock part of onLeaseExpired.
ReleaseClientState(c) ==
  LET owners == {k \in OwnerRecs : \E n \in OpenOwners : OwnerClient[n] = c /\ openOwners[n] = k}
      gone == UNION {ownerRec[k].states : k \in owners}
      locks == UNION {openStateByOther[o].locks : o \in gone}
      lockers == {lockStateByOther[l].owner : l \in locks}
  IN
  /\ Does("expire") /\ owners # {}
  /\ openStateByOther' = [o \in Opens |-> IF o \in gone THEN Gone ELSE openStateByOther[o]]
  /\ openStateByFile' = [f \in OpenFiles |-> openStateByFile[f] \ gone]
  /\ openOwners' = [n \in OpenOwners |-> IF openOwners[n] \in owners THEN 0 ELSE openOwners[n]]
  /\ closedOwnerByOther' = [o \in Opens |->
       IF closedOwnerByOther[o] # 0 /\ OwnerClient[ownerRec[closedOwnerByOther[o]].name] = c
       THEN 0 ELSE closedOwnerByOther[o]]
  /\ lockStateByOther' = [l \in LockStates |-> IF l \in locks THEN Gone ELSE lockStateByOther[l]]
  /\ lockOwners' = [n \in LockOwners |-> IF n \in lockers THEN NoLockOwner ELSE lockOwners[n]]
  /\ held' = {h \in held : ~\E l \in locks : h \in HeldBy(lockStateByOther[l].owner,
                                                         lockStateByOther[l].file)}
  /\ UNCHANGED <<ownerRec, nextOwner, nextOpen, nextLock, openReply, lockReply>>

OpenOps ==
  \E n \in OpenOwners, q \in 0..MaxSeqid :
    \/ \E f \in OpenFiles,
          access \in IF Does("share") THEN SUBSET Modes \ {{}} ELSE {Modes},
          deny \in IF Does("share") THEN SUBSET Modes ELSE {{}} :
         \/ OpenDenied(n, q, f, access, deny)
         \/ OpenFile(n, q, f, access, deny)
    \/ \E o \in Opens :
         /\ Live(o) /\ OwnerOf(o).name = n
         /\ \/ CloseFile(o, q)
            \/ /\ Does("share")
               /\ \/ ConfirmOpen(o, q)
                  \/ \E access, deny \in SUBSET Modes : DowngradeOpen(o, q, access, deny)

LockOps ==
  \/ \E n \in LockOwners, o \in Opens, lq, oq \in 0..MaxSeqid, mode \in Modes :
       LockNew(n, lq, o, oq, mode)
  \/ \E l \in LockStates, q \in 0..MaxSeqid :
       UnlockFile(l, q) \/ \E mode \in Modes : LockExisting(l, q, mode)
  \/ \E n \in LockOwners : ReleaseLockOwner(n)
  \/ \E l \in LockStates : FreeLockStateid(l)

OpenNext ==
  \/ OpenOps
  \/ Does("lock") /\ LockOps
  \/ \E o \in Opens : FreeOpenStateid(o)
  \/ \E c \in Clients : ReleaseClientState(c)
  \/ \E n \in OpenOwners : CacheOpenOwnerResult(n)
  \/ \E n \in LockOwners : CacheLockOwnerResult(n)

OpenSpec == OpenInit /\ [][OpenNext /\ UNCHANGED work]_<<openStateVars, work>>

-----------------------------------------------------------------------------
(* Properties.                                                             *)

\* The records of the state manager are well formed.
OpenTypeOK ==
  /\ nextOwner \in 1..(MaxOwners + 1) /\ nextOpen \in 1..(MaxOpens + 1)
  /\ nextLock \in 1..(MaxLockStates + 1)
  /\ openOwners \in [OpenOwners -> 0..MaxOwners]
  /\ closedOwnerByOther \in [Opens -> 0..MaxOwners]
  /\ \A k \in OwnerRecs : ownerRec[k].last \in 0..MaxSeqid /\ ownerRec[k].states \subseteq Opens
  /\ \A n \in LockOwners : lockOwners[n].last \in 0..MaxSeqid
  /\ held \subseteq LockOwners \X OpenFiles \X Modes

\* Share reservations hold between any two opens of a file, however the share
\* modes came about by OPENs that add modes, downgrades and closes: no owner
\* has access that another one denies (OpenFile, shareConflictLocked).
SharesRespected ==
  \A x, y \in {o \in Opens : Live(o)} :
    LET a == openStateByOther[x]
        b == openStateByOther[y]
    IN a.file = b.file /\ a.owner # b.owner => a.access \cap b.deny = {}

\* The three ways to find an open agree: by stateid, by file (where conflicts
\* are looked for) and by owner; and an owner with opens is the one that the
\* owner table leads to, so its seqid is the one that is checked.
OpenIndexesAgree ==
  /\ \A f \in OpenFiles : openStateByFile[f] = {o \in Opens : Live(o) /\ openStateByOther[o].file = f}
  /\ \A k \in OwnerRecs :
       ownerRec[k].name # "none" /\ (\E n \in OpenOwners : openOwners[n] = k) =>
         ownerRec[k].states = {o \in Opens : Live(o) /\ openStateByOther[o].owner = k}
  /\ \A o \in Opens : Live(o) => openOwners[OwnerOf(o).name] = openStateByOther[o].owner

\* No byte-range lock outlives the state that can release it: whoever holds
\* one is a known lock-owner with a lock state on that file, under an open
\* that is still there (CloseFile, ReleaseLockOwner, FreeStateid and
\* onLeaseExpired, in any order).
LocksAnchored ==
  \A h \in held :
    /\ Known(h[1])
    /\ \E l \in LockStatesOf(h[1]) :
         /\ lockStateByOther[l].file = h[2]
         /\ Live(lockStateByOther[l].open)
         /\ l \in openStateByOther[lockStateByOther[l].open].locks

\* The records a repeated request can reach: the live one, and the one a closed
\* stateid leads to.
Retained(k) == \E o \in Opens : closedOwnerByOther[o] = k
Reachable(k) == (\E n \in OpenOwners : openOwners[n] = k) \/ Retained(k)

\* The record of this name is the only one that closed stateids lead to.
OnlyRetained(k) == \A j \in OwnerRecs : Retained(j) /\ ownerRec[j].name = ownerRec[k].name => j = k

\* Once the reply of an owner's last request is cached, that is the reply a
\* repetition gets (CacheOpenOwnerResult, CacheLockOwnerResult).  For a record
\* that only closed stateids lead to this takes that no earlier record of the
\* owner is retained as well.
RepliesCurrent ==
  /\ \A k \in OwnerRecs :
       /\ ~Does("v41ops") /\ Reachable(k) /\ openReply[ownerRec[k].name] = NoReply
       /\ openOwners[ownerRec[k].name] = k \/ OnlyRetained(k)
       => ownerRec[k].result = ownerRec[k].reply
  /\ \A n \in LockOwners :
       ~Does("v41ops") /\ Known(n) /\ lockReply[n] = NoReply =>
         lockOwners[n].result = lockOwners[n].reply

\* A repeated CLOSE gets the reply of that CLOSE: "otherwise a retransmit of a
\* CLOSE/DOWNGRADE/CONFIRM would replay stale OPEN bytes" (manager.go, on
\* CacheOpenOwnerResult).
CloseReplayed ==
  \A k \in OwnerRecs :
    Reachable(k) /\ openReply[ownerRec[k].name] = NoReply =>
      ownerRec[k].result = ownerRec[k].reply
=============================================================================
