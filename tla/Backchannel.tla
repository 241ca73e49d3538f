---------------------------- MODULE Backchannel ----------------------------
(***************************************************************************)
(* The NFSv4.1 back channel: which TCP connections are bound to which      *)
(* session (internal/adapter/nfs/v4/state/manager.go, connection.go), the  *)
(* registration of a connection's writer after a COMPOUND                  *)
(* (pkg/adapter/nfs/handlers.go) and the goroutine of a session that sends *)
(* callbacks over those connections (state/backchannel.go).  All sessions  *)
(* belong to one client.                                                   *)
(*                                                                         *)
(* A connection runs each request in a goroutine of its own, so a BIND of  *)
(* one request interleaves with the registration of another.  A session id *)
(* is never used again.  What a callback says, its XID and its sequence id *)
(* are left out; the client answers it, refuses it or stays silent.  A     *)
(* workload names the connections, sessions and request goroutines that    *)
(* take part.                                                              *)
(***************************************************************************)
EXTENDS Naturals, FiniteSets, Workload

CONSTANTS Conns,            \* TCP connections
          BackSessions,     \* session ids
          Requests,         \* request goroutines
          MaxConns,         \* maxConnsPerSession; 0, no limit, outside "limit" workloads
          MaxQueue,         \* backchannelQueueSize
          MaxAttempts,      \* backchannelMaxRetries
          MaxPending        \* bound on the PendingCBReplies made

ASSUME BackConstants ==
    /\ MaxConns \in Nat /\ MaxQueue \in Nat \ {0} /\ MaxAttempts \in Nat \ {0}
    /\ MaxPending \in Nat

VARIABLES
    session,        \* a session id is "new", "live" (in sessionsByID) or "gone"
    connByID,       \* the binding of each connection, or Unbound
    connBySession,  \* the bindings each session lists
    registered,     \* connWriters and cbRepliesByConn: the PendingCBReplies, 0 for none
    heldBy,         \* NFSConnection.pendingCBReplies of each connection, 0 for nil
    made,           \* how many PendingCBReplies were made
    request,        \* what each request goroutine is about to do
    sender,         \* a session's BackchannelSender: "none", "running", "stopped", "exited"
    queue,          \* callbacks waiting in each sender's queue
    job,            \* the callback each sender is sending
    broken,         \* connections that were lost: writes to them fail
    fault           \* backchannelFaults holds the client

bindVars == <<connByID, connBySession>>
registerVars == <<registered, heldBy, made>>
sendVars == <<queue, job, fault>>
backVars == <<session, bindVars, registerVars, request, sender, sendVars, broken>>

Dirs == {"fore", "back", "both"}
BackDirs == {"back", "both"}
Unbound == [session |-> "none", dir |-> "none"]
Free == [pc |-> "idle"]
NoJob == [pc |-> "idle", attempt |-> 0]

LiveSession(s) == session[s] = "live"
LiveSessions == {s \in BackSessions : LiveSession(s)}
Bound(c) == connByID[c] # Unbound
Bindings == [conn : Conns, dir : Dirs]

Steps == {"lookup", "bind", "check", "pending", "register", "store", "start"}

\* Type invariant.
BackTypeOK ==
    /\ session \in [BackSessions -> {"new", "live", "gone"}]
    /\ connByID \in [Conns -> [session : BackSessions, dir : Dirs] \cup {Unbound}]
    /\ connBySession \in [BackSessions -> SUBSET Bindings]
    /\ made \in 0 .. MaxPending
    /\ registered \in [Conns -> 0 .. made] /\ heldBy \in [Conns -> 0 .. made]
    /\ \A t \in Requests : request[t] = Free \/ request[t].pc \in Steps
    /\ sender \in [BackSessions -> {"none", "running", "stopped", "exited"}]
    /\ queue \in [BackSessions -> 0 .. MaxQueue]
    /\ \A s \in BackSessions : /\ job[s].attempt \in 0 .. MaxAttempts
                               /\ job[s].pc = "idle" <=> job[s].attempt = 0
    /\ broken \subseteq Conns
    /\ fault \in BOOLEAN

BackInit ==
    /\ session = [s \in BackSessions |-> "new"]
    /\ connByID = [c \in Conns |-> Unbound]
    /\ connBySession = [s \in BackSessions |-> {}]
    /\ registered = [c \in Conns |-> 0] /\ heldBy = [c \in Conns |-> 0] /\ made = 0
    /\ request = [t \in Requests |-> Free]
    /\ sender = [s \in BackSessions |-> "none"]
    /\ queue = [s \in BackSessions |-> 0] /\ job = [s \in BackSessions |-> NoJob]
    /\ broken = {} /\ fault = FALSE

-----------------------------------------------------------------------------
(* Sessions come and go *)

\* A goroutine takes a request that came over the connection.
Arrives(t, c) == Does(t) /\ Does(c) /\ request[t] = Free /\ c \notin broken

\* CREATE_SESSION makes the session, then binds the connection it came over.
CreateBackSession(t, c, s) ==
    /\ Arrives(t, c) /\ Does(s) /\ session[s] = "new"
    /\ session' = [session EXCEPT ![s] = "live"]
    /\ request' = [request EXCEPT ![t] = [pc |-> "lookup", conn |-> c, session |-> s,
                                          dir |-> "fore"]]
    /\ UNCHANGED <<bindVars, registerVars, sender, sendVars, broken>>

\* stopBackchannelSender for the sessions of a set.
Stopped(S) == [s \in BackSessions |-> IF s \in S /\ sender[s] = "running" THEN "stopped"
                                                                         ELSE sender[s]]

\* destroySessionLocked: the bindings go with the session, the writers stay.
DestroyBackSession(s) ==
    /\ LiveSession(s)
    /\ sender' = Stopped({s})
    /\ session' = [session EXCEPT ![s] = "gone"]
    /\ connByID' = [c \in Conns |->
                       IF \E b \in connBySession[s] : b.conn = c THEN Unbound ELSE connByID[c]]
    /\ connBySession' = [connBySession EXCEPT ![s] = {}]
    /\ UNCHANGED <<registerVars, request, sendVars, broken>>

Ended == [s \in BackSessions |-> IF LiveSession(s) THEN "gone" ELSE session[s]]

\* purgeV41Client (EvictV41Client, DESTROY_CLIENTID, reboot): the sessions go, their
\* bindings stay.
PurgeClient ==
    /\ Does("purge")
    /\ LiveSessions # {}
    /\ sender' = Stopped(BackSessions)
    /\ session' = Ended
    /\ UNCHANGED <<bindVars, registerVars, request, sendVars, broken>>

\* The bindings to drop when the sessions of S are no more.
Orphans(S) == {c \in Conns : Bound(c) /\ connByID[c].session \notin S}

\* Mutant: only connections of the back channel are looked at.
SweepBack(S) ==
    LET back == {c \in Orphans(S) : connByID[c].dir # "fore"} IN
    /\ connByID' = [c \in Conns |-> IF c \in back THEN Unbound ELSE connByID[c]]
    /\ connBySession' = [s \in BackSessions |->
           {b \in connBySession[s] : ~ (b.conn \in back /\ connByID[b.conn].session = s)}]

Sweep(S) ==
    /\ connByID' = [c \in Conns |-> IF c \in Orphans(S) THEN Unbound ELSE connByID[c]]
    /\ connBySession' = [s \in BackSessions |->
           {b \in connBySession[s] : ~ (b.conn \in Orphans(S) /\ connByID[b.conn].session = s)}]

\* reapExpiredSessions, which runs every 30 seconds: purge the client if its lease ran
\* out, then drop the bindings to sessions that no longer exist.
Reap ==
    /\ Orphans(LiveSessions) # {}
    /\ Sweep(LiveSessions)
    /\ UNCHANGED <<session, sender, registerVars, request, sendVars, broken>>

ReapExpired ==
    /\ Does("purge")
    /\ LiveSessions # {}
    /\ sender' = Stopped(BackSessions)
    /\ session' = Ended
    /\ Sweep({})
    /\ UNCHANGED <<registerVars, request, sendVars, broken>>

\* The TCP connection is lost.  Nothing calls UnbindConnection: the binding stays.
Disconnect(c) ==
    /\ Does("lose")
    /\ Does(c) /\ c \notin broken
    /\ broken' = broken \cup {c}
    /\ UNCHANGED <<session, bindVars, registerVars, request, sender, sendVars>>

-----------------------------------------------------------------------------
(* BIND_CONN_TO_SESSION *)

Goto(t, r) == request' = [request EXCEPT ![t] = r]

At(t, pc) == request[t].pc = pc

\* A BIND_CONN_TO_SESSION arrives, or a COMPOUND that binds nothing; over an unbound
\* connection the latter changes nothing.
BindRequest(t, c, s, d) ==
    /\ Arrives(t, c) /\ session[s] # "new"
    /\ Goto(t, [pc |-> "lookup", conn |-> c, session |-> s, dir |-> d])
    /\ UNCHANGED <<session, bindVars, registerVars, sender, sendVars, broken>>

OtherCompound(t, c) ==
    /\ Arrives(t, c) /\ Bound(c)
    /\ Goto(t, [pc |-> "check", conn |-> c])
    /\ UNCHANGED <<session, bindVars, registerVars, sender, sendVars, broken>>

\* The session is looked up under sm.mu, which is released before connMu is taken.
LookupSession(t) ==
    /\ At(t, "lookup")
    /\ Goto(t, IF LiveSession(request[t].session) THEN [request[t] EXCEPT !.pc = "bind"]
                                           ELSE [pc |-> "check", conn |-> request[t].conn])
    /\ UNCHANGED <<session, bindVars, registerVars, sender, sendVars, broken>>

Others(s, c) == {b \in connBySession[s] : b.conn # c}

\* The per-session limit and the fore-channel rule.
BindAllowed(c, s, d) ==
    /\ \/ ~ Does("limit") \/ Cardinality(connBySession[s]) < MaxConns
       \/ \E b \in connBySession[s] : b.conn = c
    /\ d = "back" => \E b \in Others(s, c) : b.dir # "back"

\* Mutant: the old binding stays.
UnbindsNever(c, s) == FALSE

\* The connection leaves the session it was bound to before, writer and all, even
\* when the new binding is then refused.
Unbinds(c, s) == Bound(c) /\ connByID[c].session # s

BindConn(t) ==
    LET c == request[t].conn
        s == request[t].session
        d == request[t].dir
        rest == IF Unbinds(c, s)
                THEN [connBySession EXCEPT ![connByID[c].session] = {b \in @ : b.conn # c}]
                ELSE connBySession
    IN /\ At(t, "bind")
       /\ registered' = IF Unbinds(c, s) THEN [registered EXCEPT ![c] = 0] ELSE registered
       /\ \/ /\ BindAllowed(c, s, d)
             /\ connByID' = [connByID EXCEPT ![c] = [session |-> s, dir |-> d]]
             /\ connBySession' = [rest EXCEPT ![s] = Others(s, c) \cup {[conn |-> c, dir |-> d]}]
          \/ /\ ~ BindAllowed(c, s, d)
             /\ connByID' = IF Unbinds(c, s) THEN [connByID EXCEPT ![c] = Unbound] ELSE connByID
             /\ connBySession' = rest
       /\ Goto(t, [pc |-> "check", conn |-> c])
       /\ UNCHANGED <<session, heldBy, made, sender, sendVars, broken>>

-----------------------------------------------------------------------------
(* maybeRegisterBackchannel, after every COMPOUND *)

CheckBinding(t) ==
    LET c == request[t].conn IN
    /\ At(t, "check")
    /\ Goto(t, IF connByID[c].dir \in BackDirs
               THEN [pc |-> "pending", conn |-> c, session |-> connByID[c].session]
               ELSE Free)
    /\ UNCHANGED <<session, bindVars, registerVars, sender, sendVars, broken>>

\* Already registered: nothing to do.  A stale local flag is cleared.
CheckPending(t) ==
    LET c == request[t].conn IN
    /\ At(t, "pending")
    /\ IF heldBy[c] # 0 /\ registered[c] # 0
       THEN Goto(t, Free) /\ UNCHANGED heldBy
       ELSE Goto(t, [request[t] EXCEPT !.pc = "register"]) /\ heldBy' = [heldBy EXCEPT ![c] = 0]
    /\ UNCHANGED <<session, bindVars, registered, made, sender, sendVars, broken>>

RegisterConnWriter(t) ==
    /\ At(t, "register") /\ made < MaxPending
    /\ made' = made + 1
    /\ registered' = [registered EXCEPT ![request[t].conn] = made + 1]
    /\ Goto(t, [pc |-> "store", conn |-> request[t].conn, session |-> request[t].session,
                replies |-> made + 1])
    /\ UNCHANGED <<session, bindVars, heldBy, sender, sendVars, broken>>

StorePending(t) ==
    /\ At(t, "store")
    /\ heldBy' = [heldBy EXCEPT ![request[t].conn] = request[t].replies]
    /\ Goto(t, [pc |-> "start", conn |-> request[t].conn, session |-> request[t].session])
    /\ UNCHANGED <<session, bindVars, registered, made, sender, sendVars, broken>>

\* Mutant: the session is not looked up again.
MayStartUnchecked(s) == sender[s] = "none"

\* The session must still exist and have no sender yet.
MayStart(s) == LiveSession(s) /\ sender[s] = "none"

StartBackchannelSender(t) ==
    LET s == request[t].session IN
    /\ At(t, "start")
    /\ sender' = IF MayStart(s) THEN [sender EXCEPT ![s] = "running"] ELSE sender
    /\ Goto(t, Free)
    /\ UNCHANGED <<session, bindVars, registerVars, sendVars, broken>>

-----------------------------------------------------------------------------
(* BackchannelSender *)

\* sendRecallV41 looks the sender up, then queues without a lock: the sender may have
\* been stopped in between.
EnqueueCallback(s) ==
    /\ Does("send")
    /\ sender[s] \in {"running", "stopped"} /\ queue[s] < MaxQueue
    /\ queue' = [queue EXCEPT ![s] = @ + 1]
    /\ UNCHANGED <<session, bindVars, registerVars, request, sender, job, fault, broken>>

Working(s, j) == job' = [job EXCEPT ![s] = j]

\* Run: when the queue and stopCh are both ready, select takes either.
Dequeue(s) ==
    /\ sender[s] \in {"running", "stopped"} /\ job[s].pc = "idle" /\ queue[s] > 0
    /\ queue' = [queue EXCEPT ![s] = @ - 1]
    /\ Working(s, [pc |-> "find", attempt |-> 1])
    /\ UNCHANGED <<session, bindVars, registerVars, request, sender, fault, broken>>

SenderExits(s) ==
    /\ sender[s] = "stopped" /\ job[s].pc = "idle"
    /\ sender' = [sender EXCEPT ![s] = "exited"]
    /\ UNCHANGED <<session, bindVars, registerVars, request, sendVars, broken>>

\* getBackBoundConnWriter: the most recently active back-bound connection, which may
\* be any of them.
BackBound(s, not) == {b.conn : b \in {x \in connBySession[s] : x.dir \in BackDirs}} \ not

Retries(j) == j.attempt < MaxAttempts

\* A failed attempt backs off, or is the last and marks the fault.
AttemptFails(s) ==
    IF Retries(job[s])
    THEN Working(s, [pc |-> "backoff", attempt |-> job[s].attempt]) /\ UNCHANGED fault
    ELSE Working(s, NoJob) /\ fault' = TRUE

\* One look-up: a registered connection to write to, or none.
FindFrom(s, not, pc) ==
    \/ \E c \in BackBound(s, not) :
           /\ registered[c] # 0
           /\ Working(s, [pc |-> pc, attempt |-> job[s].attempt, conn |-> c,
                          replies |-> registered[c]])
           /\ UNCHANGED fault
    \/ /\ BackBound(s, not) = {} \/ \E c \in BackBound(s, not) : registered[c] = 0
       /\ AttemptFails(s)

FindConn(s) ==
    /\ job[s].pc = "find"
    /\ FindFrom(s, {}, "write")
    /\ UNCHANGED <<session, bindVars, registerVars, request, sender, queue, broken>>

\* The write: a failure on the first connection tries one other.
WriteCallback(s) ==
    /\ job[s].pc \in {"write", "rewrite"}
    /\ \/ job[s].conn \notin broken /\ Working(s, [job[s] EXCEPT !.pc = "await"]) /\ UNCHANGED fault
       \/ job[s].conn \in broken /\ job[s].pc = "write"
          /\ FindFrom(s, {job[s].conn}, "rewrite")
       \/ job[s].conn \in broken /\ job[s].pc = "rewrite" /\ AttemptFails(s)
    /\ UNCHANGED <<session, bindVars, registerVars, request, sender, queue, broken>>

\* The reader of the connection delivers the reply to the PendingCBReplies it holds.
CallbackReply(s) ==
    /\ job[s].pc = "await"
    /\ job[s].conn \notin broken /\ heldBy[job[s].conn] = job[s].replies
    /\ Working(s, NoJob) /\ fault' = FALSE
    /\ UNCHANGED <<session, bindVars, registerVars, request, sender, queue, broken>>

\* The reply is an error, or none comes in time.
CallbackFails(s) ==
    /\ job[s].pc = "await"
    /\ AttemptFails(s)
    /\ UNCHANGED <<session, bindVars, registerVars, request, sender, queue, broken>>

\* The back-off ends, or the sender is stopped during it.
Backoff(s) ==
    /\ job[s].pc = "backoff"
    /\ \/ Working(s, [pc |-> "find", attempt |-> job[s].attempt + 1])
       \/ sender[s] = "stopped" /\ Working(s, NoJob)
    /\ UNCHANGED <<session, bindVars, registerVars, request, sender, queue, fault, broken>>

SenderStep(s) ==
    \/ Dequeue(s) \/ FindConn(s) \/ WriteCallback(s) \/ CallbackReply(s)
    \/ CallbackFails(s) \/ Backoff(s)

RequestStep(t) ==
    \/ LookupSession(t) \/ BindConn(t) \/ CheckBinding(t) \/ CheckPending(t)
    \/ RegisterConnWriter(t) \/ StorePending(t) \/ StartBackchannelSender(t)

BackNext ==
    \/ \E t \in Requests : RequestStep(t)
    \/ \E t \in Requests, c \in Conns :
          \/ OtherCompound(t, c)
          \/ \E s \in BackSessions : CreateBackSession(t, c, s)
          \/ \E s \in BackSessions, d \in Dirs : BindRequest(t, c, s, d)
    \/ \E s \in BackSessions : \/ DestroyBackSession(s) \/ EnqueueCallback(s)
                               \/ SenderStep(s) \/ SenderExits(s)
    \/ PurgeClient \/ Reap \/ ReapExpired
    \/ \E c \in Conns : Disconnect(c)

BackSpec == BackInit /\ work \in Workloads /\ [][BackNext /\ UNCHANGED work]_<<backVars, work>>

\* The sender's goroutine runs on and its waits are timed; the reaper ticks; select takes
\* one of its ready cases at random, so a stop is taken in the end.
BackFairness ==
    /\ \A s \in BackSessions : WF_backVars(SenderStep(s)) /\ SF_backVars(SenderExits(s))
    /\ WF_backVars(Reap)

-----------------------------------------------------------------------------
(* Properties *)

\* The two maps behind connMu describe the same bindings whatever sequence of binds,
\* rebinds, destroys and sweeps ran: a connection is listed by exactly the session it
\* is bound to, with the same direction (manager.go:2897-3040).
BindingsAgree ==
    \A c \in Conns, s \in BackSessions, d \in Dirs :
        [conn |-> c, dir |-> d] \in connBySession[s]
            <=> connByID[c] = [session |-> s, dir |-> d]

\* No session ever lists more connections than SetMaxConnectionsPerSession allows, though
\* connections move between sessions and requests of one connection race (manager.go:2925).
ConnectionLimit ==
    Does("limit") => \A s \in BackSessions : Cardinality(connBySession[s]) <= MaxConns

\* A sender runs only for a session that exists: it is stopped before its session is
\* removed and never started afterwards, though the start comes from a binding that was
\* read long before (manager.go:3172-3204, "prevents orphan goroutines").
NoOrphanSender == \A s \in BackSessions : sender[s] = "running" => LiveSession(s)

\* Bindings to a session that is gone, left by a purge or by a BIND that looked the
\* session up before it was destroyed, are swept in the end (manager.go:2872-2885).
OrphansSwept == []<>(Orphans(LiveSessions) = {})

\* A stopped sender goroutine ends, whatever it was sending and however many callbacks
\* it still had queued: its session id never returns, so there is a last one to end
\* (backchannel.go Run, sendCallbackWithRetry).
StoppedSendersEnd == []<>(\A s \in BackSessions : sender[s] # "stopped")
=============================================================================
