----------------------------- MODULE SlotTable ------------------------------
(***************************************************************************)
(* The NFSv4.1 fore channel: SEQUENCE, the slot table that gives a         *)
(* COMPOUND exactly-once semantics, and the dispatcher around it           *)
(* (v4/state/slot_table.go, v41/handlers/sequence.go, handlers/compound.go)*)
(*                                                                         *)
(* A channel is a slot of a session.  A request is a sequence id of a      *)
(* channel and the digest of its COMPOUND, which also settles whether      *)
(* sa_cachethis is set.  Every RPC is served by a goroutine of its own, so *)
(* the copies of a request run concurrently; the network repeats, delays   *)
(* and loses messages.  Sequence ids do not wrap here: a copy delayed by   *)
(* 2^32 requests of its slot is not modelled.                              *)
(***************************************************************************)
EXTENDS Naturals, FiniteSets, Workload

CONSTANTS Sessions, Slots,
          Threads,      \* goroutines serving COMPOUNDs
          Digests,      \* the different COMPOUNDs a client sends
          Cacheable,    \* those of them sent with sa_cachethis
          MaxSeqID      \* bound on the sequence ids of a slot

VARIABLES sessionsByID, \* the sessions the server knows
          seqID,        \* Slot.SeqID
          inUse,        \* the channels whose Slot.InUse is set
          digest,       \* Slot.RequestDigest
          cachedReply,  \* Slot.CachedReply
          pc, serving,  \* where each goroutine is, and its request
          outcome,      \* the reply each goroutine has put together
          sent,         \* the requests on the wire
          cSeq, cReq,   \* the client: last sequence id and COMPOUND of a slot
          cReply,       \* the reply the client has accepted for it
          runs, effect  \* history: times executed, and what was executed

slotVars == <<sessionsByID, seqID, inUse, digest, cachedReply>>
threadVars == <<pc, serving, outcome>>
wireVars == <<sent, cSeq, cReq, cReply>>
channelVars == <<slotVars, threadVars, wireVars, runs, effect>>

Channels == Sessions \X Slots
None == "none"
SeqIDs == 1..MaxSeqID
Requests == [chan : Channels, seq : SeqIDs, digest : Digests]
NoRequest == [chan |-> None, seq |-> 0, digest |-> None]
\* What a reply can say: the result of a COMPOUND, or one of these.
Verdicts == {"DELAY-drained", "RETRY_UNCACHED_REP", "SEQ_FALSE_RETRY"}

ASSUME SlotConstants ==
  /\ MaxSeqID \in Nat
  /\ Cacheable \subseteq Digests
  /\ Digests \cap (Verdicts \cup {None, "start"}) = {}

SlotInit ==
  /\ sessionsByID \in SUBSET Sessions
  /\ seqID = [c \in Channels |-> 0]
  /\ inUse = {}
  /\ digest = [c \in Channels |-> None]
  /\ cachedReply = [c \in Channels |-> None]
  /\ pc = [t \in Threads |-> "idle"]
  /\ serving = [t \in Threads |-> NoRequest]
  /\ outcome = [t \in Threads |-> None]
  /\ sent = {}
  /\ cSeq = [c \in Channels |-> 0]
  /\ cReq = [c \in Channels |-> None]
  /\ cReply = [c \in Channels |-> "start"]
  /\ runs = [c \in Channels |-> [n \in SeqIDs |-> 0]]
  /\ effect = [c \in Channels |-> [n \in SeqIDs |-> None]]

-----------------------------------------------------------------------------
(* The client and the network.                                             *)

\* The client uses a slot again once it has the reply to its last request.
Send(c, d) ==
  /\ c[1] \in sessionsByID
  /\ cReply[c] # None /\ cSeq[c] < MaxSeqID
  /\ cSeq' = [cSeq EXCEPT ![c] = @ + 1]
  /\ cReq' = [cReq EXCEPT ![c] = d]
  /\ cReply' = [cReply EXCEPT ![c] = None]
  /\ sent' = sent \cup {[chan |-> c, seq |-> cSeq[c] + 1, digest |-> d]}
  /\ UNCHANGED <<slotVars, threadVars, runs, effect>>

\* An interrupted call: its slot and sequence id carry another COMPOUND.
Reissue(c, d) ==
  /\ Does("reuse")
  /\ cReply[c] = None /\ d # cReq[c]
  /\ cReq' = [cReq EXCEPT ![c] = d]
  /\ sent' = sent \cup {[chan |-> c, seq |-> cSeq[c], digest |-> d]}
  /\ UNCHANGED <<slotVars, threadVars, cSeq, cReply, runs, effect>>

\* The reply is lost, or the client still waits for it and takes it.
Deliver(r, reply) ==
  /\ UNCHANGED <<sent, cSeq, cReq>>
  /\ \/ UNCHANGED cReply
     \/ /\ cSeq[r.chan] = r.seq /\ cReq[r.chan] = r.digest /\ cReply[r.chan] = None
        /\ cReply' = [cReply EXCEPT ![r.chan] = reply]

-----------------------------------------------------------------------------
(* The goroutine that serves a COMPOUND.                                   *)

Goto(t, label) == pc' = [pc EXCEPT ![t] = label]

Finish(t) ==
  /\ Goto(t, "idle")
  /\ serving' = [serving EXCEPT ![t] = NoRequest]
  /\ outcome' = [outcome EXCEPT ![t] = None]

\* GetSession; an unknown session is answered NFS4ERR_BADSESSION.
LookupSession(t, r) ==
  /\ pc[t] = "idle"
  /\ r.chan[1] \in sessionsByID
  /\ Goto(t, "found")
  /\ serving' = [serving EXCEPT ![t] = r]
  /\ UNCHANGED <<slotVars, outcome, wireVars, runs, effect>>

\* Mutant: the check of InUse is dropped.
SeqNewUnreserved(t) ==
  LET r == serving[t] IN
  /\ pc[t] = "found"
  /\ r.seq = seqID[r.chan] + 1
  /\ inUse' = inUse \cup {r.chan}
  /\ Goto(t, "run")
  /\ UNCHANGED <<sessionsByID, seqID, digest, cachedReply, serving, outcome,
                 wireVars, runs, effect>>

\* ValidateSequence, for a new request: the slot is reserved.
SeqNew(t) ==
  LET r == serving[t] IN
  /\ pc[t] = "found"
  /\ r.seq = seqID[r.chan] + 1 /\ r.chan \notin inUse
  /\ inUse' = inUse \cup {r.chan}
  /\ Goto(t, "run")
  /\ UNCHANGED <<sessionsByID, seqID, digest, cachedReply, serving, outcome,
                 wireVars, runs, effect>>

IsRetry(r) == r.seq = seqID[r.chan] /\ r.chan \notin inUse
\* Mutant: the digests are not compared.
FalseRetryUnchecked(r) == FALSE

FalseRetry(r) == digest[r.chan] # None /\ digest[r.chan] # r.digest

\* ... for a copy of the completed request whose reply was kept.
SeqRetry(t) ==
  LET r == serving[t] IN
  /\ pc[t] = "found"
  /\ IsRetry(r) /\ ~FalseRetry(r) /\ cachedReply[r.chan] # None
  /\ Goto(t, "retry")
  /\ UNCHANGED <<slotVars, serving, outcome, wireVars, runs, effect>>

\* ... and its refusals: NFS4ERR_SEQ_FALSE_RETRY, NFS4ERR_RETRY_UNCACHED_REP,
\* NFS4ERR_DELAY while the slot is in use, NFS4ERR_SEQ_MISORDERED otherwise.
\* The client keeps waiting after the last two.
SeqRefuse(t) ==
  LET r == serving[t] IN
  /\ pc[t] = "found"
  /\ r.seq # seqID[r.chan] + 1 \/ r.chan \in inUse
  /\ \/ IsRetry(r) /\ FalseRetry(r) /\ Deliver(r, "SEQ_FALSE_RETRY")
     \/ IsRetry(r) /\ ~FalseRetry(r) /\ cachedReply[r.chan] = None
          /\ Deliver(r, "RETRY_UNCACHED_REP")
     \/ ~IsRetry(r) /\ UNCHANGED wireVars
  /\ Finish(t)
  /\ UNCHANGED <<slotVars, runs, effect>>

\* The cached bytes are read from the slot after ValidateSequence has released
\* its mutex; a nil is answered NFS4ERR_SERVERFAULT.
ReplayReply(t) ==
  LET r == serving[t] IN
  /\ pc[t] = "retry"
  /\ IF cachedReply[r.chan] # None THEN Deliver(r, cachedReply[r.chan])
                                   ELSE UNCHANGED wireVars
  /\ Finish(t)
  /\ UNCHANGED <<slotVars, runs, effect>>

\* runCompoundOps.
Execute(t) ==
  LET r == serving[t] IN
  /\ pc[t] = "run"
  /\ Goto(t, "ran")
  /\ outcome' = [outcome EXCEPT ![t] = r.digest]
  /\ runs' = [runs EXCEPT ![r.chan][r.seq] = @ + 1]
  /\ effect' = [effect EXCEPT ![r.chan][r.seq] = r.digest]
  /\ UNCHANGED <<slotVars, serving, wireVars>>

\* A draining connection: no operation runs, and the slot is used up.
Drain(t) ==
  /\ Does("drain")
  /\ pc[t] = "run"
  /\ Goto(t, "ran")
  /\ outcome' = [outcome EXCEPT ![t] = "DELAY-drained"]
  /\ UNCHANGED <<slotVars, serving, wireVars, runs, effect>>

\* CompleteSlotRequest, then the reply goes out.
CompleteSlotRequest(t) ==
  LET r == serving[t] IN
  /\ pc[t] = "ran"
  /\ seqID' = [seqID EXCEPT ![r.chan] = r.seq]
  /\ inUse' = inUse \ {r.chan}
  /\ digest' = [digest EXCEPT ![r.chan] = r.digest]
  /\ cachedReply' = [cachedReply EXCEPT ![r.chan] =
                       IF r.digest \in Cacheable THEN outcome[t] ELSE None]
  /\ Deliver(r, outcome[t])
  /\ Finish(t)
  /\ UNCHANGED <<sessionsByID, runs, effect>>

\* destroySessionLocked: DESTROY_SESSION is refused with NFS4ERR_DELAY while a
\* request is in flight; an administrator's eviction is not.
DestroySession(s, force) ==
  /\ s \in sessionsByID
  /\ force \/ \A c \in inUse : c[1] # s
  /\ sessionsByID' = sessionsByID \ {s}
  /\ UNCHANGED <<seqID, inUse, digest, cachedReply, threadVars, wireVars, runs, effect>>

\* All but the steps that touch the client's record as well.
ServeNext(t) ==
  \/ \E r \in sent : LookupSession(t, r)
  \/ SeqRetry(t) \/ SeqRefuse(t) \/ ReplayReply(t)
  \/ Drain(t) \/ CompleteSlotRequest(t)

ClientNext == \E c \in Channels, d \in Digests : Send(c, d) \/ Reissue(c, d)

SlotNext ==
  /\ \/ ClientNext
     \/ \E t \in Threads : ServeNext(t) \/ SeqNew(t) \/ Execute(t)
     \/ \E s \in Sessions, force \in BOOLEAN : DestroySession(s, force)
  /\ UNCHANGED work

SlotSpec == SlotInit /\ work \in Workloads /\ [][SlotNext]_<<channelVars, work>>

-----------------------------------------------------------------------------

\* The slots, the goroutines and the client hold values of their kinds.
SlotTypeOK ==
  /\ sessionsByID \subseteq Sessions
  /\ seqID \in [Channels -> 0..MaxSeqID]
  /\ inUse \subseteq Channels
  /\ digest \in [Channels -> Digests \cup {None}]
  /\ cachedReply \in [Channels -> Digests \cup Verdicts \cup {None}]
  /\ pc \in [Threads -> {"idle", "found", "retry", "run", "ran"}]
  /\ serving \in [Threads -> Requests \cup {NoRequest}]
  /\ \A t \in Threads : pc[t] # "idle" => serving[t] \in Requests
  /\ outcome \in [Threads -> Digests \cup Verdicts \cup {None}]
  /\ sent \subseteq Requests
  /\ cSeq \in [Channels -> 0..MaxSeqID]
  /\ cReq \in [Channels -> Digests \cup {None}]
  /\ cReply \in [Channels -> Digests \cup Verdicts \cup {None, "start"}]
  /\ runs \in [Channels -> [SeqIDs -> Nat]]
  /\ effect \in [Channels -> [SeqIDs -> Digests \cup {None}]]

\* A COMPOUND is executed at most once for a sequence id of a slot, however
\* often the request arrives, on however many connections, before or after the
\* original completes or its session is destroyed (slot_table.go ValidateSequence
\* reserves the slot, CompleteSlotRequest releases it).
ExactlyOnce == \A c \in Channels, n \in SeqIDs : runs[c][n] <= 1

\* A client that accepts a result accepts that of its own COMPOUND, which has
\* been executed; one that is told its retry is false has not had it executed;
\* one that is told the reply was not kept has, or met a draining connection.
TruthfulReply ==
  \A c \in Channels :
    LET done == IF cSeq[c] = 0 THEN None ELSE effect[c][cSeq[c]] IN
    /\ cReply[c] \in Digests => cReply[c] = cReq[c] /\ done = cReq[c]
    /\ cReply[c] = "SEQ_FALSE_RETRY" => done # cReq[c]
    /\ cReply[c] = "RETRY_UNCACHED_REP" => done = cReq[c] \/ Does("drain")

\* The goroutines that have reserved a slot, up to CompleteSlotRequest.
Holder(c) == {t \in Threads : pc[t] \in {"run", "ran"} /\ serving[t].chan = c}

\* A slot is in use exactly while one goroutine serves the sequence id after the
\* last completed one; none of its effects is recorded before it runs.
SlotHeld ==
  /\ \A c \in inUse : \E t \in Threads : Holder(c) = {t}
  /\ \A t \in Threads : pc[t] \in {"run", "ran"} =>
       /\ serving[t].chan \in inUse
       /\ serving[t].seq = seqID[serving[t].chan] + 1
       /\ pc[t] = "run" => runs[serving[t].chan][serving[t].seq] = 0
  /\ \A c \in Channels, n \in SeqIDs :
       n > seqID[c] + (IF c \in inUse THEN 1 ELSE 0) => runs[c][n] = 0
=============================================================================
