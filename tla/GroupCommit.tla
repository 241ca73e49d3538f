---------------------------- MODULE GroupCommit ----------------------------
(***************************************************************************)
(* The group commit of one journal shard (pkg/block/journal/shard.go,      *)
(* store.go groupCommit, segment.go sealSegment).                          *)
(*                                                                         *)
(* An element of Commits is one client operation: a buffered write         *)
(* (appendRecord, which may rotate the active segment) followed by a       *)
(* Commit.  Concurrent Commits coalesce: one leader fsyncs the active      *)
(* segment and satisfies every Commit that enqueued before it started.     *)
(* A step is what the code does between two acquisitions of a mutex or     *)
(* between a mutex and the disk.                                           *)
(***************************************************************************)
EXTENDS Integers, FiniteSets

CONSTANTS
    Commits,        \* the write-then-commit operations, one goroutine each
    SegmentRecords, \* records that fit in one segment (cfg.SegmentSize)
    FsyncFails,     \* may an fsync return an error?
    DropsOnError    \* does a failed fsync leave the pages clean and lost?

ASSUME GroupCommitConstants ==
    /\ SegmentRecords \in Nat \ {0}
    /\ FsyncFails \in BOOLEAN
    /\ DropsOnError \in BOOLEAN

VARIABLES
    active,    \* id of the shard's active segment
    tail,      \* records appended to the active segment
    bytes,     \* where the bytes of each write are: none, cached, durable, dropped
    wseg,      \* the segment each write went to
    pc,        \* program counter of each operation
    myGen,     \* the generation each Commit drew
    batchUpTo, \* the batch bound each leader took
    seg,       \* the segment each leader fsyncs
    covers,    \* the writes in the page cache when the leader's fsync began
    err,       \* the outcome of each leader's fsync
    reqSeq, doneSeq, syncing, errSeq,   \* the shard's group-commit state
    result,    \* what each operation returned: none, ok, error
    prior,     \* history: the writes completed when each Commit was called
    failed     \* history: the Commits some failed fsync was to satisfy

disk == <<active, tail, bytes, wseg>>
leader == <<batchUpTo, seg, covers, err>>
shard == <<reqSeq, doneSeq, syncing, errSeq>>
vars == <<disk, pc, myGen, leader, shard, result, prior, failed>>

Locations == {"write", "commit", "wait", "woken", "lead", "fsync", "sync",
              "publish", "done"}

TypeOK ==
    /\ active \in Nat
    /\ tail \in 0 .. SegmentRecords
    /\ bytes \in [Commits -> {"none", "cached", "durable", "dropped"}]
    /\ wseg \in [Commits -> Nat]
    /\ pc \in [Commits -> Locations]
    /\ myGen \in [Commits -> Nat]
    /\ batchUpTo \in [Commits -> Nat]
    /\ seg \in [Commits -> Nat]
    /\ covers \in [Commits -> SUBSET Commits]
    /\ err \in [Commits -> {"ok", "error"}]
    /\ reqSeq \in Nat /\ doneSeq \in Nat /\ errSeq \in Nat
    /\ syncing \in BOOLEAN
    /\ result \in [Commits -> {"none", "ok", "error"}]
    /\ prior \in [Commits -> SUBSET Commits]
    /\ failed \in SUBSET Commits

Init ==
    /\ active = 0
    /\ tail = 0
    /\ bytes = [c \in Commits |-> "none"]
    /\ wseg = [c \in Commits |-> 0]
    /\ pc = [c \in Commits |-> "write"]
    /\ myGen = [c \in Commits |-> 0]
    /\ batchUpTo = [c \in Commits |-> 0]
    /\ seg = [c \in Commits |-> 0]
    /\ covers = [c \in Commits |-> {}]
    /\ err = [c \in Commits |-> "ok"]
    /\ reqSeq = 0
    /\ doneSeq = 0
    /\ errSeq = 0
    /\ syncing = FALSE
    /\ result = [c \in Commits |-> "none"]
    /\ prior = [c \in Commits |-> {}]
    /\ failed = {}

-----------------------------------------------------------------------------
(* The disk *)

CachedIn(s) == {w \in Commits : bytes[w] = "cached" /\ wseg[w] = s}

\* fsync of a segment: on success every page it covered is on disk.
Synced(ws) == [w \in Commits |-> IF w \in ws THEN "durable" ELSE bytes[w]]

\* A failed fsync may have marked pages clean without writing them.
Dropped(ws) ==
    [w \in Commits |-> IF w \in ws /\ bytes[w] = "cached" THEN "dropped" ELSE bytes[w]]

FailedFsync(ws) ==
    /\ FsyncFails
    /\ \E lost \in SUBSET ws :
          /\ lost # {} => DropsOnError
          /\ bytes' = Dropped(lost)

-----------------------------------------------------------------------------
(* appendRecord: one write, under sh.mu *)

\* The record fits in the active segment.
AppendRecord(c) ==
    /\ pc[c] = "write"
    /\ tail < SegmentRecords
    /\ tail' = tail + 1
    /\ bytes' = [bytes EXCEPT ![c] = "cached"]
    /\ wseg' = [wseg EXCEPT ![c] = active]
    /\ pc' = [pc EXCEPT ![c] = "commit"]
    /\ UNCHANGED <<active, myGen, leader, shard, result, prior, failed>>

\* Mutant: the rotation does not fsync the segment it seals.
RotateWithoutFsync(c) ==
    /\ pc[c] = "write"
    /\ tail = SegmentRecords
    /\ active' = active + 1
    /\ tail' = 1
    /\ bytes' = [bytes EXCEPT ![c] = "cached"]
    /\ wseg' = [wseg EXCEPT ![c] = active + 1]
    /\ pc' = [pc EXCEPT ![c] = "commit"]
    /\ UNCHANGED <<myGen, leader, shard, result, prior, failed>>

\* The active segment is full: sealSegment fsyncs it, opens a fresh one, and the
\* record goes there.
RotateAndAppend(c) ==
    /\ pc[c] = "write"
    /\ tail = SegmentRecords
    /\ active' = active + 1
    /\ tail' = 1
    /\ bytes' = [Synced(CachedIn(active)) EXCEPT ![c] = "cached"]
    /\ wseg' = [wseg EXCEPT ![c] = active + 1]
    /\ pc' = [pc EXCEPT ![c] = "commit"]
    /\ UNCHANGED <<myGen, leader, shard, result, prior, failed>>

\* The seal's fsync fails: the write returns the error and appends nothing.
RotateFails(c) ==
    /\ pc[c] = "write"
    /\ tail = SegmentRecords
    /\ FailedFsync(CachedIn(active))
    /\ pc' = [pc EXCEPT ![c] = "done"]
    /\ result' = [result EXCEPT ![c] = "error"]
    /\ UNCHANGED <<active, tail, wseg, myGen, leader, shard, prior, failed>>

-----------------------------------------------------------------------------
(* groupCommit *)

\* Become the leader: every Commit enqueued so far rides this fsync.
TakeLead(c, upTo) ==
    /\ pc' = [pc EXCEPT ![c] = "lead"]
    /\ syncing' = TRUE
    /\ batchUpTo' = [batchUpTo EXCEPT ![c] = upTo]

\* Draw a generation and run the loop once: lead, or wait for the leader.  No
\* finished fsync can cover a generation drawn just now.
Enqueue(c) ==
    /\ pc[c] = "commit"
    /\ myGen' = [myGen EXCEPT ![c] = reqSeq]
    /\ reqSeq' = reqSeq + 1
    /\ prior' = [prior EXCEPT ![c] = {w \in Commits : bytes[w] # "none"}]
    /\ \/ ~syncing /\ TakeLead(c, reqSeq + 1)
       \/ /\ syncing
          /\ pc' = [pc EXCEPT ![c] = "wait"]
          /\ UNCHANGED <<syncing, batchUpTo>>
    /\ UNCHANGED <<disk, seg, covers, err, doneSeq, errSeq, result, failed>>

\* A woken waiter was covered by a finished fsync: it returns that outcome.
ReturnCovered(c) ==
    /\ pc[c] = "woken"
    /\ doneSeq > myGen[c]
    /\ pc' = [pc EXCEPT ![c] = "done"]
    /\ result' = [result EXCEPT ![c] = IF myGen[c] < errSeq THEN "error" ELSE "ok"]
    /\ UNCHANGED <<disk, myGen, leader, shard, prior, failed>>

\* A woken waiter was not covered: it leads the next batch or waits again.
Retry(c) ==
    /\ pc[c] = "woken"
    /\ doneSeq <= myGen[c]
    /\ \/ ~syncing /\ TakeLead(c, reqSeq)
       \/ /\ syncing
          /\ pc' = [pc EXCEPT ![c] = "wait"]
          /\ UNCHANGED <<syncing, batchUpTo>>
    /\ UNCHANGED <<disk, myGen, seg, covers, err, reqSeq, doneSeq, errSeq, result,
                   prior, failed>>

\* The leader reads the active segment under sh.mu.
ReadActive(c) ==
    /\ pc[c] = "lead"
    /\ seg' = [seg EXCEPT ![c] = active]
    /\ pc' = [pc EXCEPT ![c] = "fsync"]
    /\ UNCHANGED <<disk, myGen, batchUpTo, covers, err, shard, result, prior, failed>>

\* segSync begins, holding no lock: it covers the pages written by now.
FsyncBegins(c) ==
    /\ pc[c] = "fsync"
    /\ covers' = [covers EXCEPT ![c] = CachedIn(seg[c])]
    /\ pc' = [pc EXCEPT ![c] = "sync"]
    /\ UNCHANGED <<disk, myGen, batchUpTo, seg, err, shard, result, prior, failed>>

FsyncReturns(c) ==
    /\ pc[c] = "sync"
    /\ \/ /\ bytes' = Synced({w \in covers[c] : bytes[w] = "cached"})
          /\ err' = [err EXCEPT ![c] = "ok"]
       \/ /\ FailedFsync(CachedIn(seg[c]))
          /\ err' = [err EXCEPT ![c] = "error"]
    /\ pc' = [pc EXCEPT ![c] = "publish"]
    /\ UNCHANGED <<active, tail, wseg, myGen, batchUpTo, seg, covers, shard, result,
                   prior, failed>>

\* The Commits the batch bounded by upTo is to satisfy.
Batch(upTo) ==
    {w \in Commits : pc[w] \notin {"write", "commit"} /\ bytes[w] # "none"
                        /\ doneSeq <= myGen[w] /\ myGen[w] < upTo}

\* Mutant: a failed batch leaves errSeq alone, so only its leader reports the failure.
PublishForgetsError(c) ==
    /\ pc[c] = "publish"
    /\ failed' = IF err[c] = "error" THEN failed \cup Batch(batchUpTo[c]) ELSE failed
    /\ doneSeq' = batchUpTo[c]
    /\ syncing' = FALSE
    /\ pc' = [w \in Commits |->
                 IF w = c THEN "done" ELSE IF pc[w] = "wait" THEN "woken" ELSE pc[w]]
    /\ result' = [result EXCEPT ![c] = err[c]]
    /\ UNCHANGED <<disk, myGen, leader, reqSeq, errSeq, prior>>

\* Mutant: Signal in place of Broadcast.
PublishSignalsOne(c) ==
    /\ pc[c] = "publish"
    /\ errSeq' = IF err[c] = "error" THEN batchUpTo[c] ELSE errSeq
    /\ failed' = IF err[c] = "error" THEN failed \cup Batch(batchUpTo[c]) ELSE failed
    /\ doneSeq' = batchUpTo[c]
    /\ syncing' = FALSE
    /\ \E woken \in SUBSET {w \in Commits : pc[w] = "wait"} :
          /\ Cardinality(woken) <= 1
          /\ pc' = [w \in Commits |->
                       IF w = c THEN "done" ELSE IF w \in woken THEN "woken" ELSE pc[w]]
    /\ result' = [result EXCEPT ![c] = err[c]]
    /\ UNCHANGED <<disk, myGen, leader, reqSeq, prior>>

\* The leader publishes the outcome, wakes every waiter and returns its own.
Publish(c) ==
    /\ pc[c] = "publish"
    /\ errSeq' = IF err[c] = "error" THEN batchUpTo[c] ELSE errSeq
    /\ failed' = IF err[c] = "error" THEN failed \cup Batch(batchUpTo[c]) ELSE failed
    /\ doneSeq' = batchUpTo[c]
    /\ syncing' = FALSE
    /\ pc' = [w \in Commits |->
                 IF w = c THEN "done" ELSE IF pc[w] = "wait" THEN "woken" ELSE pc[w]]
    /\ result' = [result EXCEPT ![c] = err[c]]
    /\ UNCHANGED <<disk, myGen, leader, reqSeq, prior>>

-----------------------------------------------------------------------------
Write(c) == AppendRecord(c) \/ RotateAndAppend(c) \/ RotateFails(c)

Commit(c) ==
    \/ Enqueue(c) \/ ReturnCovered(c) \/ Retry(c)
    \/ ReadActive(c) \/ FsyncBegins(c) \/ FsyncReturns(c) \/ Publish(c)

Terminated == (\A c \in Commits : pc[c] = "done") /\ UNCHANGED vars

Next == (\E c \in Commits : Write(c) \/ Commit(c)) \/ Terminated

\* A goroutine in Commit keeps running: mutexes are released, fsync returns.
Fairness == \A c \in Commits : WF_vars(Commit(c))

Spec == Init /\ [][Next]_vars /\ Fairness

-----------------------------------------------------------------------------
(* Properties *)

\* A Commit that returns nil made durable every write to the shard that had
\* completed when it was called, also the ones a rotation moved to a sealed
\* segment and the ones another goroutine's fsync flushed (store.go:397-406).
CommitDurable ==
    \A c \in Commits :
        result[c] = "ok" => \A w \in prior[c] : bytes[w] = "durable"

\* A Commit in the batch of a failed fsync never returns nil, however many later
\* batches succeed before its goroutine wakes (shard.go:51-58: errSeq is sticky).
FailureIsSticky ==
    \A c \in failed : pc[c] = "done" => result[c] = "error"

\* Every Commit returns: no waiter misses the broadcast that covers it or hands it
\* the lead (store.go:411-428, 451).
EveryCommitReturns ==
    \A c \in Commits : (pc[c] = "wait" \/ pc[c] = "lead") ~> (pc[c] = "done")
=============================================================================
