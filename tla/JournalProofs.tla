--------------------------- MODULE JournalProofs ----------------------------
(***************************************************************************)
(* Proofs about the journal.                                               *)
(*                                                                         *)
(* GroupCommit, for any number of concurrent Commits: a COMMIT that        *)
(* returns is durable, and one whose batch failed never succeeds.          *)
(* IndexReplay, for any file size and any number of records: in whatever   *)
(* order recovery inserts the records, every byte of the rebuilt index     *)
(* belongs to the newest record that wrote it, the intervals are apart,    *)
(* and a byte is clean exactly while its record is synced and whole.       *)
(***************************************************************************)
EXTENDS GroupCommit, IndexReplay, WellFoundedInduction, TLAPS

\* Zenon proves the steps that name no other prover.
USE ZenonT(20)

-----------------------------------------------------------------------------
(* The group commit *)

Enqueued(c) == pc[c] \notin {"write", "commit"} /\ bytes[c] # "none"

Leading(c) == pc[c] \in {"lead", "fsync", "sync", "publish"}

\* How generations, batches and the one leader relate.
GenInv ==
    /\ errSeq <= doneSeq
    /\ doneSeq <= reqSeq
    /\ \A c \in Commits : pc[c] \notin {"write", "done"} => bytes[c] # "none"
    /\ \A c \in Commits : pc[c] = "write" => bytes[c] = "none"
    /\ \A c \in Commits : pc[c] # "done" => result[c] = "none"
    /\ \A c \in Commits : Enqueued(c) => myGen[c] < reqSeq
    /\ \A c \in Commits : pc[c] = "done" /\ bytes[c] # "none" => myGen[c] < doneSeq
    /\ \A c \in Commits : Leading(c) =>
          /\ syncing
          /\ batchUpTo[c] <= reqSeq
          /\ doneSeq <= myGen[c]
          /\ myGen[c] < batchUpTo[c]
    /\ \A c, d \in Commits : Leading(c) /\ Leading(d) => c = d

\* A Commit of a failed batch stays below errSeq, which never decreases.
StickyInv ==
    \A c \in failed : Enqueued(c) /\ myGen[c] < errSeq /\ (pc[c] = "done" => result[c] = "error")

Inv == TypeOK /\ GenInv /\ StickyInv

\* GroupCommit is well typed in every reachable state.
THEOREM TypeCorrect == Spec => []TypeOK
<1>1. Init => TypeOK
  <2> SUFFICES ASSUME Init PROVE TypeOK
    OBVIOUS
  <2> USE GroupCommitConstants DEF Init, Locations
  <2>1. tail \in 0 .. SegmentRecords
    BY SMTT(20)
  <2>2. QED
    BY <2>1 DEF TypeOK
<1>2. TypeOK /\ [Next]_vars => TypeOK'
  <2> SUFFICES ASSUME TypeOK, [Next]_vars PROVE TypeOK'
    OBVIOUS
  <2> USE GroupCommitConstants DEF TypeOK, Locations
  <2>1. ASSUME NEW c \in Commits, AppendRecord(c) PROVE TypeOK'
    BY <2>1, SMTT(20) DEF AppendRecord, leader, shard
  <2>2. ASSUME NEW c \in Commits, RotateAndAppend(c) PROVE TypeOK'
    BY <2>2, SMTT(20) DEF RotateAndAppend, Synced, leader, shard
  <2>3. ASSUME NEW c \in Commits, RotateFails(c) PROVE TypeOK'
    BY <2>3 DEF RotateFails, FailedFsync, Dropped, leader, shard
  <2>4. ASSUME NEW c \in Commits, Enqueue(c) PROVE TypeOK'
    <3>1. syncing' \in BOOLEAN
      BY <2>4 DEF Enqueue, TakeLead
    <3>2. QED
      BY <2>4, <3>1, SMTT(20) DEF Enqueue, TakeLead, disk
  <2>5. ASSUME NEW c \in Commits, ReturnCovered(c) PROVE TypeOK'
    BY <2>5 DEF ReturnCovered, disk, leader, shard
  <2>6. ASSUME NEW c \in Commits, Retry(c) PROVE TypeOK'
    <3>1. syncing' \in BOOLEAN
      BY <2>6 DEF Retry, TakeLead
    <3>2. QED
      BY <2>6, <3>1, SMTT(20) DEF Retry, TakeLead, disk
  <2>7. ASSUME NEW c \in Commits, ReadActive(c) PROVE TypeOK'
    BY <2>7 DEF ReadActive, disk, shard
  <2>8. ASSUME NEW c \in Commits, FsyncBegins(c) PROVE TypeOK'
    BY <2>8 DEF FsyncBegins, CachedIn, disk, shard
  <2>9. ASSUME NEW c \in Commits, FsyncReturns(c) PROVE TypeOK'
    BY <2>9, SMTT(20) DEF FsyncReturns, FailedFsync, Synced, Dropped, shard
  <2>10. ASSUME NEW c \in Commits, Publish(c) PROVE TypeOK'
    BY <2>10 DEF Publish, Batch, disk, leader
  <2>11. CASE UNCHANGED vars
    BY <2>11 DEF vars, disk, leader, shard
  <2>12. QED
    BY <2>1, <2>2, <2>3, <2>4, <2>5, <2>6, <2>7, <2>8, <2>9, <2>10, <2>11
    DEF Next, Write, Commit, Terminated
<1>3. QED
  BY <1>1, <1>2, PTL DEF Spec

-----------------------------------------------------------------------------
\* Generations, batches and leadership stay consistent, and no Commit of a failed
\* batch escapes its failure: the inductive step behind both theorems below.
LEMMA InvStep == Inv /\ TypeOK' /\ [Next]_vars => (GenInv /\ StickyInv)'
<1> SUFFICES ASSUME Inv, TypeOK', [Next]_vars PROVE (GenInv /\ StickyInv)'
  OBVIOUS
<1> USE DEF Inv, TypeOK, GenInv, StickyInv, Enqueued, Leading
<1>1. ASSUME NEW c \in Commits, AppendRecord(c) PROVE (GenInv /\ StickyInv)'
  BY <1>1, SMTT(20) DEF AppendRecord, leader, shard
<1>2. ASSUME NEW c \in Commits, RotateAndAppend(c) PROVE (GenInv /\ StickyInv)'
  BY <1>2, SMTT(20) DEF RotateAndAppend, Synced, CachedIn, leader, shard
<1>3. ASSUME NEW c \in Commits, RotateFails(c) PROVE (GenInv /\ StickyInv)'
  BY <1>3, SMTT(20) DEF RotateFails, FailedFsync, Dropped, CachedIn, leader, shard
<1>4. ASSUME NEW c \in Commits, Enqueue(c) PROVE (GenInv /\ StickyInv)'
  BY <1>4, SMTT(20) DEF Enqueue, TakeLead, disk
<1>5. ASSUME NEW c \in Commits, ReturnCovered(c) PROVE (GenInv /\ StickyInv)'
  BY <1>5, SMTT(20) DEF ReturnCovered, disk, leader, shard
<1>6. ASSUME NEW c \in Commits, Retry(c) PROVE (GenInv /\ StickyInv)'
  BY <1>6, SMTT(20) DEF Retry, TakeLead, disk
<1>7. ASSUME NEW c \in Commits, ReadActive(c) PROVE (GenInv /\ StickyInv)'
  BY <1>7, SMTT(20) DEF ReadActive, disk, shard
<1>8. ASSUME NEW c \in Commits, FsyncBegins(c) PROVE (GenInv /\ StickyInv)'
  BY <1>8, SMTT(20) DEF FsyncBegins, disk, shard
<1>9. ASSUME NEW c \in Commits, FsyncReturns(c) PROVE (GenInv /\ StickyInv)'
  BY <1>9, SMTT(20) DEF FsyncReturns, FailedFsync, Synced, Dropped, CachedIn, shard
<1>10. ASSUME NEW c \in Commits, Publish(c) PROVE (GenInv /\ StickyInv)'
  BY <1>10, SMTT(20) DEF Publish, Batch, disk, leader
<1>11. CASE UNCHANGED vars
  BY <1>11 DEF vars, disk, leader, shard
<1>12. QED
  BY <1>1, <1>2, <1>3, <1>4, <1>5, <1>6, <1>7, <1>8, <1>9, <1>10, <1>11
  DEF Next, Write, Commit, Terminated

\* Inv is an invariant.
THEOREM Invariant == Spec => []Inv
<1>1. Init => GenInv /\ StickyInv
  BY SMTT(20) DEF Init, GenInv, StickyInv, Enqueued, Leading
<1>2. QED
  BY <1>1, TypeCorrect, InvStep, PTL DEF Spec, Inv

\* A Commit that a failed fsync was to satisfy never returns nil, whatever batches
\* complete before it wakes and however the kernel treats the failed pages.
THEOREM StickyFailure == Spec => []FailureIsSticky
<1>1. Inv => FailureIsSticky
  BY DEF Inv, StickyInv, FailureIsSticky
<1>2. QED
  BY <1>1, Invariant, PTL

-----------------------------------------------------------------------------
(* Durability, when a failed fsync leaves its pages dirty *)

Safe(w) == bytes[w] = "durable"

\* What the leader's progress guarantees for the writes its batch covers.
Progress(l, w) ==
    /\ pc[l] = "fsync" => Safe(w) \/ wseg[w] = seg[l]
    /\ pc[l] = "sync" => Safe(w) \/ w \in covers[l]
    /\ pc[l] = "publish" /\ err[l] = "ok" => Safe(w)

DurInv ==
    /\ \A w \in Commits : bytes[w] # "dropped"
    /\ \A w \in Commits : bytes[w] = "cached" => wseg[w] = active
    /\ \A c \in Commits : \A w \in prior[c] : bytes[w] # "none"
    /\ \A l, c \in Commits :
          Leading(l) /\ Enqueued(c) /\ myGen[c] < batchUpTo[l] =>
             \A w \in prior[c] : Progress(l, w)
    /\ \A c \in Commits :
          Enqueued(c) /\ errSeq <= myGen[c] /\ myGen[c] < doneSeq =>
             \A w \in prior[c] : Safe(w)
    /\ CommitDurable

\* A step keeps DurInv: rotation and fsync only move cached pages to the disk.
LEMMA DurStep ==
    ASSUME ~DropsOnError, Inv, Inv', DurInv, [Next]_vars
    PROVE  DurInv'
<1> USE DEF Inv, TypeOK, GenInv, DurInv, CommitDurable, Progress, Safe, Enqueued, Leading
<1>1. ASSUME NEW c \in Commits, AppendRecord(c) PROVE DurInv'
  BY <1>1, SMTT(20) DEF AppendRecord, leader, shard
<1>2. ASSUME NEW c \in Commits, RotateAndAppend(c) PROVE DurInv'
  BY <1>2, SMTT(20) DEF RotateAndAppend, Synced, CachedIn, leader, shard
<1>3. ASSUME NEW c \in Commits, RotateFails(c) PROVE DurInv'
  BY <1>3, SMTT(20) DEF RotateFails, FailedFsync, Dropped, CachedIn, leader, shard
<1>4. ASSUME NEW c \in Commits, Enqueue(c) PROVE DurInv'
  BY <1>4, SMTT(20) DEF Enqueue, TakeLead, disk
<1>5. ASSUME NEW c \in Commits, ReturnCovered(c) PROVE DurInv'
  BY <1>5, SMTT(20) DEF ReturnCovered, disk, leader, shard
<1>6. ASSUME NEW c \in Commits, Retry(c) PROVE DurInv'
  BY <1>6, SMTT(20) DEF Retry, TakeLead, disk
<1>7. ASSUME NEW c \in Commits, ReadActive(c) PROVE DurInv'
  BY <1>7, SMTT(20) DEF ReadActive, disk, shard
<1>8. ASSUME NEW c \in Commits, FsyncBegins(c) PROVE DurInv'
  BY <1>8, SMTT(20) DEF FsyncBegins, CachedIn, disk, shard
<1>9. ASSUME NEW c \in Commits, FsyncReturns(c) PROVE DurInv'
  BY <1>9, SMTT(20) DEF FsyncReturns, FailedFsync, Synced, Dropped, CachedIn, shard
<1>10. ASSUME NEW c \in Commits, Publish(c) PROVE DurInv'
  BY <1>10, SMTT(20) DEF Publish, Batch, disk, leader
<1>11. CASE UNCHANGED vars
  BY <1>11, SMTT(20) DEF vars, disk, leader, shard
<1>12. QED
  BY <1>1, <1>2, <1>3, <1>4, <1>5, <1>6, <1>7, <1>8, <1>9, <1>10, <1>11
  DEF Next, Write, Commit, Terminated

\* When a failed fsync keeps its pages dirty, a nil Commit means that every write
\* completed before the call is on disk, for any number of concurrent Commits.
THEOREM DurableCommit == ASSUME ~DropsOnError PROVE Spec => []CommitDurable
<1>1. Init => DurInv
  BY DEF Init, DurInv, CommitDurable, Leading, Enqueued
<1>2. Inv /\ Inv' /\ DurInv /\ [Next]_vars => DurInv'
  BY DurStep
<1>3. DurInv => CommitDurable
  BY DEF DurInv
<1>4. QED
  BY <1>1, <1>2, <1>3, Invariant, PTL DEF Spec

-----------------------------------------------------------------------------
(* Intervals *)

\* A set of positions has a first one.
LEMMA Least ==
  ASSUME NEW S \in SUBSET Nat, S # {}
  PROVE  \E i \in S : \A j \in S : i <= j
<1> DEFINE R == {ss \in Nat \X Nat : ss[1] < ss[2]}
<1>1. IsWellFoundedOn(R, Nat)
  BY NatLessThanWellFounded DEF OpToRel
<1>2. PICK x \in S : \A y \in S : ~ (<<y, x>> \in R)
  <2> HIDE DEF R
  <2> QED
    BY <1>1, WFMin
<1>3. ASSUME NEW y \in S, y < x
      PROVE  FALSE
  <2>1. <<y, x>> \in Nat \X Nat /\ <<y, x>>[1] = y /\ <<y, x>>[2] = x
    BY SMTT(20)
  <2>2. <<y, x>> \in R
    BY <2>1, <1>3
  <2> QED
    BY <2>2, <1>2
<1>4. QED
  BY <1>3, SMTT(20)

Interval ==
  [fileOff : Nat, end : Nat, version : Nat, seg : Nat, rec : Nat, off : Nat,
   synced : BOOLEAN, cold : BOOLEAN]

\* An interval of a rebuilt index is within the file, and local.
Sound(iv) == /\ iv \in Interval /\ iv.fileOff < iv.end /\ iv.end <= ReplaySize
             /\ iv.cold = FALSE

\* f is a part of e, over [lo, hi).
Part(f, e, lo, hi) ==
  /\ Sound(f) /\ f.fileOff = lo /\ f.end = hi /\ f.version = e.version
  /\ f.off = e.off + (lo - e.fileOff) /\ f.seg = e.seg /\ f.rec = e.rec

\* A part of an interval is determined by its range and its synced bit.
LEMMA SamePart ==
  ASSUME NEW e, NEW f, NEW g, NEW lo, NEW hi, Part(f, e, lo, hi), Part(g, e, lo, hi),
         f.synced = g.synced
  PROVE  f = g
<1>1. f \in Interval /\ g \in Interval /\ f.cold = FALSE /\ g.cold = FALSE
  BY DEF Part, Sound
<1>2. /\ f = [fileOff |-> f.fileOff, end |-> f.end, version |-> f.version, seg |-> f.seg,
              rec |-> f.rec, off |-> f.off, synced |-> f.synced, cold |-> f.cold]
      /\ g = [fileOff |-> g.fileOff, end |-> g.end, version |-> g.version, seg |-> g.seg,
              rec |-> g.rec, off |-> g.off, synced |-> g.synced, cold |-> g.cold]
  BY <1>1, SMTT(20) DEF Interval
<1>3. QED
  BY <1>1, <1>2 DEF Part

\* Clamp moves the payload offset along with the start.
LEMMA ClampPart ==
  ASSUME NEW e, Sound(e), NEW lo \in Nat, NEW hi \in Nat, e.fileOff <= lo, lo < hi, hi <= e.end
  PROVE  Part(Clamp(e, lo, hi), e, lo, hi) /\ Clamp(e, lo, hi).synced = e.synced
<1>1. e \in Interval /\ e.fileOff \in Nat /\ e.off \in Nat /\ e.end \in Nat /\ ReplaySize \in Nat
      /\ e.end <= ReplaySize /\ e.cold = FALSE
  BY ReplayConstants DEF Sound, Interval
<1>2. e.off + (lo - e.fileOff) \in Nat /\ hi <= ReplaySize
  BY <1>1, SMTT(20)
<1>3. PICK f : f = Clamp(e, lo, hi)
  OBVIOUS
<1>4. /\ f \in Interval /\ f.fileOff = lo /\ f.end = hi /\ f.version = e.version
      /\ f.off = e.off + (lo - e.fileOff) /\ f.synced = e.synced /\ f.cold = e.cold
      /\ f.seg = e.seg /\ f.rec = e.rec
  BY <1>1, <1>2, <1>3 DEF Interval, Clamp
<1>5. Sound(f)
  BY <1>1, <1>2, <1>4 DEF Sound
<1>6. QED
  BY <1>3, <1>4, <1>5 DEF Part

\* Re-marking clears the synced bit and nothing else.
LEMMA RemarkPart ==
  ASSUME NEW e, NEW f, NEW lo, NEW hi, Part(f, e, lo, hi)
  PROVE  LET g == IF Warm(f) THEN [f EXCEPT !.synced = FALSE] ELSE f
         IN  Part(g, e, lo, hi) /\ g.synced = FALSE
<1>1. Sound(f) /\ f \in Interval /\ f.synced \in BOOLEAN /\ f.cold = FALSE
  BY DEF Part, Sound, Interval
<1>2. CASE f.synced
  <2>1. Warm(f)
    BY <1>1, <1>2 DEF Warm
  <2>2. PICK g : g = [f EXCEPT !.synced = FALSE]
    OBVIOUS
  <2>3. /\ g \in Interval /\ g.fileOff = f.fileOff /\ g.end = f.end /\ g.version = f.version
        /\ g.off = f.off /\ g.synced = FALSE /\ g.cold = f.cold /\ g.seg = f.seg /\ g.rec = f.rec
    BY <1>1, <2>2 DEF Interval
  <2> QED
    BY <1>1, <2>1, <2>2, <2>3 DEF Part, Sound
<1>3. CASE ~f.synced
  <2>1. ~Warm(f) /\ f.synced = FALSE
    BY <1>1, <1>3 DEF Warm
  <2> QED
    BY <2>1
<1>4. QED
  BY <1>2, <1>3

\* What cutting n out of an interval that it overlaps leaves.
LEMMA WithoutParts ==
  ASSUME NEW e, Sound(e), NEW n, Sound(n), Overlaps(e, n.fileOff, n.end)
  PROVE  /\ \A f \in Without(e, n.fileOff, n.end) :
              \/ e.fileOff < n.fileOff /\ Part(f, e, e.fileOff, n.fileOff)
              \/ n.end < e.end /\ Part(f, e, n.end, e.end)
         /\ e.fileOff < n.fileOff =>
              \E f \in Without(e, n.fileOff, n.end) : Part(f, e, e.fileOff, n.fileOff)
         /\ n.end < e.end =>
              \E f \in Without(e, n.fileOff, n.end) : Part(f, e, n.end, e.end)
<1>1. /\ e.fileOff \in Nat /\ e.end \in Nat /\ n.fileOff \in Nat /\ n.end \in Nat
      /\ e.fileOff < e.end /\ n.fileOff < n.end
      /\ e.fileOff < n.end /\ n.fileOff < e.end
  BY DEF Sound, Interval, Overlaps
<1>2. /\ e.fileOff < n.fileOff => Smaller(e.end, n.fileOff) = n.fileOff
      /\ n.end < e.end => Larger(e.fileOff, n.end) = n.end
  BY <1>1, SMTT(20) DEF Smaller, Larger
<1>3. Without(e, n.fileOff, n.end) =
        (IF e.fileOff < n.fileOff THEN {Clamp(e, e.fileOff, n.fileOff)} ELSE {})
          \cup (IF n.end < e.end THEN {Clamp(e, n.end, e.end)} ELSE {})
  <2>1. e.end > n.end <=> n.end < e.end
    BY <1>1, SMTT(20)
  <2> QED
    BY <1>2, <2>1 DEF Without
<1>4. e.fileOff < n.fileOff => Part(Clamp(e, e.fileOff, n.fileOff), e, e.fileOff, n.fileOff)
  <2>1. e.fileOff <= e.fileOff /\ n.fileOff <= e.end
    BY <1>1, SMTT(20)
  <2> QED
    BY <1>1, <2>1, ClampPart
<1>5. n.end < e.end => Part(Clamp(e, n.end, e.end), e, n.end, e.end)
  <2>1. e.fileOff <= n.end /\ e.end <= e.end
    BY <1>1, SMTT(20)
  <2> QED
    BY <1>1, <2>1, ClampPart
<1>6. QED
  BY <1>3, <1>4, <1>5

\* What several intervals leave of n: parts of n, each a run of free bytes, one around
\* every free byte.
LEMMA SubtractParts ==
  ASSUME NEW n, Sound(n), NEW es, \A e \in es : e.fileOff \in Nat /\ e.end \in Nat
  PROVE  /\ \A f \in SubtractAll(n, es) :
              /\ Part(f, n, f.fileOff, f.end) /\ f.synced = n.synced
              /\ n.fileOff <= f.fileOff /\ f.fileOff < f.end /\ f.end <= n.end
              /\ Run(FreeBytes(n, es), f.fileOff, f.end)
         /\ \A o \in FreeBytes(n, es) : \E f \in SubtractAll(n, es) : Covers(f, o)
<1>1. n.fileOff \in Nat /\ n.end \in Nat /\ n.fileOff < n.end
  BY DEF Sound, Interval
<1>2. PICK free : free = FreeBytes(n, es)
  OBVIOUS
<1>3. free \subseteq n.fileOff .. n.end - 1
  BY <1>2 DEF FreeBytes
<1>4. ASSUME NEW lo \in n.fileOff .. n.end, NEW hi \in n.fileOff .. n.end, lo < hi
      PROVE  Part(Clamp(n, lo, hi), n, lo, hi) /\ Clamp(n, lo, hi).synced = n.synced
  <2>1. lo \in Nat /\ hi \in Nat /\ n.fileOff <= lo /\ hi <= n.end
    BY <1>1, SMTT(20)
  <2> QED
    BY <1>4, <2>1, ClampPart
<1>5. ASSUME NEW f \in SubtractAll(n, es)
      PROVE  /\ Part(f, n, f.fileOff, f.end) /\ f.synced = n.synced
             /\ n.fileOff <= f.fileOff /\ f.fileOff < f.end /\ f.end <= n.end
             /\ Run(free, f.fileOff, f.end)
  <2>1. PICK lo \in n.fileOff .. n.end, hi \in n.fileOff .. n.end : f = Clamp(n, lo, hi)
    BY SMTT(20) DEF SubtractAll
  <2>2. Run(free, f.fileOff, f.end)
    BY <1>2, SMTT(20) DEF SubtractAll
  <2>3. f.fileOff = lo /\ f.end = hi
    <3>1. n \in Interval
      BY DEF Sound
    <3> QED
      BY <2>1, <3>1 DEF Clamp, Interval
  <2>4. lo < hi
    BY <2>2, <2>3 DEF Run
  <2>5. Part(f, n, lo, hi) /\ f.synced = n.synced
    BY <1>4, <2>1, <2>4
  <2>6. n.fileOff <= lo /\ hi <= n.end
    BY <1>1, SMTT(20)
  <2> QED
    BY <2>2, <2>3, <2>4, <2>5, <2>6
<1>6. ASSUME NEW o \in free
      PROVE  \E f \in SubtractAll(n, es) : Covers(f, o)
  <2>1. o \in Nat /\ n.fileOff <= o /\ o < n.end
    BY <1>1, <1>3, SMTT(20)
  <2>2. PICK lo \in {p \in Nat : p <= o /\ p .. o \subseteq free} :
               \A p \in {p \in Nat : p <= o /\ p .. o \subseteq free} : lo <= p
    <3>1. o \in {p \in Nat : p <= o /\ p .. o \subseteq free}
      BY <2>1, <1>6, SMTT(20)
    <3> QED
      BY <3>1, Least
  <2>3. PICK hi \in {q \in Nat : o < q /\ q \notin free} :
               \A q \in {q \in Nat : o < q /\ q \notin free} : hi <= q
    <3>1. n.end \notin free
      BY <1>1, <1>3, SMTT(20)
    <3>2. n.end \in {q \in Nat : o < q /\ q \notin free}
      BY <2>1, <1>1, <3>1, SMTT(20)
    <3> QED
      BY <3>2, Least
  <2>4. lo \in Nat /\ lo <= o /\ lo .. o \subseteq free /\ hi \in Nat /\ o < hi /\ hi \notin free
    BY SMTT(20)
  <2>5. \A q \in Nat : o < q /\ q < hi => q \in free
    BY <2>3, <2>4, SMTT(20)
  <2>6. lo .. hi - 1 \subseteq free
    BY <2>1, <2>4, <2>5, SMTT(20)
  <2>7. lo - 1 \notin free
    <3> SUFFICES ASSUME lo - 1 \in free
                 PROVE  FALSE
      OBVIOUS
    <3>1. lo - 1 \in Nat
      BY <1>1, <1>3, <2>4, SMTT(20)
    <3>2. (lo - 1) .. o \subseteq free
      BY <2>4, <3>1, SMTT(20)
    <3>3. lo - 1 <= o
      BY <2>1, <2>4, SMTT(20)
    <3>4. lo <= lo - 1
      BY <2>2, <3>1, <3>2, <3>3, SMTT(20)
    <3> QED
      BY <2>4, <3>4, SMTT(20)
  <2>8. lo \in n.fileOff .. n.end /\ hi \in n.fileOff .. n.end
    <3>1. lo \in free
      BY <2>1, <2>4, SMTT(20)
    <3>2. hi - 1 \in free
      BY <2>1, <2>4, <2>6, SMTT(20)
    <3> QED
      BY <1>1, <1>3, <2>4, <3>1, <3>2, SMTT(20)
  <2>9. lo < hi
    BY <2>1, <2>4, SMTT(20)
  <2>10. PICK f : f = Clamp(n, lo, hi)
    OBVIOUS
  <2>11. f.fileOff = lo /\ f.end = hi
    BY <1>4, <2>8, <2>9, <2>10 DEF Part
  <2>12. Run(FreeBytes(n, es), f.fileOff, f.end)
    BY <1>2, <2>4, <2>6, <2>7, <2>9, <2>11 DEF Run
  <2>13. f \in SubtractAll(n, es)
    BY <2>8, <2>10, <2>12, SMTT(20) DEF SubtractAll
  <2> QED
    BY <2>4, <2>11, <2>13 DEF Covers
<1>7. QED
  BY <1>2, <1>5, <1>6

-----------------------------------------------------------------------------
(* insert *)

\* f is what n leaves of the older interval e, on the left or on the right.
Cut(f, e, n) ==
  \/ e.fileOff < n.fileOff /\ Part(f, e, e.fileOff, n.fileOff)
  \/ n.end < e.end /\ Part(f, e, n.end, e.end)

\* f is what the newer intervals of S leave of n.
Rest(f, S, n) ==
  /\ Part(f, n, f.fileOff, f.end)
  /\ n.fileOff <= f.fileOff /\ f.fileOff < f.end /\ f.end <= n.end
  /\ Run(FreeBytes(n, Shadowing(S, n)), f.fileOff, f.end)
  /\ f.synced <=> n.synced /\ Shadowing(S, n) = {}

Stays(e, n) == ~Overlaps(e, n.fileOff, n.end) \/ n.version < e.version

\* An index that insert may be given, and a record that it does not hold yet.
Index(S) == \A e \in S : Sound(e)
Fresh(S, n) == Sound(n) /\ \A e \in S : e.version # n.version

\* Where an interval of the new index comes from.
LEMMA InsertMembers ==
  ASSUME NEW S, Index(S), NEW n, Fresh(S, n), ~Shadowed(S, n), NEW f \in Insert(S, n)
  PROVE  \/ f \in S /\ Stays(f, n)
         \/ \E e \in S : ~Stays(e, n) /\ Cut(f, e, n) /\ f.synced = FALSE
         \/ Rest(f, S, n)
<1>1. Sound(n) /\ n.version \in Nat /\ n.fileOff \in Nat /\ n.end \in Nat /\ n.synced \in BOOLEAN
      /\ n.cold = FALSE
  BY DEF Fresh, Sound, Interval
<1>2. \A e \in S : Sound(e) /\ e.version \in Nat /\ e.version # n.version
                   /\ e.fileOff \in Nat /\ e.end \in Nat
  BY DEF Index, Fresh, Sound, Interval
<1>3. \A e \in S : e \in Superseded(S, n) <=> ~Stays(e, n)
  BY <1>1, <1>2, SMTT(20) DEF Superseded, Stays
<1>4. f \in S \ Superseded(S, n) \/ f \in Survivors(S, n) \/ f \in NewFragments(S, n)
  BY DEF Insert
<1>5. CASE f \in S \ Superseded(S, n)
  BY <1>3, <1>5
<1>6. CASE f \in Survivors(S, n)
  <2>1. PICK e \in Superseded(S, n) : \E g \in Without(e, n.fileOff, n.end) :
          f = IF Warm(g) THEN [g EXCEPT !.synced = FALSE] ELSE g
    BY <1>6 DEF Survivors, RemarkDirty
  <2>5. PICK g \in Without(e, n.fileOff, n.end) :
          f = IF Warm(g) THEN [g EXCEPT !.synced = FALSE] ELSE g
    BY <2>1
  <2>2. e \in S /\ Overlaps(e, n.fileOff, n.end)
    BY DEF Superseded
  <2>3. \/ e.fileOff < n.fileOff /\ Part(g, e, e.fileOff, n.fileOff)
        \/ n.end < e.end /\ Part(g, e, n.end, e.end)
    BY <1>1, <1>2, <2>2, WithoutParts
  <2>4. Cut(f, e, n) /\ f.synced = FALSE
    BY <2>5, <2>3, RemarkPart DEF Cut
  <2> QED
    BY <1>3, <2>2, <2>4
<1>7. CASE f \in NewFragments(S, n)
  <2>1. PICK es : es = Shadowing(S, n)
    OBVIOUS
  <2>2. \A e \in es : e.fileOff \in Nat /\ e.end \in Nat
    BY <1>2, <2>1 DEF Shadowing
  <2>3. \A g \in SubtractAll(n, es) :
              /\ Part(g, n, g.fileOff, g.end) /\ g.synced = n.synced
              /\ n.fileOff <= g.fileOff /\ g.fileOff < g.end /\ g.end <= n.end
              /\ Run(FreeBytes(n, es), g.fileOff, g.end)
    BY <1>1, <2>2, SubtractParts
  <2>4. CASE Warm(n) /\ es # {}
    <3>1. f \in RemarkDirty(SubtractAll(n, es))
      BY <1>7, <2>1, <2>4 DEF NewFragments
    <3>2. PICK g \in SubtractAll(n, es) : f = IF Warm(g) THEN [g EXCEPT !.synced = FALSE] ELSE g
      BY <3>1 DEF RemarkDirty
    <3>3. Part(f, n, g.fileOff, g.end) /\ f.synced = FALSE
      BY <2>3, <3>2, RemarkPart
    <3>4. f.fileOff = g.fileOff /\ f.end = g.end
      BY <3>3 DEF Part
    <3> QED
      BY <2>1, <2>3, <2>4, <3>3, <3>4 DEF Rest
  <2>5. CASE ~(Warm(n) /\ es # {})
    <3>1. f \in SubtractAll(n, es)
      BY <1>7, <2>1, <2>5 DEF NewFragments
    <3>2. n.synced => es = {}
      BY <1>1, <2>5 DEF Warm
    <3> QED
      BY <2>1, <2>3, <3>1, <3>2 DEF Rest
  <2> QED
    BY <2>4, <2>5
<1>8. QED
  BY <1>4, <1>5, <1>6, <1>7

\* What the new index covers.
LEMMA InsertContains ==
  ASSUME NEW S, Index(S), NEW n, Fresh(S, n), ~Shadowed(S, n)
  PROVE  /\ \A e \in S : Stays(e, n) => e \in Insert(S, n)
         /\ \A e \in S : ~Stays(e, n) /\ e.fileOff < n.fileOff =>
              \E f \in Insert(S, n) : Part(f, e, e.fileOff, n.fileOff)
         /\ \A e \in S : ~Stays(e, n) /\ n.end < e.end =>
              \E f \in Insert(S, n) : Part(f, e, n.end, e.end)
         /\ \A o \in FreeBytes(n, Shadowing(S, n)) :
              \E f \in Insert(S, n) : Covers(f, o) /\ f.version = n.version
<1>1. Sound(n) /\ n.version \in Nat /\ n.fileOff \in Nat /\ n.end \in Nat
  BY DEF Fresh, Sound, Interval
<1>2. \A e \in S : Sound(e) /\ e.version \in Nat /\ e.version # n.version
                   /\ e.fileOff \in Nat /\ e.end \in Nat
  BY DEF Index, Fresh, Sound, Interval
<1>3. \A e \in S : e \in Superseded(S, n) <=> ~Stays(e, n)
  BY <1>1, <1>2, SMTT(20) DEF Superseded, Stays
<1>4. Insert(S, n) = (S \ Superseded(S, n)) \cup Survivors(S, n) \cup NewFragments(S, n)
  BY DEF Insert
<1>5. ASSUME NEW e \in S, ~Stays(e, n), NEW g \in Without(e, n.fileOff, n.end),
             NEW lo, NEW hi, Part(g, e, lo, hi)
      PROVE  \E f \in Insert(S, n) : Part(f, e, lo, hi)
  <2>1. PICK f : f = IF Warm(g) THEN [g EXCEPT !.synced = FALSE] ELSE g
    OBVIOUS
  <2>2. e \in Superseded(S, n)
    BY <1>3, <1>5
  <2>3. f \in Survivors(S, n)
    BY <2>1, <2>2 DEF Survivors, RemarkDirty
  <2>4. Part(f, e, lo, hi)
    BY <1>5, <2>1, RemarkPart
  <2> QED
    BY <1>4, <2>3, <2>4
<1>6. ASSUME NEW e \in S, ~Stays(e, n)
      PROVE  /\ e.fileOff < n.fileOff => \E f \in Insert(S, n) : Part(f, e, e.fileOff, n.fileOff)
             /\ n.end < e.end => \E f \in Insert(S, n) : Part(f, e, n.end, e.end)
  <2>1. Overlaps(e, n.fileOff, n.end)
    BY <1>6 DEF Stays
  <2>2. /\ e.fileOff < n.fileOff =>
              \E f \in Without(e, n.fileOff, n.end) : Part(f, e, e.fileOff, n.fileOff)
        /\ n.end < e.end =>
              \E f \in Without(e, n.fileOff, n.end) : Part(f, e, n.end, e.end)
    BY <1>1, <1>2, <2>1, WithoutParts
  <2> QED
    BY <1>5, <1>6, <2>2
<1>7. ASSUME NEW o \in FreeBytes(n, Shadowing(S, n))
      PROVE  \E f \in Insert(S, n) : Covers(f, o) /\ f.version = n.version
  <2>1. PICK es : es = Shadowing(S, n)
    OBVIOUS
  <2>2. \A e \in es : e.fileOff \in Nat /\ e.end \in Nat
    BY <1>2, <2>1 DEF Shadowing
  <2>3. PICK g \in SubtractAll(n, es) : Covers(g, o)
    BY <1>1, <2>1, <2>2, SubtractParts
  <2>4. Part(g, n, g.fileOff, g.end)
    BY <1>1, <2>2, SubtractParts
  <2>5. CASE Warm(n) /\ es # {}
    <3>1. PICK f : f = IF Warm(g) THEN [g EXCEPT !.synced = FALSE] ELSE g
      OBVIOUS
    <3>2. f \in NewFragments(S, n)
      BY <2>1, <2>5, <3>1 DEF NewFragments, RemarkDirty
    <3>3. Part(f, n, g.fileOff, g.end)
      BY <2>4, <3>1, RemarkPart
    <3> QED
      BY <1>4, <2>3, <3>2, <3>3 DEF Part, Covers
  <2>6. CASE ~(Warm(n) /\ es # {})
    <3>1. g \in NewFragments(S, n)
      BY <2>1, <2>6 DEF NewFragments
    <3> QED
      BY <1>4, <2>3, <2>4, <3>1 DEF Part
  <2> QED
    BY <2>5, <2>6
<1>8. QED
  BY <1>3, <1>4, <1>6, <1>7

\* Bytes never go back to an older version, and every byte of n is n's or newer.
LEMMA InsertRaises ==
  ASSUME NEW S, Index(S), NEW n, Fresh(S, n)
  PROVE  /\ \A e \in S, o \in Nat : Covers(e, o) =>
              \E f \in Insert(S, n) : Covers(f, o) /\ e.version <= f.version
         /\ \A o \in Nat : Covers(n, o) =>
              \E f \in Insert(S, n) : Covers(f, o) /\ n.version <= f.version
<1>1. /\ n.version \in Nat /\ n.fileOff \in Nat /\ n.end \in Nat
      /\ \A e \in S : e.version \in Nat /\ e.fileOff \in Nat /\ e.end \in Nat
  BY DEF Index, Fresh, Sound, Interval
<1>2. CASE Shadowed(S, n)
  <2>1. Insert(S, n) = S
    BY <1>2 DEF Insert
  <2>2. PICK e \in S : e.fileOff = n.fileOff /\ e.end = n.end /\ n.version <= e.version
    BY <1>2 DEF Shadowed
  <2>3. \A o \in Nat : Covers(n, o) => Covers(e, o)
    BY <2>2 DEF Covers
  <2>4. \A x \in S : x.version <= x.version
    BY <1>1, SMTT(20)
  <2> QED
    BY <2>1, <2>2, <2>3, <2>4
<1>3. CASE ~Shadowed(S, n)
  <2>1. ASSUME NEW o \in Nat, Covers(n, o)
        PROVE  \E f \in Insert(S, n) : /\ Covers(f, o) /\ n.version <= f.version
                                       /\ o \in FreeBytes(n, Shadowing(S, n)) => f.version = n.version
    <3>1. CASE o \in FreeBytes(n, Shadowing(S, n))
      <4>1. n.version <= n.version
        BY <1>1, SMTT(20)
      <4> QED
        BY <1>3, <3>1, <4>1, InsertContains
    <3>2. CASE o \notin FreeBytes(n, Shadowing(S, n))
      <4>1. o \in n.fileOff .. n.end - 1
        BY <1>1, <2>1, SMTT(20) DEF Covers
      <4>2. PICK e \in Shadowing(S, n) : Covers(e, o)
        BY <3>2, <4>1 DEF FreeBytes
      <4>3. e \in S /\ e.version > n.version
        BY DEF Shadowing
      <4>4. n.version < e.version /\ n.version <= e.version
        BY <1>1, <4>3, SMTT(20)
      <4>5. e \in Insert(S, n)
        BY <1>3, <4>3, <4>4, InsertContains DEF Stays
      <4> QED
        BY <3>2, <4>2, <4>4, <4>5
    <3> QED
      BY <3>1, <3>2
  <2>2. ASSUME NEW e \in S, NEW o \in Nat, Covers(e, o)
        PROVE  \E f \in Insert(S, n) : Covers(f, o) /\ e.version <= f.version
    <3>1. CASE Stays(e, n)
      <4>1. e \in Insert(S, n)
        BY <1>3, <3>1, InsertContains
      <4>2. e.version <= e.version
        BY <1>1, SMTT(20)
      <4> QED
        BY <2>2, <4>1, <4>2
    <3>2. CASE ~Stays(e, n)
      <4>1. e.version <= n.version
        BY <1>1, <3>2, SMTT(20) DEF Stays
      <4>2. CASE Covers(n, o)
        <5>1. PICK f \in Insert(S, n) : Covers(f, o) /\ n.version <= f.version
          BY <2>1, <4>2
        <5>2. f.version \in Nat
          <6>1. f \in S \/ (\E x \in S : Cut(f, x, n)) \/ Rest(f, S, n)
            BY <1>3, InsertMembers
          <6> QED
            BY <1>1, <6>1 DEF Cut, Rest, Part
        <5>3. e.version <= f.version
          BY <1>1, <4>1, <5>1, <5>2, SMTT(20)
        <5> QED
          BY <5>1, <5>3
      <4>3. CASE o < n.fileOff
        <5>1. e.fileOff < n.fileOff /\ e.fileOff <= o
          BY <1>1, <2>2, <4>3, SMTT(20) DEF Covers
        <5>2. PICK f \in Insert(S, n) : Part(f, e, e.fileOff, n.fileOff)
          BY <1>3, <3>2, <5>1, InsertContains
        <5>3. e.version <= e.version
          BY <1>1, SMTT(20)
        <5> QED
          BY <4>3, <5>1, <5>2, <5>3 DEF Part, Covers
      <4>4. CASE n.end <= o
        <5>1. n.end < e.end /\ o < e.end
          BY <1>1, <2>2, <4>4, SMTT(20) DEF Covers
        <5>2. PICK f \in Insert(S, n) : Part(f, e, n.end, e.end)
          BY <1>3, <3>2, <5>1, InsertContains
        <5>3. e.version <= e.version
          BY <1>1, SMTT(20)
        <5> QED
          BY <4>4, <5>1, <5>2, <5>3 DEF Part, Covers
      <4> QED
        BY <1>1, <4>2, <4>3, <4>4, SMTT(20) DEF Covers
    <3> QED
      BY <3>1, <3>2
  <2> QED
    BY <2>1, <2>2
<1>4. QED
  BY <1>2, <1>3

\* No two intervals of S share a byte.
Once(S) == \A a, b \in S : \A o \in Nat : Covers(a, o) /\ Covers(b, o) => a = b

\* Two runs that share a byte are the same run.
LEMMA SameRun ==
  ASSUME NEW free, NEW lo \in Nat, NEW hi \in Nat, NEW a \in Nat, NEW b \in Nat, NEW o \in Nat,
         Run(free, lo, hi), Run(free, a, b), lo <= o, o < hi, a <= o, o < b
  PROVE  lo = a /\ hi = b
<1>1. /\ \A q \in lo .. hi - 1 : q \in free
      /\ \A q \in a .. b - 1 : q \in free
      /\ lo - 1 \notin free /\ hi \notin free /\ a - 1 \notin free /\ b \notin free
  BY DEF Run
<1>2. ~(lo < a)
  <2>1. lo < a => a - 1 \in lo .. hi - 1
    BY SMTT(20)
  <2> QED
    BY <1>1, <2>1
<1>3. ~(a < lo)
  <2>1. a < lo => lo - 1 \in a .. b - 1
    BY SMTT(20)
  <2> QED
    BY <1>1, <2>1
<1>4. ~(hi < b)
  <2>1. hi < b => hi \in a .. b - 1
    BY SMTT(20)
  <2> QED
    BY <1>1, <2>1
<1>5. ~(b < hi)
  <2>1. b < hi => b \in lo .. hi - 1
    BY SMTT(20)
  <2> QED
    BY <1>1, <2>1
<1>6. QED
  BY <1>2, <1>3, <1>4, <1>5, SMTT(20)

\* insert keeps the intervals apart, which the binary searches of plan and findRecord
\* rely on.
LEMMA InsertOnce ==
  ASSUME NEW S, Index(S), NEW n, Fresh(S, n), Once(S)
  PROVE  Once(Insert(S, n))
<1>1. /\ n.version \in Nat /\ n.fileOff \in Nat /\ n.end \in Nat /\ n.fileOff < n.end
      /\ \A e \in S : e.version \in Nat /\ e.fileOff \in Nat /\ e.end \in Nat
  BY DEF Index, Fresh, Sound, Interval
<1>2. CASE Shadowed(S, n)
  BY <1>2 DEF Insert
<1>3. CASE ~Shadowed(S, n)
  <2>1. ASSUME NEW f \in Insert(S, n)
        PROVE  \/ f \in S /\ Stays(f, n)
               \/ \E e \in S : ~Stays(e, n) /\ Cut(f, e, n) /\ f.synced = FALSE
               \/ Rest(f, S, n)
    BY <1>3, InsertMembers
  <2>2. ASSUME NEW e \in S, ~Stays(e, n), NEW f, Cut(f, e, n), NEW o \in Nat, Covers(f, o)
        PROVE  Covers(e, o) /\ ~Covers(n, o)
    <3>1. \/ e.fileOff < n.fileOff /\ f.fileOff = e.fileOff /\ f.end = n.fileOff
          \/ n.end < e.end /\ f.fileOff = n.end /\ f.end = e.end
      BY <2>2 DEF Cut, Part
    <3>2. e.fileOff < n.end /\ n.fileOff < e.end
      BY <2>2 DEF Stays, Overlaps
    <3>3. f.fileOff <= o /\ o < f.end
      BY <2>2 DEF Covers
    <3>4. e.fileOff <= o /\ o < e.end /\ ~(n.fileOff <= o /\ o < n.end)
      BY <1>1, <3>1, <3>2, <3>3, SMTT(20)
    <3> QED
      BY <3>4 DEF Covers
  <2>3. ASSUME NEW f, Rest(f, S, n), NEW o \in Nat, Covers(f, o)
        PROVE  Covers(n, o) /\ o \in FreeBytes(n, Shadowing(S, n))
    <3>1. /\ n.fileOff <= f.fileOff /\ f.end <= n.end /\ f.fileOff <= o /\ o < f.end
          /\ f.fileOff .. f.end - 1 \subseteq FreeBytes(n, Shadowing(S, n))
          /\ f.fileOff \in Nat /\ f.end \in Nat
      BY <2>3 DEF Rest, Covers, Run, Part, Sound, Interval
    <3>2. n.fileOff <= o /\ o < n.end /\ o \in f.fileOff .. f.end - 1
      BY <1>1, <3>1, SMTT(20)
    <3> QED
      BY <3>1, <3>2 DEF Covers
  <2>4. ASSUME NEW e \in S, Stays(e, n), NEW o \in Nat, Covers(e, o), Covers(n, o)
        PROVE  o \notin FreeBytes(n, Shadowing(S, n))
    <3>1. Overlaps(e, n.fileOff, n.end)
      BY <1>1, <2>4, SMTT(20) DEF Covers, Overlaps
    <3>2. e.version > n.version
      BY <1>1, <2>4, <3>1, SMTT(20) DEF Stays
    <3>3. e \in Shadowing(S, n)
      BY <3>1, <3>2 DEF Shadowing
    <3> QED
      BY <2>4, <3>3 DEF FreeBytes
  <2>5. ASSUME NEW a \in S, ~Stays(a, n), NEW f, Cut(f, a, n), f.synced = FALSE,
               NEW b \in S, ~Stays(b, n), NEW g, Cut(g, b, n), g.synced = FALSE,
               NEW o \in Nat, Covers(f, o), Covers(g, o)
        PROVE  f = g
    <3>1. Covers(a, o) /\ Covers(b, o)
      BY <2>2, <2>5
    <3>2. a = b
      BY <3>1 DEF Once
    <3>3. CASE Part(f, a, a.fileOff, n.fileOff) /\ Part(g, a, a.fileOff, n.fileOff)
      BY <2>5, <3>3, SamePart
    <3>4. CASE Part(f, a, n.end, a.end) /\ Part(g, a, n.end, a.end)
      BY <2>5, <3>4, SamePart
    <3>5. ASSUME NEW x, NEW y, Part(x, a, a.fileOff, n.fileOff), Part(y, a, n.end, a.end),
                 Covers(x, o), Covers(y, o)
          PROVE  FALSE
      <4>1. o < n.fileOff /\ n.end <= o
        BY <3>5 DEF Part, Covers
      <4> QED
        BY <1>1, <4>1, SMTT(20)
    <3> QED
      BY <2>5, <3>2, <3>3, <3>4, <3>5 DEF Cut
  <2>6. ASSUME NEW f, Rest(f, S, n), NEW g, Rest(g, S, n), NEW o \in Nat,
               Covers(f, o), Covers(g, o)
        PROVE  f = g
    <3>1. /\ f.fileOff \in Nat /\ f.end \in Nat /\ g.fileOff \in Nat /\ g.end \in Nat
          /\ f.fileOff <= o /\ o < f.end /\ g.fileOff <= o /\ o < g.end
          /\ f.synced \in BOOLEAN /\ g.synced \in BOOLEAN
      BY <2>6 DEF Rest, Part, Sound, Interval, Covers
    <3>2. /\ Run(FreeBytes(n, Shadowing(S, n)), f.fileOff, f.end)
          /\ Run(FreeBytes(n, Shadowing(S, n)), g.fileOff, g.end)
          /\ f.synced <=> g.synced
          /\ Part(f, n, f.fileOff, f.end) /\ Part(g, n, g.fileOff, g.end)
      BY <2>6 DEF Rest
    <3>3. f.fileOff = g.fileOff /\ f.end = g.end
      BY <3>1, <3>2, SameRun
    <3>4. f.synced = g.synced
      <4>1. (f.synced = TRUE \/ f.synced = FALSE) /\ (g.synced = TRUE \/ g.synced = FALSE)
        BY <3>1
      <4>2. CASE f.synced = TRUE
        BY <3>2, <4>1, <4>2
      <4>3. CASE f.synced = FALSE
        BY <3>2, <4>1, <4>3
      <4> QED
        BY <4>1, <4>2, <4>3
    <3> QED
      BY <3>2, <3>3, <3>4, SamePart
  <2>7. ASSUME NEW a \in S, Stays(a, n), NEW b \in S, ~Stays(b, n), NEW f, Cut(f, b, n),
               NEW o \in Nat, Covers(a, o), Covers(f, o)
        PROVE  FALSE
    BY <2>2, <2>7 DEF Once
  <2>8. ASSUME NEW a \in S, Stays(a, n), NEW f, Rest(f, S, n), NEW o \in Nat,
               Covers(a, o), Covers(f, o)
        PROVE  FALSE
    BY <2>3, <2>4, <2>8
  <2>9. ASSUME NEW b \in S, ~Stays(b, n), NEW g, Cut(g, b, n), NEW f, Rest(f, S, n),
               NEW o \in Nat, Covers(g, o), Covers(f, o)
        PROVE  FALSE
    BY <2>2, <2>3, <2>9
  <2>10. ASSUME NEW f \in Insert(S, n), NEW g \in Insert(S, n), NEW o \in Nat,
                Covers(f, o), Covers(g, o)
         PROVE  f = g
    <3>1. CASE f \in S /\ Stays(f, n)
      BY <3>1, <2>1, <2>7, <2>8, <2>10 DEF Once
    <3>2. CASE \E e \in S : ~Stays(e, n) /\ Cut(f, e, n) /\ f.synced = FALSE
      <4>1. PICK a \in S : ~Stays(a, n) /\ Cut(f, a, n) /\ f.synced = FALSE
        BY <3>2
      <4>2. CASE \E e \in S : ~Stays(e, n) /\ Cut(g, e, n) /\ g.synced = FALSE
        <5>1. PICK b \in S : ~Stays(b, n) /\ Cut(g, b, n) /\ g.synced = FALSE
          BY <4>2
        <5> QED
          BY <4>1, <5>1, <2>5, <2>10
      <4> QED
        BY <4>1, <4>2, <2>1, <2>7, <2>9, <2>10
    <3>3. CASE Rest(f, S, n)
      BY <3>3, <2>1, <2>6, <2>8, <2>9, <2>10
    <3> QED
      BY <2>1, <3>1, <3>2, <3>3
  <2> QED
    BY <2>10 DEF Once
<1>4. QED
  BY <1>2, <1>3

-----------------------------------------------------------------------------
(* Replay *)

\* The interval iv is of the record r: it points at r's payload, and it is clean when r
\* is synced and iv is all of it.
Of(iv, r) ==
  /\ r.version = iv.version /\ r.fileOff <= iv.fileOff /\ iv.end <= r.end
  /\ iv.off = iv.fileOff - r.fileOff
  /\ iv.synced <=> r.synced /\ iv.fileOff = r.fileOff /\ iv.end = r.end

\* Where an interval stops short of its record, a newer one begins.
Bounded(S, iv, r) ==
  /\ r.fileOff < iv.fileOff => \E e \in S : Covers(e, iv.fileOff - 1) /\ iv.version < e.version
  /\ iv.end < r.end => \E e \in S : Covers(e, iv.end) /\ iv.version < e.version

RecordsOK ==
  /\ replayed \subseteq ReplayRecord
  /\ \A x, y \in replayed : x.version = y.version => x = y

Placed == \A iv \in ivs : \E r \in replayed : Of(iv, r) /\ Bounded(ivs, iv, r)

Reached ==
  \A r \in replayed : \A o \in Nat :
    WroteByte(r, o) => \E iv \in ivs : Covers(iv, o) /\ r.version <= iv.version

IndexInv == RecordsOK /\ Index(ivs) /\ Once(ivs) /\ Placed /\ Reached

\* What a record of the scan is.
LEMMA RecordFields ==
  ASSUME NEW r \in ReplayRecord
  PROVE  /\ r.fileOff \in Nat /\ r.end \in Nat /\ r.version \in Nat /\ r.synced \in BOOLEAN
         /\ r.fileOff < r.end /\ r.end <= ReplaySize /\ r.version \in 1 .. ReplayVersions
<1>1. /\ r.fileOff \in 0 .. ReplaySize /\ r.end \in 0 .. ReplaySize
      /\ r.version \in 1 .. ReplayVersions /\ r.synced \in BOOLEAN /\ r.fileOff < r.end
  BY DEF ReplayRecord
<1>2. QED
  BY <1>1, ReplayConstants, SMTT(20)

\* The interval recovery inserts for it covers its range and points at its payload.
LEMMA AsIntervalSound ==
  ASSUME NEW r \in ReplayRecord
  PROVE  LET n == AsInterval(r)
         IN  /\ Sound(n) /\ n.fileOff = r.fileOff /\ n.end = r.end /\ n.version = r.version
             /\ n.off = 0 /\ n.synced = r.synced
<1>1. PICK n : n = AsInterval(r)
  OBVIOUS
<1>2. /\ n.fileOff = r.fileOff /\ n.end = r.end /\ n.version = r.version
      /\ n.off = 0 /\ n.synced = r.synced /\ n.cold = FALSE
  BY <1>1 DEF AsInterval
<1>3. n \in Interval
  <2>1. 0 \in Nat /\ 1 \in Nat
    BY SMTT(20)
  <2> QED
    BY <1>1, <2>1, RecordFields DEF AsInterval, Interval
<1>4. Sound(n)
  BY <1>2, <1>3, RecordFields DEF Sound
<1>5. QED
  BY <1>1, <1>2, <1>4

\* A part of an interval within [a, b) lies within it, and is not all of it.
LEMMA ProperPart ==
  ASSUME NEW a \in Nat, NEW b \in Nat, NEW x \in Nat, NEW y \in Nat, NEW lo \in Nat, NEW hi \in Nat,
         a <= x, y <= b, x <= lo, hi <= y, lo # x \/ hi # y
  PROVE  a <= lo /\ hi <= b /\ ~(lo = a /\ hi = b) /\ (x - a) + (lo - x) = lo - a
BY SMTT(20)

\* A part of an interval of r is an interval of r, and no longer clean.
LEMMA PartOf ==
  ASSUME NEW r \in ReplayRecord, NEW e, Sound(e), Of(e, r), NEW f, NEW lo \in Nat, NEW hi \in Nat,
         Part(f, e, lo, hi), f.synced = FALSE, e.fileOff <= lo, lo < hi, hi <= e.end,
         lo # e.fileOff \/ hi # e.end
  PROVE  Of(f, r)
<1>1. /\ r.version = e.version /\ r.fileOff <= e.fileOff /\ e.end <= r.end
      /\ e.off = e.fileOff - r.fileOff
      /\ f.fileOff = lo /\ f.end = hi /\ f.version = e.version /\ f.off = e.off + (lo - e.fileOff)
      /\ e.fileOff \in Nat /\ e.end \in Nat /\ r.fileOff \in Nat /\ r.end \in Nat
      /\ e.fileOff <= lo /\ lo < hi /\ hi <= e.end /\ (lo # e.fileOff \/ hi # e.end)
  BY RecordFields DEF Of, Part, Sound, Interval
<1>2. PICK a, b, x, y : a = r.fileOff /\ b = r.end /\ x = e.fileOff /\ y = e.end
  OBVIOUS
<1>3. /\ a \in Nat /\ b \in Nat /\ x \in Nat /\ y \in Nat
      /\ a <= x /\ y <= b /\ x <= lo /\ hi <= y /\ (lo # x \/ hi # y)
  BY <1>1, <1>2
<1>4. a <= lo /\ hi <= b /\ ~(lo = a /\ hi = b) /\ (x - a) + (lo - x) = lo - a
  BY <1>3, ProperPart, SMTT(20)
<1>5. f.off = lo - a
  BY <1>1, <1>2, <1>4
<1>6. QED
  BY <1>1, <1>2, <1>4, <1>5 DEF Of

\* insert yields an index.
LEMMA InsertSound ==
  ASSUME NEW S, Index(S), NEW n, Fresh(S, n)
  PROVE  Index(Insert(S, n))
<1>1. CASE Shadowed(S, n)
  BY <1>1 DEF Insert
<1>2. CASE ~Shadowed(S, n)
  <2>1. ASSUME NEW f \in Insert(S, n)
        PROVE  Sound(f)
    <3>1. f \in S \/ (\E x \in S : Cut(f, x, n)) \/ Rest(f, S, n)
      BY <1>2, InsertMembers
    <3> QED
      BY <3>1 DEF Cut, Rest, Part, Index
  <2> QED
    BY <2>1 DEF Index
<1>3. QED
  BY <1>1, <1>2

\* Where something newer was, something newer is.
LEMMA StillNewer ==
  ASSUME NEW S, Index(S), NEW n, Fresh(S, n), NEW v \in Nat, NEW o \in Nat
  PROVE  /\ (\E e \in S : Covers(e, o) /\ v < e.version)
              => \E f \in Insert(S, n) : Covers(f, o) /\ v < f.version
         /\ Covers(n, o) /\ v < n.version => \E f \in Insert(S, n) : Covers(f, o) /\ v < f.version
<1>1. n.version \in Nat /\ (\A e \in S : e.version \in Nat) /\ \A f \in Insert(S, n) : f.version \in Nat
  <2>1. Index(Insert(S, n))
    BY InsertSound
  <2> QED
    BY <2>1 DEF Index, Fresh, Sound, Interval
<1>2. ASSUME NEW e \in S, Covers(e, o), v < e.version
      PROVE  \E f \in Insert(S, n) : Covers(f, o) /\ v < f.version
  <2>1. PICK f \in Insert(S, n) : Covers(f, o) /\ e.version <= f.version
    BY <1>2, InsertRaises
  <2>2. v < f.version
    BY <1>1, <1>2, <2>1, SMTT(20)
  <2> QED
    BY <2>1, <2>2
<1>3. ASSUME Covers(n, o), v < n.version
      PROVE  \E f \in Insert(S, n) : Covers(f, o) /\ v < f.version
  <2>1. PICK f \in Insert(S, n) : Covers(f, o) /\ n.version <= f.version
    BY <1>3, InsertRaises
  <2>2. v < f.version
    BY <1>1, <1>3, <2>1, SMTT(20)
  <2> QED
    BY <2>1, <2>2
<1>4. QED
  BY <1>2, <1>3

\* An interval that no newer record touches keeps its bounds.
LEMMA KeptBounded ==
  ASSUME NEW S, Index(S), NEW n, Fresh(S, n), NEW f, Sound(f), NEW x \in ReplayRecord,
         x.fileOff <= f.fileOff, Bounded(S, f, x)
  PROVE  Bounded(Insert(S, n), f, x)
<1>1. f.fileOff \in Nat /\ f.end \in Nat /\ f.version \in Nat /\ x.fileOff \in Nat
  BY RecordFields DEF Sound, Interval
<1>2. x.fileOff < f.fileOff => f.fileOff - 1 \in Nat
  BY <1>1, SMTT(20)
<1>3. x.fileOff < f.fileOff =>
        \E e \in Insert(S, n) : Covers(e, f.fileOff - 1) /\ f.version < e.version
  BY <1>1, <1>2, StillNewer DEF Bounded
<1>4. f.end < x.end => \E e \in Insert(S, n) : Covers(e, f.end) /\ f.version < e.version
  BY <1>1, StillNewer DEF Bounded
<1>5. QED
  BY <1>3, <1>4 DEF Bounded

\* What the new record leaves of an older interval belongs to the same record, is dirty,
\* and ends where the new one begins.
LEMMA CutPlaced ==
  ASSUME NEW S, Index(S), NEW n, Fresh(S, n), NEW e \in S, ~Stays(e, n), NEW f, Cut(f, e, n),
         f.synced = FALSE, NEW x \in ReplayRecord, Of(e, x), Bounded(S, e, x)
  PROVE  Of(f, x) /\ Bounded(Insert(S, n), f, x)
<1>1. /\ n.version \in Nat /\ n.fileOff \in Nat /\ n.end \in Nat /\ n.fileOff < n.end
      /\ e.version \in Nat /\ e.fileOff \in Nat /\ e.end \in Nat /\ e.fileOff < e.end
      /\ x.fileOff \in Nat /\ x.end \in Nat /\ Sound(e) /\ e.version # n.version
      /\ x.fileOff <= e.fileOff
  BY RecordFields DEF Index, Fresh, Sound, Interval, Of
<1>2. e.version < n.version /\ e.fileOff < n.end /\ n.fileOff < e.end
  BY <1>1, SMTT(20) DEF Stays, Overlaps
<1>3. Bounded(Insert(S, n), e, x)
  BY <1>1, KeptBounded
<1>4. CASE e.fileOff < n.fileOff /\ Part(f, e, e.fileOff, n.fileOff)
  <2>1. e.fileOff <= e.fileOff /\ n.fileOff <= e.end /\ n.fileOff # e.end
    BY <1>1, <1>2, SMTT(20)
  <2>2. Of(f, x)
    BY <1>1, <1>4, <2>1, PartOf
  <2>3. f.fileOff = e.fileOff /\ f.end = n.fileOff /\ f.version = e.version
    BY <1>4 DEF Part
  <2>4. Covers(n, n.fileOff)
    BY <1>1, SMTT(20) DEF Covers
  <2>5. \E g \in Insert(S, n) : Covers(g, n.fileOff) /\ e.version < g.version
    BY <1>1, <1>2, <2>4, StillNewer
  <2> QED
    BY <1>3, <2>2, <2>3, <2>5 DEF Bounded
<1>5. CASE n.end < e.end /\ Part(f, e, n.end, e.end)
  <2>1. e.end <= e.end /\ e.fileOff <= n.end /\ n.end # e.fileOff
    BY <1>1, <1>2, SMTT(20)
  <2>2. Of(f, x)
    BY <1>1, <1>5, <2>1, PartOf
  <2>3. f.fileOff = n.end /\ f.end = e.end /\ f.version = e.version
    BY <1>5 DEF Part
  <2>4. n.end - 1 \in Nat /\ Covers(n, n.end - 1)
    BY <1>1, SMTT(20) DEF Covers
  <2>5. \E g \in Insert(S, n) : Covers(g, n.end - 1) /\ e.version < g.version
    BY <1>1, <1>2, <2>4, StillNewer
  <2> QED
    BY <1>3, <2>2, <2>3, <2>5 DEF Bounded
<1>6. QED
  BY <1>4, <1>5 DEF Cut

\* What newer intervals leave of the new record is all of it when there are none, and
\* ends where one begins.
LEMMA RestPlaced ==
  ASSUME NEW S, Index(S), NEW r \in ReplayRecord, NEW n, n = AsInterval(r), Fresh(S, n),
         ~Shadowed(S, n), NEW f, Rest(f, S, n)
  PROVE  Of(f, r) /\ Bounded(Insert(S, n), f, r)
<1>1. /\ n.version = r.version /\ n.fileOff = r.fileOff /\ n.end = r.end /\ n.off = 0
      /\ n.synced = r.synced
  BY AsIntervalSound
<1>2. /\ n.version \in Nat /\ n.fileOff \in Nat /\ n.end \in Nat /\ n.fileOff < n.end
      /\ \A e \in S : e.version \in Nat /\ e.fileOff \in Nat /\ e.end \in Nat /\ e.fileOff < e.end
  BY DEF Index, Fresh, Sound, Interval
<1>3. PICK lo, hi, free : lo = f.fileOff /\ hi = f.end /\ free = FreeBytes(n, Shadowing(S, n))
  OBVIOUS
<1>4. /\ lo \in Nat /\ hi \in Nat /\ n.fileOff <= lo /\ lo < hi /\ hi <= n.end
      /\ f.version = n.version /\ f.off = n.off + (lo - n.fileOff)
      /\ (f.synced <=> n.synced /\ Shadowing(S, n) = {})
      /\ (\A q \in lo .. hi - 1 : q \in free) /\ lo - 1 \notin free /\ hi \notin free
  BY <1>3 DEF Rest, Part, Sound, Interval, Run
<1>5. ASSUME NEW o \in Nat, n.fileOff <= o, o < n.end, o \notin free
      PROVE  \E e \in Insert(S, n) : e \in Shadowing(S, n) /\ Covers(e, o) /\ n.version < e.version
  <2>1. o \in n.fileOff .. n.end - 1
    BY <1>2, <1>5, SMTT(20)
  <2>2. PICK e \in Shadowing(S, n) : Covers(e, o)
    BY <1>3, <1>5, <2>1 DEF FreeBytes
  <2>3. e \in S /\ e.version > n.version
    BY DEF Shadowing
  <2>4. n.version < e.version
    BY <1>2, <2>3, SMTT(20)
  <2>5. e \in Insert(S, n)
    BY <2>3, <2>4, InsertContains DEF Stays
  <2> QED
    BY <2>2, <2>4, <2>5
<1>6. n.fileOff < lo => \E e \in Insert(S, n) : /\ e \in Shadowing(S, n) /\ Covers(e, lo - 1)
                                                /\ n.version < e.version
  <2>1. n.fileOff < lo => lo - 1 \in Nat /\ n.fileOff <= lo - 1 /\ lo - 1 < n.end
    BY <1>2, <1>4, SMTT(20)
  <2> QED
    BY <1>4, <1>5, <2>1
<1>7. hi < n.end => \E e \in Insert(S, n) : /\ e \in Shadowing(S, n) /\ Covers(e, hi)
                                            /\ n.version < e.version
  <2>1. n.fileOff <= hi
    BY <1>2, <1>4, SMTT(20)
  <2> QED
    BY <1>4, <1>5, <2>1
<1>8. Shadowing(S, n) = {} => lo = n.fileOff /\ hi = n.end
  <2>1. Shadowing(S, n) = {} => ~(n.fileOff < lo) /\ ~(hi < n.end)
    BY <1>6, <1>7
  <2> QED
    BY <1>2, <1>4, <2>1, SMTT(20)
<1>9. ASSUME NEW e \in Shadowing(S, n), lo = n.fileOff, hi = n.end
      PROVE  FALSE
  <2>1. e \in S /\ e.fileOff < n.end /\ n.fileOff < e.end
    BY DEF Shadowing, Overlaps
  <2>2. PICK o : o = IF e.fileOff < n.fileOff THEN n.fileOff ELSE e.fileOff
    OBVIOUS
  <2>3. o \in lo .. hi - 1 /\ e.fileOff <= o /\ o < e.end
    BY <1>2, <1>9, <2>1, <2>2, SMTT(20)
  <2> QED
    BY <1>3, <1>4, <2>3 DEF FreeBytes, Covers
<1>10. f.off = lo - r.fileOff
  <2>1. n.off + (lo - n.fileOff) = lo - n.fileOff
    BY <1>1, <1>2, <1>4, SMTT(20)
  <2> QED
    BY <1>1, <1>4, <2>1
<1>11. Of(f, r)
  BY <1>1, <1>3, <1>4, <1>8, <1>9, <1>10 DEF Of
<1>12. QED
  BY <1>1, <1>3, <1>4, <1>6, <1>7, <1>11 DEF Bounded

\* Inserting a record keeps every interval in its place: an interval of its record, and
\* cut only where a newer one begins.
LEMMA ReplayPlaces ==
  ASSUME IndexInv, NEW r \in ReplayRecord, \A x \in replayed : x.version # r.version,
         NEW f \in Insert(ivs, AsInterval(r))
  PROVE  \E x \in replayed \cup {r} : Of(f, x) /\ Bounded(Insert(ivs, AsInterval(r)), f, x)
<1>1. PICK n : n = AsInterval(r)
  OBVIOUS
<1>2. Index(ivs) /\ Placed /\ replayed \subseteq ReplayRecord
  BY DEF IndexInv, RecordsOK
<1>3. Fresh(ivs, n)
  <2>1. Sound(n) /\ n.version = r.version
    BY <1>1, AsIntervalSound
  <2>2. \A e \in ivs : \E x \in replayed : x.version = e.version
    BY <1>2 DEF Placed, Of
  <2> QED
    BY <2>1, <2>2 DEF Fresh
<1>4. ASSUME f \in ivs
      PROVE  \E x \in replayed : Of(f, x) /\ Bounded(Insert(ivs, n), f, x)
  <2>1. PICK x \in replayed : Of(f, x) /\ Bounded(ivs, f, x)
    BY <1>2, <1>4 DEF Placed
  <2>2. x \in ReplayRecord /\ x.fileOff <= f.fileOff /\ Sound(f)
    BY <1>2, <1>4, <2>1 DEF Of, Index
  <2>3. Bounded(Insert(ivs, n), f, x)
    BY <1>2, <1>3, <2>1, <2>2, KeptBounded
  <2> QED
    BY <2>1, <2>3
<1>5. CASE Shadowed(ivs, n)
  <2>1. f \in ivs
    BY <1>1, <1>5 DEF Insert
  <2> QED
    BY <1>1, <1>4, <2>1
<1>6. CASE ~Shadowed(ivs, n)
  <2>1. \/ f \in ivs /\ Stays(f, n)
        \/ \E e \in ivs : ~Stays(e, n) /\ Cut(f, e, n) /\ f.synced = FALSE
        \/ Rest(f, ivs, n)
    BY <1>1, <1>2, <1>3, <1>6, InsertMembers
  <2>2. CASE f \in ivs
    BY <1>1, <1>4, <2>2
  <2>3. CASE \E e \in ivs : ~Stays(e, n) /\ Cut(f, e, n) /\ f.synced = FALSE
    <3>1. PICK e \in ivs : ~Stays(e, n) /\ Cut(f, e, n) /\ f.synced = FALSE
      BY <2>3
    <3>2. PICK x \in replayed : Of(e, x) /\ Bounded(ivs, e, x)
      BY <1>2 DEF Placed
    <3>3. x \in ReplayRecord
      BY <1>2
    <3>4. Of(f, x) /\ Bounded(Insert(ivs, n), f, x)
      BY <1>2, <1>3, <3>1, <3>2, <3>3, CutPlaced
    <3> QED
      BY <1>1, <3>4
  <2>4. CASE Rest(f, ivs, n)
    <3>1. Of(f, r) /\ Bounded(Insert(ivs, n), f, r)
      BY <1>1, <1>2, <1>3, <1>6, <2>4, RestPlaced
    <3> QED
      BY <1>1, <3>1
  <2> QED
    BY <2>1, <2>2, <2>3, <2>4
<1>7. QED
  BY <1>5, <1>6

\* Replaying one more record keeps the invariant of the index.
LEMMA ReplayKeeps ==
  ASSUME IndexInv, NEW r \in ReplayRecord, ReplayOne(r)
  PROVE  IndexInv'
<1>1. PICK n : n = AsInterval(r)
  OBVIOUS
<1>2. /\ ivs' = Insert(ivs, n) /\ replayed' = replayed \cup {r}
      /\ \A x \in replayed : x.version # r.version
  BY <1>1 DEF ReplayOne
<1>3. RecordsOK /\ Index(ivs) /\ Once(ivs) /\ Placed /\ Reached
  BY DEF IndexInv
<1>4. Fresh(ivs, n) /\ n.version = r.version /\ n.fileOff = r.fileOff /\ n.end = r.end
  <2>1. Sound(n) /\ n.version = r.version /\ n.fileOff = r.fileOff /\ n.end = r.end
    BY <1>1, AsIntervalSound
  <2>2. \A e \in ivs : \E x \in replayed : x.version = e.version
    BY <1>3 DEF Placed, Of
  <2> QED
    BY <1>2, <2>1, <2>2 DEF Fresh
<1>5. RecordsOK'
  BY <1>2, <1>3 DEF RecordsOK
<1>6. Index(Insert(ivs, n)) /\ Once(Insert(ivs, n))
  BY <1>3, <1>4, InsertSound, InsertOnce
<1>7. \A f \in Insert(ivs, n) :
        \E x \in replayed \cup {r} : Of(f, x) /\ Bounded(Insert(ivs, n), f, x)
  BY <1>1, <1>2, ReplayPlaces
<1>8. ASSUME NEW x \in replayed \cup {r}, NEW o \in Nat, WroteByte(x, o)
      PROVE  \E f \in Insert(ivs, n) : Covers(f, o) /\ x.version <= f.version
  <2>1. CASE x \in replayed
    <3>1. PICK e \in ivs : Covers(e, o) /\ x.version <= e.version
      BY <1>3, <1>8, <2>1 DEF Reached
    <3>2. PICK f \in Insert(ivs, n) : Covers(f, o) /\ e.version <= f.version
      BY <1>3, <1>4, <3>1, InsertRaises
    <3>3. e.version \in Nat /\ f.version \in Nat /\ x.version \in Nat
      <4>1. x \in ReplayRecord
        BY <1>3, <2>1 DEF RecordsOK
      <4> QED
        BY <1>3, <1>6, <4>1, RecordFields DEF Index, Sound, Interval
    <3>4. x.version <= f.version
      BY <3>1, <3>2, <3>3, SMTT(20)
    <3> QED
      BY <3>2, <3>4
  <2>2. CASE x = r
    <3>1. Covers(n, o)
      BY <1>4, <1>8, <2>2 DEF WroteByte, Covers
    <3> QED
      BY <1>3, <1>4, <2>2, <3>1, InsertRaises
  <2> QED
    BY <2>1, <2>2
<1>9. Placed'
  BY <1>2, <1>7 DEF Placed
<1>10. Reached'
  BY <1>2, <1>8 DEF Reached
<1>11. Index(ivs)' /\ Once(ivs)'
  BY <1>2, <1>6 DEF Index, Once
<1>12. QED
  BY <1>5, <1>9, <1>10, <1>11 DEF IndexInv

\* The interval over a byte and the newest record that wrote it belong together.
LEMMA Owner ==
  ASSUME IndexInv, NEW o \in Nat
  PROVE  /\ \A iv \in ivs : Covers(iv, o) =>
              \E r \in NewestOf(o) : Of(iv, r) /\ Bounded(ivs, iv, r)
         /\ \A r \in NewestOf(o) : \E iv \in ivs : Covers(iv, o) /\ Of(iv, r)
         /\ \A r, x \in NewestOf(o) : r = x
<1>1. RecordsOK /\ Index(ivs) /\ Once(ivs) /\ Placed /\ Reached
  BY DEF IndexInv
<1>2. /\ \A iv \in ivs : iv.version \in Nat /\ iv.fileOff \in Nat /\ iv.end \in Nat
      /\ \A r \in replayed : r.version \in Nat /\ r.fileOff \in Nat /\ r.end \in Nat
  <2>1. \A r \in replayed : r \in ReplayRecord
    BY <1>1 DEF RecordsOK
  <2> QED
    BY <1>1, <2>1, RecordFields DEF Index, Sound, Interval
<1>3. ASSUME NEW iv \in ivs, Covers(iv, o), NEW r \in replayed, Of(iv, r)
      PROVE  WroteByte(r, o)
  <2>1. r.fileOff <= iv.fileOff /\ iv.end <= r.end /\ iv.fileOff <= o /\ o < iv.end
    BY <1>3 DEF Of, Covers
  <2>2. r.fileOff <= o /\ o < r.end
    BY <1>2, <2>1, SMTT(20)
  <2> QED
    BY <2>2 DEF WroteByte
<1>4. ASSUME NEW iv \in ivs, Covers(iv, o)
      PROVE  \E r \in NewestOf(o) : Of(iv, r) /\ Bounded(ivs, iv, r)
  <2>1. PICK r \in replayed : Of(iv, r) /\ Bounded(ivs, iv, r)
    BY <1>1 DEF Placed
  <2>2. ASSUME NEW x \in replayed, WroteByte(x, o)
        PROVE  x.version <= r.version
    <3>1. PICK e \in ivs : Covers(e, o) /\ x.version <= e.version
      BY <1>1, <2>2 DEF Reached
    <3>2. e = iv
      BY <1>1, <1>4, <3>1 DEF Once
    <3> QED
      BY <2>1, <3>1, <3>2 DEF Of
  <2>3. r \in NewestOf(o)
    BY <1>3, <1>4, <2>1, <2>2 DEF NewestOf
  <2> QED
    BY <2>1, <2>3
<1>5. ASSUME NEW r \in NewestOf(o), NEW x \in NewestOf(o)
      PROVE  r = x
  <2>1. r \in replayed /\ x \in replayed /\ r.version <= x.version /\ x.version <= r.version
    BY DEF NewestOf
  <2>2. r.version = x.version
    BY <1>2, <2>1, SMTT(20)
  <2> QED
    BY <1>1, <2>1, <2>2 DEF RecordsOK
<1>6. ASSUME NEW r \in NewestOf(o)
      PROVE  \E iv \in ivs : Covers(iv, o) /\ Of(iv, r)
  <2>1. r \in replayed /\ WroteByte(r, o)
    BY DEF NewestOf
  <2>2. PICK iv \in ivs : Covers(iv, o)
    BY <1>1, <2>1 DEF Reached
  <2>3. PICK x \in NewestOf(o) : Of(iv, x)
    BY <1>4, <2>2
  <2> QED
    BY <1>5, <2>2, <2>3
<1>7. QED
  BY <1>4, <1>5, <1>6

\* The bytes of the file are those that a read can ask for.
LEMMA OffsetsNat == \A o : o \in ReplayOffsets <=> o \in Nat /\ o < ReplaySize
BY ReplayConstants, SMTT(20) DEF ReplayOffsets

\* The invariant gives every byte to the newest record that wrote it.
LEMMA IndexNewest == IndexInv => NewestWins
<1> SUFFICES ASSUME IndexInv, NEW o \in Nat
             PROVE  {[v |-> iv.version, p |-> iv.off + (o - iv.fileOff)] : iv \in Covering(ivs, o)}
                      = {[v |-> r.version, p |-> o - r.fileOff] : r \in NewestOf(o)}
  BY OffsetsNat DEF NewestWins
<1>1. ASSUME NEW iv \in ivs, NEW r \in NewestOf(o), Of(iv, r)
      PROVE  [v |-> iv.version, p |-> iv.off + (o - iv.fileOff)] = [v |-> r.version, p |-> o - r.fileOff]
  <2>1. iv.fileOff \in Nat
    BY DEF IndexInv, Index, Sound, Interval
  <2>2. r.fileOff \in Nat
    <3>1. r \in ReplayRecord
      BY DEF NewestOf, IndexInv, RecordsOK
    <3> QED
      BY <3>1, RecordFields
  <2>3. iv.version = r.version /\ iv.off = iv.fileOff - r.fileOff
    BY <1>1 DEF Of
  <2>4. (iv.fileOff - r.fileOff) + (o - iv.fileOff) = o - r.fileOff
    BY <2>1, <2>2, SMTT(20)
  <2> QED
    BY <2>3, <2>4
<1>2. ASSUME NEW iv \in Covering(ivs, o)
      PROVE  \E r \in NewestOf(o) : [v |-> iv.version, p |-> iv.off + (o - iv.fileOff)]
                                      = [v |-> r.version, p |-> o - r.fileOff]
  <2>1. iv \in ivs /\ Covers(iv, o)
    BY DEF Covering
  <2>2. PICK r \in NewestOf(o) : Of(iv, r)
    BY <2>1, Owner
  <2> QED
    BY <1>1, <2>1, <2>2
<1>3. ASSUME NEW r \in NewestOf(o)
      PROVE  \E iv \in Covering(ivs, o) : [v |-> iv.version, p |-> iv.off + (o - iv.fileOff)]
                                            = [v |-> r.version, p |-> o - r.fileOff]
  <2>1. PICK iv \in ivs : Covers(iv, o) /\ Of(iv, r)
    BY Owner
  <2>2. iv \in Covering(ivs, o)
    BY <2>1 DEF Covering
  <2> QED
    BY <1>1, <2>1, <2>2
<1>4. QED
  <2> DEFINE Byte(iv) == [v |-> iv.version, p |-> iv.off + (o - iv.fileOff)]
             Wrote(r) == [v |-> r.version, p |-> o - r.fileOff]
  <2>1. /\ \A iv \in Covering(ivs, o) : \E r \in NewestOf(o) : Byte(iv) = Wrote(r)
        /\ \A r \in NewestOf(o) : \E iv \in Covering(ivs, o) : Byte(iv) = Wrote(r)
    BY <1>2, <1>3
  <2> SUFFICES {Byte(iv) : iv \in Covering(ivs, o)} = {Wrote(r) : r \in NewestOf(o)}
    OBVIOUS
  <2> HIDE DEF Byte, Wrote
  <2> QED
    BY <2>1, SMTT(20)

\* The invariant keeps the intervals apart.
LEMMA IndexDisjoint == IndexInv => Disjoint
<1> SUFFICES ASSUME IndexInv, NEW a \in ivs, NEW b \in ivs, Overlaps(a, b.fileOff, b.end)
             PROVE  a = b
  BY DEF Disjoint
<1>1. /\ a.fileOff \in Nat /\ a.end \in Nat /\ a.fileOff < a.end
      /\ b.fileOff \in Nat /\ b.end \in Nat /\ b.fileOff < b.end
      /\ a.fileOff < b.end /\ b.fileOff < a.end
  BY DEF IndexInv, Index, Sound, Interval, Overlaps
<1>2. PICK o : o = IF a.fileOff < b.fileOff THEN b.fileOff ELSE a.fileOff
  OBVIOUS
<1>3. o \in Nat /\ a.fileOff <= o /\ o < a.end /\ b.fileOff <= o /\ o < b.end
  BY <1>1, <1>2, SMTT(20)
<1>4. QED
  BY <1>3 DEF IndexInv, Once, Covers

\* The invariant keeps a live byte clean exactly while its record is whole.
LEMMA IndexClean == IndexInv => StraddlersAreDirty
<1> SUFFICES ASSUME IndexInv, NEW o \in ReplayOffsets, NEW r \in NewestOf(o),
                    NEW iv \in Covering(ivs, o)
             PROVE  iv.synced <=> r.synced /\ \A p \in ReplayOffsets :
                                    WroteByte(r, p) => r \in NewestOf(p)
  BY DEF StraddlersAreDirty
<1>1. o \in Nat /\ iv \in ivs /\ Covers(iv, o) /\ r \in replayed /\ r \in ReplayRecord
  BY OffsetsNat DEF Covering, NewestOf, IndexInv, RecordsOK
<1>2. Of(iv, r) /\ Bounded(ivs, iv, r)
  <2>1. PICK x \in NewestOf(o) : Of(iv, x) /\ Bounded(ivs, iv, x)
    BY <1>1, Owner
  <2>2. x = r
    BY <1>1, Owner
  <2> QED
    BY <2>1, <2>2
<1>3. /\ iv.fileOff \in Nat /\ iv.end \in Nat /\ iv.version \in Nat /\ iv.fileOff < iv.end
      /\ r.fileOff \in Nat /\ r.end \in Nat /\ r.version \in Nat /\ r.end <= ReplaySize
  BY <1>1, RecordFields DEF IndexInv, Index, Sound, Interval
<1>4. ASSUME iv.fileOff = r.fileOff, iv.end = r.end, NEW p \in ReplayOffsets, WroteByte(r, p)
      PROVE  r \in NewestOf(p)
  <2>1. p \in Nat /\ Covers(iv, p)
    BY <1>4, OffsetsNat DEF WroteByte, Covers
  <2>2. PICK x \in NewestOf(p) : Of(iv, x)
    BY <1>1, <2>1, Owner
  <2>3. x \in replayed /\ x.version = r.version
    BY <1>2, <2>2 DEF Of, NewestOf
  <2>4. x = r
    BY <1>1, <2>3 DEF IndexInv, RecordsOK
  <2> QED
    BY <2>4
<1>5. ASSUME NEW p \in Nat, r.fileOff <= p, p < r.end, NEW e \in ivs, Covers(e, p),
             iv.version < e.version
      PROVE  p \in ReplayOffsets /\ WroteByte(r, p) /\ r \notin NewestOf(p)
  <2>1. p < ReplaySize
    BY <1>3, <1>5, ReplayConstants, SMTT(20)
  <2>2. p \in ReplayOffsets /\ WroteByte(r, p)
    BY <1>5, <2>1, OffsetsNat DEF WroteByte
  <2>3. PICK x \in NewestOf(p) : Of(e, x)
    BY <1>5, Owner
  <2>4. r.version = iv.version /\ x.version = e.version
    BY <1>2, <2>3 DEF Of
  <2>5. r \in NewestOf(p) => x = r
    BY <1>5, <2>3, Owner
  <2>6. x # r
    BY <1>3, <1>5, <2>4, SMTT(20)
  <2> QED
    BY <2>2, <2>5, <2>6
<1>6. ASSUME \A p \in ReplayOffsets : WroteByte(r, p) => r \in NewestOf(p)
      PROVE  iv.fileOff = r.fileOff /\ iv.end = r.end
  <2>1. r.fileOff <= iv.fileOff /\ iv.end <= r.end
    BY <1>2 DEF Of
  <2>2. ~(r.fileOff < iv.fileOff)
    <3> SUFFICES ASSUME r.fileOff < iv.fileOff
                 PROVE  FALSE
      OBVIOUS
    <3>1. PICK e \in ivs : Covers(e, iv.fileOff - 1) /\ iv.version < e.version
      BY <1>2 DEF Bounded
    <3>2. iv.fileOff - 1 \in Nat /\ r.fileOff <= iv.fileOff - 1 /\ iv.fileOff - 1 < r.end
      BY <1>3, <2>1, SMTT(20)
    <3> QED
      BY <1>5, <1>6, <3>1, <3>2
  <2>3. ~(iv.end < r.end)
    <3> SUFFICES ASSUME iv.end < r.end
                 PROVE  FALSE
      OBVIOUS
    <3>1. PICK e \in ivs : Covers(e, iv.end) /\ iv.version < e.version
      BY <1>2 DEF Bounded
    <3>2. r.fileOff <= iv.end
      BY <1>3, <2>1, SMTT(20)
    <3> QED
      BY <1>3, <1>5, <1>6, <3>1, <3>2
  <2> QED
    BY <1>3, <2>1, <2>2, <2>3, SMTT(20)
<1>7. QED
  BY <1>2, <1>4, <1>6 DEF Of

\* The invariant keeps intervals non-empty and within the file.
LEMMA IndexTyped == IndexInv => ReplayTypeOK
<1> SUFFICES ASSUME IndexInv
             PROVE  ReplayTypeOK
  OBVIOUS
<1>1. replayed \subseteq ReplayRecord
  BY DEF IndexInv, RecordsOK
<1>2. ASSUME NEW iv \in ivs
      PROVE  /\ iv.fileOff \in 0 .. ReplaySize /\ iv.end \in 0 .. ReplaySize
             /\ iv.fileOff < iv.end /\ iv.version \in 1 .. ReplayVersions
             /\ iv.synced \in BOOLEAN /\ iv.cold \in BOOLEAN
  <2>1. /\ iv.fileOff \in Nat /\ iv.end \in Nat /\ iv.fileOff < iv.end /\ iv.end <= ReplaySize
        /\ iv.synced \in BOOLEAN /\ iv.cold \in BOOLEAN
    BY DEF IndexInv, Index, Sound, Interval
  <2>2. PICK r \in replayed : r.version = iv.version
    BY DEF IndexInv, Placed, Of
  <2>3. iv.version \in 1 .. ReplayVersions
    BY <1>1, <2>2, RecordFields
  <2>4. iv.fileOff \in 0 .. ReplaySize /\ iv.end \in 0 .. ReplaySize
    BY <2>1, ReplayConstants, SMTT(20)
  <2> QED
    BY <2>1, <2>3, <2>4
<1>3. QED
  BY <1>1, <1>2 DEF ReplayTypeOK

\* Recovery rebuilds a sound index, whatever the order of the records (recovery.go,
\* index.go insert): every interval is a part of its record, cut only where a newer
\* interval begins, and every byte written is covered by something at least as new.
THEOREM ReplayKeepsIndex == ReplaySpec => []IndexInv
<1>1. ReplayInit => IndexInv
  BY DEF ReplayInit, IndexInv, RecordsOK, Index, Once, Placed, Reached
<1>2. IndexInv /\ [ReplayNext]_replayVars => IndexInv'
  <2> SUFFICES ASSUME IndexInv, [ReplayNext]_replayVars
               PROVE  IndexInv'
    OBVIOUS
  <2>1. CASE ReplayNext
    BY <2>1, ReplayKeeps DEF ReplayNext
  <2>2. CASE UNCHANGED replayVars
    <3>1. ivs' = ivs /\ replayed' = replayed
      BY <2>2 DEF replayVars
    <3> QED
      BY <3>1 DEF IndexInv, RecordsOK, Index, Once, Placed, Reached
  <2> QED
    BY <2>1, <2>2
<1>3. QED
  BY <1>1, <1>2, PTL DEF ReplaySpec

\* Whatever the replay order, each byte of the rebuilt index belongs to the newest record
\* that wrote it and points at that record's payload byte (index.go insert, clamp).
THEOREM NewestRecordWins == ReplaySpec => []NewestWins
BY ReplayKeepsIndex, IndexNewest, PTL

\* The rebuilt index is a sorted slice without overlaps, as plan and findRecord assume,
\* and its intervals are non-empty and within the file.
THEOREM ReplayedDisjoint == ReplaySpec => [](Disjoint /\ ReplayTypeOK)
BY ReplayKeepsIndex, IndexDisjoint, IndexTyped, PTL

\* A live byte is clean exactly when its record is synced and still whole: what a newer
\* record cut goes through carve again (index.go insert, remarkDirty).
THEOREM CutRecordsDirty == ReplaySpec => []StraddlersAreDirty
BY ReplayKeepsIndex, IndexClean, PTL
=============================================================================
