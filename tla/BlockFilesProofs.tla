-------------------------- MODULE BlockFilesProofs --------------------------
(***************************************************************************)
(* Every step keeps FilesInv (see BlockInvariants), given what             *)
(* BlockRemoteProofs shows of the same step: RemoteInv holds after it, and *)
(* no chunk that can be read is lost unless a sweep condemned it.  First the *)
(* lemmas on sizes and on the store's calls that both proofs use.          *)
(***************************************************************************)
EXTENDS BlockInvariants, TLAPS

\* Zenon proves the steps that name no other prover.
USE ZenonT(20)

-----------------------------------------------------------------------------
(* Arithmetic and cardinalities *)

\* The numbers of the model: hashes and blocks count from one, and None is neither.
LEMMA Constants ==
    ASSUME Sizes
    PROVE  /\ MaxHashes \in Nat /\ MaxBlocks \in Nat /\ MaxNow \in Nat /\ MaxRestarts \in Nat
           /\ Slots \subseteq Nat /\ Cardinality(Slots) \in Nat /\ 1 <= Cardinality(Slots)
           /\ Hashes \subseteq Nat \ {0} /\ Blocks \subseteq Nat \ {0}
           /\ None = 0 /\ NoRecord = -1 /\ None \notin Hashes /\ None \notin Blocks
  BY LifecycleConstants, SMTT(20) DEF Sizes, Hashes, Blocks, None, NoRecord

\* The chunks with a locator into a block can be counted.
LEMMA LiveFinite ==
    ASSUME Sizes, NEW b
    PROVE  LiveIn(b) \in SUBSET Hashes /\ Cardinality(LiveIn(b)) \in Nat
  BY DEF Sizes, LiveIn

\* Fewer chunks count less.
LEMMA SubsetSmaller ==
    ASSUME Sizes, NEW T \in SUBSET Hashes, NEW S \in SUBSET T
    PROVE  /\ Cardinality(S) \in Nat /\ Cardinality(T) \in Nat
           /\ Cardinality(S) <= Cardinality(T)
  BY DEF Sizes

\* A block with one chunk left has no other.
LEMMA AtMostOneElement ==
    ASSUME Sizes, NEW S \in SUBSET Hashes, Cardinality(S) <= 1, NEW x \in S
    PROVE  S = {x}
  <1>1. Cardinality(S \ {x}) \in Nat /\ (Cardinality(S \ {x}) = 0 => S \ {x} = {})
    BY DEF Sizes
  <1> QED
    BY <1>1, SMTT(20) DEF Sizes

\* A block whose chunks are at most x counts one at most.
LEMMA SmallImpliesSingle ==
    ASSUME Sizes, NEW x, NEW S \in SUBSET Hashes, S \subseteq {x}
    PROVE  Cardinality(S) <= 1
  <1>1. CASE S = {}
    BY <1>1, SMTT(20) DEF Sizes
  <1>2. CASE S # {}
    <2>1. x \in S /\ S \ {x} = {} /\ {} \in SUBSET Hashes
      BY <1>2
    <2>2. Cardinality({}) = 0
      BY <2>1 DEF Sizes
    <2> QED
      BY <2>1, <2>2, SMTT(20) DEF Sizes
  <1> QED
    BY <1>1, <1>2

\* Two slots may carry the same content: the distinct ones are no more than the slots.
LEMMA NovelSmaller ==
    ASSUME Sizes, UploadShape, Carving
    PROVE  /\ Novel \subseteq Hashes
           /\ Cardinality(Novel) <= Cardinality(upload.novel)
           /\ Cardinality(upload.novel) \in 0..Cardinality(Slots)
           /\ upload.novel # {} => Cardinality(upload.novel) # 0
  <1> DEFINE f == [s \in upload.novel |-> upload.run[s]]
  <1>1. upload.novel \in SUBSET Slots /\ \A s \in upload.novel : upload.run[s] \in Hashes
    BY DEF UploadShape
  <1>2. f \in [upload.novel -> Hashes] /\ Novel = {f[s] : s \in upload.novel}
    BY <1>1 DEF Novel
  <1>3. Cardinality(Novel) <= Cardinality(upload.novel)
    BY <1>1, <1>2 DEF Sizes
  <1> QED
    BY <1>1, <1>3 DEF Novel, Sizes

-----------------------------------------------------------------------------
(* What the store and remote calls do, pointwise *)

\* PutBlock fills the next block id and touches no other object.
LEMMA PutEffect ==
    ASSUME Sizes, LifecycleTypeOK, NEW hs \in SUBSET Hashes, PutBlock(hs)
    PROVE  /\ minted + 1 \in Blocks /\ minted' = minted + 1 /\ minted' \in 0..MaxBlocks
           /\ object'[minted + 1] = hs /\ putAt'[minted + 1] = now
           /\ \A b \in Blocks : b # minted + 1 => object'[b] = object[b] /\ putAt'[b] = putAt[b]
           /\ object' \in [Blocks -> SUBSET Hashes] /\ putAt' \in [Blocks -> 0..MaxNow]
  BY Constants, SMTT(20) DEF LifecycleTypeOK, PutBlock, Blocks

\* DeleteObject empties one block and touches no other object.
LEMMA DeleteEffect ==
    ASSUME Sizes, LifecycleTypeOK, NEW c \in Blocks, DeleteObject(c)
    PROVE  /\ minted' = minted /\ object'[c] = {} /\ putAt'[c] = 0
           /\ \A b \in Blocks : b # c => object'[b] = object[b] /\ putAt'[b] = putAt[b]
           /\ object' \in [Blocks -> SUBSET Hashes] /\ putAt' \in [Blocks -> 0..MaxNow]
  BY Constants, SMTT(20) DEF LifecycleTypeOK, DeleteObject

\* CommitBlock writes one record, and the locators of its chunks only.
LEMMA CommitEffect ==
    ASSUME Sizes, LifecycleTypeOK, NEW c \in Blocks, NEW hs, NEW n \in 0..Cardinality(Slots),
           CommitBlock(c, hs, n)
    PROVE  /\ liveCount'[c] = n
           /\ \A b \in Blocks : b # c => liveCount'[b] = liveCount[b]
           /\ \A h \in Hashes : /\ h \in hs => loc'[h] = c /\ syncedAt'[h] = now
                                /\ h \notin hs => loc'[h] = loc[h] /\ syncedAt'[h] = syncedAt[h]
           /\ loc' \in [Hashes -> Blocks \cup {None}] /\ syncedAt' \in [Hashes -> 0..MaxNow]
           /\ liveCount' \in [Blocks -> 0..Cardinality(Slots) \cup {NoRecord}]
  BY Constants DEF LifecycleTypeOK, CommitBlock

\* DeleteSynced clears one locator and its stamp.
LEMMA UnmarkEffect ==
    ASSUME Sizes, LifecycleTypeOK, NEW k \in Hashes, DeleteSynced(k)
    PROVE  /\ loc'[k] = None /\ syncedAt'[k] = 0
           /\ \A h \in Hashes : h # k => loc'[h] = loc[h] /\ syncedAt'[h] = syncedAt[h]
           /\ loc' \in [Hashes -> Blocks \cup {None}] /\ syncedAt' \in [Hashes -> 0..MaxNow]
  BY Constants, SMTT(20) DEF LifecycleTypeOK, DeleteSynced

\* Writing the count of one record leaves the other records alone.
LEMMA CountEffect ==
    ASSUME LifecycleTypeOK, NEW c \in Blocks, NEW n \in 0..Cardinality(Slots) \cup {NoRecord},
           liveCount' = [liveCount EXCEPT ![c] = n]
    PROVE  /\ liveCount'[c] = n
           /\ \A b \in Blocks : b # c => liveCount'[b] = liveCount[b]
           /\ liveCount' \in [Blocks -> 0..Cardinality(Slots) \cup {NoRecord}]
  BY DEF LifecycleTypeOK

\* While reconcile deletes, no collection runs: remoteGCLock.
LEMMA ReconLock ==
    ASSUME RemoteInv, recon.pc \notin {"idle", "walked"}
    PROVE  collect.pc = "idle"
  BY DEF RemoteInv, Apart

-----------------------------------------------------------------------------
(* FilesInv: what a step must keep *)

AtKept ==
    \A f \in Payloads, s \in Slots, h \in Hashes : At(h, f, s)' => At(h, f, s)
LocKept == \A h \in Hashes : loc'[h] # None => loc[h] # None
CondemnedKept == \A h \in Hashes : IsCondemned(h)' => IsCondemned(h) \/ loc[h] # None

\* Steps that change no block take no chunk away.
LEMMA CoreBacked ==
    ASSUME UNCHANGED core
    PROVE  KeepsBacked /\ LocKept
  BY DEF core, KeepsBacked, Backed, LocKept

\* No chunk that a client needs is condemned.
LEMMA NeededSpared ==
    ASSUME Sizes, RemoteInv, FilesInv, NEW f \in Payloads, NEW s \in Slots
    PROVE  /\ f \notin deleted /\ rows[f][s] # None =>
                rows[f][s] \in Hashes /\ Backed(rows[f][s]) /\ ~IsCondemned(rows[f][s])
           /\ local[f][s] = "synced" =>
                /\ f \notin deleted /\ rows[f][s] = content[f][s] /\ content[f][s] \in Hashes
                /\ Backed(content[f][s]) /\ ~IsCondemned(content[f][s])
  <1>1. local[f][s] = "synced" =>
          /\ f \notin deleted /\ rows[f][s] = content[f][s] /\ content[f][s] \in Hashes
    BY DEF RemoteInv, Filled, FilesInv, Unlinked, SyncedRecoverable
  <1> QED
    BY <1>1, Constants, SMTT(20)
    DEF RemoteInv, CoreInv, LifecycleTypeOK, LinkedHashes, At, FilesInv, RowsBacked, Spared

\* What the clients need stays, when a step neither moves a row nor takes a chunk away.
LEMMA BackedStep ==
    ASSUME Sizes, RemoteInv, FilesInv, KeepsBacked, UNCHANGED <<content, local, deleted, rows>>
    PROVE  (RowsBacked /\ SyncedRecoverable)'
  BY NeededSpared, SMTT(20) DEF RowsBacked, LinkedHashes, KeepsBacked, SyncedRecoverable

\* Contents stay distinct when no slot gains a content and no hash a locator.
LEMMA OwnedStep ==
    ASSUME Owned, AtKept, LocKept, CondemnedKept, written' = written
    PROVE  Owned'
  BY DEF Owned, AtKept, LocKept, CondemnedKept

\* A step that leaves the files and the carver alone.
LEMMA FilesSide ==
    ASSUME Sizes, RemoteInv, FilesInv, KeepsBacked, LocKept, CondemnedKept, Spared',
           UNCHANGED <<client, rows, upload, unlink>>
    PROVE  FilesInv'
  <1>1. UNCHANGED <<content, local, deleted, written>>
    BY DEF client
  <1>2. AtKept /\ \A f \in Payloads, s \in Slots, h \in Hashes : At(h, f, s)' <=> At(h, f, s)
    BY <1>1 DEF AtKept, At, Carving
  <1>3. InHandCurrent'
    BY <1>1 DEF FilesInv, InHandCurrent, Carving, LocKept
  <1> QED
    BY <1>1, <1>2, <1>3, OwnedStep, BackedStep DEF FilesInv, Unlinked, Manifested, LocKept

\* Steps of the other passes, during which nothing new is condemned.
LEMMA SparedFrame ==
    ASSUME RemoteInv, FilesInv, LocKept, UNCHANGED <<client, rows, upload>>,
           \A h \in Hashes : IsCondemned(h)' => IsCondemned(h),
           collect'.pc \in {"hold", "sweep"} => UNCHANGED <<collect, syncedAt>>,
           \A h \in Hashes : loc'[h] # None => \/ liveCount'[loc'[h]] # 0
                                               \/ liveCount'[loc'[h]] = liveCount[loc[h]]
    PROVE  Spared'
  <1>1. UNCHANGED <<content, local, deleted, written>>
    BY DEF client
  <1>2. \A f \in Payloads, s \in Slots, h \in Hashes : At(h, f, s)' => At(h, f, s)
    BY <1>1 DEF At, Carving
  <1> QED
    BY <1>1, <1>2 DEF Spared, FilesInv, LocKept

-----------------------------------------------------------------------------
(* FilesInv: reconcile, snapshots, time and compaction *)

\* A step that leaves files, blocks and collector alone keeps FilesInv.
LEMMA QuietFiles ==
    ASSUME Sizes, RemoteInv, FilesInv, UNCHANGED <<core, collect, client, rows, upload, unlink>>
    PROVE  FilesInv'
  BY FilesSide, SparedFrame, CoreBacked DEF CondemnedKept, core, IsCondemned

\* Reconcile and compaction: no locator is lost, no count falls to zero.
LEMMA PassFiles ==
    ASSUME Sizes, RemoteInv, FilesInv, KeepsBacked, LocKept, UNCHANGED <<client, rows, upload, unlink>>,
           \A h \in Hashes : IsCondemned(h)' => IsCondemned(h),
           collect'.pc \notin {"hold", "sweep"},
           \A h \in Hashes : loc'[h] # None => \/ liveCount'[loc'[h]] # 0
                                               \/ liveCount'[loc'[h]] = liveCount[loc[h]]
    PROVE  FilesInv'
  BY FilesSide, SparedFrame DEF CondemnedKept

\* A dropped record counts nothing.
LEMMA DroppedCount ==
    ASSUME Sizes, RemoteInv, NEW c \in Blocks, liveCount' = [liveCount EXCEPT ![c] = NoRecord],
           UNCHANGED loc
    PROVE  /\ LocKept
           /\ \A h \in Hashes : loc'[h] # None => \/ liveCount'[loc'[h]] # 0
                                                  \/ liveCount'[loc'[h]] = liveCount[loc[h]]
  BY Constants, CountEffect, SMTT(20) DEF LifecycleTypeOK, LocKept, RemoteInv, CoreInv

\* Reconcile, which reads records and objects, takes nothing that a file needs.
LEMMA ReconcilerFiles ==
    ASSUME Sizes, RemoteInv, RemoteInv', KeepsBacked, FilesInv, Reconciler
    PROVE  FilesInv'
  <1>1. CASE \/ ReconWalk \/ ReclaimWalk \/ ReclaimLive \/ OrphanWalk \/ ReclaimFails \/ ReconDone
    BY <1>1, QuietFiles
    DEF ReconWalk, ReclaimWalk, ReclaimLive, OrphanWalk, ReclaimFails, ReconDone, core, meta,
        objects
  <1>2. ASSUME NEW c \in Blocks, ReclaimDelete(c) \/ OrphanDelete(c)
        PROVE  FilesInv'
    BY <1>2, SparedFrame, FilesSide
    DEF ReclaimDelete, OrphanDelete, meta, LocKept, IsCondemned, CondemnedKept
  <1>3. CASE ReclaimDrop
    BY <1>3, ReconLock, DroppedCount, PassFiles
    DEF ReclaimDrop, objects, RemoteInv, ReconShape, KeepsBacked, Backed, IsCondemned
  <1> QED
    BY <1>1, <1>2, <1>3 DEF Reconciler

\* A snapshot reads the files.
LEMMA SnapshotsFiles ==
    ASSUME Sizes, RemoteInv, FilesInv, Snapshots \/ Tick
    PROVE  FilesInv'
  BY QuietFiles
  DEF Snapshots, SnapDrain, SnapDump, SnapManifest, SnapVerify, SnapDelete, Tick, core, meta,
      objects

\* Compaction condemns nothing.
LEMMA CompactorFiles ==
    ASSUME Sizes, RemoteInv, RemoteInv', KeepsBacked, FilesInv, Compactor
    PROVE  FilesInv'
  <1>1. UNCHANGED <<client, rows, upload, unlink>>
    BY DEF Compactor, GcDone, CompactPut, CompactCommit, CompactDelete, CompactDrop,
           CompactFails, CompactDone, CompactPick, meta
  <1>2. collect'.pc \in {"idle", "compact", "newput", "newcommit", "olddelete", "olddrop"}
    BY SMTT(20)
    DEF Compactor, GcDone, CompactPut, CompactCommit, CompactDelete, CompactDrop, CompactFails,
        CompactDone, CompactPick, Inactive, CompactAt, Compacted, Skipped, Compacting
  <1>3. \A h \in Hashes : IsCondemned(h)' => IsCondemned(h)
    BY <1>2 DEF IsCondemned, SweepPcs
  <1>4. CASE GcDone \/ CompactFails \/ CompactDone \/ \E b \in Blocks : CompactPick(b)
    BY <1>1, <1>2, <1>3, <1>4, CoreBacked, PassFiles
    DEF GcDone, CompactFails, CompactDone, CompactPick, core, meta, objects
  <1>5. CASE CompactPut
    BY <1>1, <1>2, <1>3, <1>5, PassFiles DEF CompactPut, meta, LocKept
  <1>6. CASE CompactCommit
    <2>1. KeepsBacked /\ LifecycleTypeOK
      BY <1>6 DEF RemoteInv, CoreInv
    <2>2. /\ collect.moved \in SUBSET Hashes /\ collect.moved # {}
          /\ \A h \in collect.moved : loc[h] # None
          /\ Pending(collect.block, collect.moved)
      BY <1>6, Constants DEF CompactCommit, RemoteInv, CollectShape, CompactInv, CompactPcs
    <2>3. /\ liveCount'[collect.block] = Cardinality(collect.moved)
          /\ \A b \in Blocks : b # collect.block => liveCount'[b] = liveCount[b]
          /\ \A h \in Hashes : /\ h \in collect.moved => loc'[h] = collect.block
                               /\ h \notin collect.moved => loc'[h] = loc[h]
      BY <1>6, <2>1, <2>2, Constants, SMTT(40)
      DEF CompactCommit, CommitBlock, LifecycleTypeOK, Pending, Blocks
    <2>4. \A h \in Hashes : loc'[h] # None => \/ liveCount'[loc'[h]] # 0
                                              \/ liveCount'[loc'[h]] = liveCount[loc[h]]
      <3>1. SUFFICES ASSUME NEW h \in Hashes, loc'[h] # None
                     PROVE  \/ liveCount'[loc'[h]] # 0
                            \/ liveCount'[loc'[h]] = liveCount[loc[h]]
        OBVIOUS
      <3>2. CASE h \in collect.moved
        BY <2>2, <2>3, <3>2 DEF Sizes
      <3>3. CASE h \notin collect.moved
        <4>1. loc[h] # collect.block
          BY <2>2 DEF Pending, LiveIn
        <4> QED
          BY <2>1, <2>3, <3>1, <3>3, <4>1 DEF LifecycleTypeOK
      <3> QED
        BY <3>2, <3>3
    <2> QED
      BY <1>1, <1>2, <1>3, <2>1, <2>2, <2>3, <2>4, PassFiles DEF LocKept
  <1>7. CASE CompactDelete
    BY <1>1, <1>2, <1>3, <1>7, PassFiles DEF CompactDelete, meta, LocKept
  <1>8. CASE CompactDrop
    BY <1>1, <1>2, <1>3, <1>8, DroppedCount, PassFiles
    DEF CompactDrop, RemoteInv, CollectShape, CompactPcs
  <1> QED
    BY <1>4, <1>5, <1>6, <1>7, <1>8 DEF Compactor

-----------------------------------------------------------------------------
(* FilesInv: the sweep *)

\* The sweep: what it condemns is no content of a linked file.
LEMMA SweeperFiles ==
    ASSUME Sizes, RemoteInv, RemoteInv', KeepsBacked, FilesInv, Sweeper
    PROVE  FilesInv'
  <1>1. UNCHANGED <<client, rows, upload, unlink>>
    BY DEF Sweeper, GcMark, GcHold, GcMarkFails, GcEnumerate, GcUnmark, GcDecr, GcDeleteBlock,
           SweepFails, GcDropRecord, GcPick, meta
  <1>2. UNCHANGED <<content, local, deleted, written>>
    BY <1>1 DEF client
  <1>3. \A f \in Payloads, s \in Slots, h \in Hashes : At(h, f, s)' <=> At(h, f, s)
    BY <1>1, <1>2 DEF At, Carving
  <1>4. ASSUME UNCHANGED core, collect'.pc \in {"hold", "sweep"}, RowHashes \subseteq collect'.live
        PROVE  FilesInv'
    BY <1>1, <1>2, <1>3, <1>4, CoreBacked, FilesSide, SMTT(20)
    DEF IsCondemned, SweepPcs, RowHashes, FilesInv, Spared, core, CondemnedKept
  <1>5. CASE GcMark
    BY <1>4, <1>5 DEF GcMark, core, meta, objects
  <1>6. CASE GcHold
    BY <1>1, <1>2, <1>3, <1>6, CoreBacked, FilesSide
    DEF GcHold, core, meta, objects, IsCondemned, SweepPcs, FilesInv, Spared, CondemnedKept
  <1>7. CASE GcMarkFails \/ SweepFails
    <2>1. /\ UNCHANGED core /\ collect'.pc = "next"
          /\ collect'.todo = {} \/ (collect.pc \in SweepPcs /\ collect'.todo = collect.todo)
      <3>1. CASE GcMarkFails
        BY <3>1 DEF GcMarkFails, core, meta, objects
      <3>2. CASE SweepFails
        BY <3>2 DEF SweepFails, Swept, SweepPcs, core, meta, objects
      <3> QED
        BY <1>7, <3>1, <3>2
    <2> QED
      BY <1>1, <2>1, CoreBacked, PassFiles DEF core, IsCondemned, SweepPcs
  <1>8. CASE GcEnumerate
    <2>1. /\ UNCHANGED core /\ collect.pc = "sweep" /\ collect'.pc = "next"
          /\ collect'.todo = {h \in Hashes : PastGrace(h, collect.cutoff) /\ h \notin collect.live}
          /\ collect.cutoff \in Nat
      BY <1>8, Constants, SMTT(20)
      DEF GcEnumerate, core, meta, objects, RemoteInv, CollectShape, CoreInv, LifecycleTypeOK
    <2>2. \A h \in Hashes : IsCondemned(h)' =>
            loc[h] # None /\ syncedAt[h] < collect.cutoff /\ h \notin collect.live
      BY <2>1 DEF IsCondemned, SweepPcs, PastGrace
    <2>3. ASSUME NEW f \in Payloads \ deleted, NEW s \in Slots, NEW h \in Hashes, At(h, f, s),
                 IsCondemned(h)'
          PROVE  FALSE
      <3>1. syncedAt[h] \in Nat
        BY <2>3, SMTT(20) DEF RemoteInv, CoreInv, LifecycleTypeOK
      <3> QED
        BY <2>1, <2>2, <2>3, <3>1, Constants, SMTT(20) DEF FilesInv, Spared, Manifested
    <2> QED
      BY <1>1, <1>2, <1>3, <2>1, <2>2, <2>3, CoreBacked, FilesSide
      DEF CondemnedKept, FilesInv, Spared, core
  <1>9. ASSUME NEW k \in Hashes, GcPick(k)
        PROVE  FilesInv'
    BY <1>1, <1>9, CoreBacked, PassFiles
    DEF GcPick, Sweeping, core, meta, objects, IsCondemned, SweepPcs
  <1>10. CASE GcUnmark
    BY <1>1, <1>10, UnmarkEffect, PassFiles
    DEF GcUnmark, SweepAt, Swept, IsCondemned, SweepPcs, RemoteInv, CollectShape, CoreInv,
        LocKept
  <1>11. CASE GcDecr
    <2>1. /\ collect.pc = "decr" /\ collect'.todo = collect.todo
          /\ collect'.pc \in {"clear", "delete"} /\ UNCHANGED loc /\ collect'.h = collect.h
      BY <1>11 DEF GcDecr, SweepAt
    <2>2. KeepsBacked /\ LifecycleTypeOK /\ SweepInv' /\ collect.block \in Blocks
      BY <1>11, <2>1 DEF RemoteInv, CollectShape, SweepPcs, CoreInv
    <2>3. \A f \in Payloads \ deleted, s \in Slots, h \in Hashes :
            At(h, f, s) => (loc[h] # None => liveCount'[loc[h]] # 0)
      BY <1>11, <2>1, <2>2, Constants, SMTT(20)
      DEF LifecycleTypeOK, FilesInv, Spared, IsCondemned, SweepPcs, LiveIn, GcDecr, SweepAt,
          SweepInv
    <2> QED
      BY <1>1, <1>2, <1>3, <2>1, <2>2, <2>3, FilesSide
      DEF CondemnedKept, LocKept, FilesInv, Spared, IsCondemned, SweepPcs
  <1>12. CASE GcDeleteBlock
    BY <1>1, <1>12, PassFiles DEF GcDeleteBlock, SweepAt, meta, IsCondemned, SweepPcs, LocKept
  <1>13. CASE GcDropRecord
    BY <1>1, <1>13, DroppedCount, PassFiles
    DEF GcDropRecord, SweepAt, RemoteInv, CollectShape, SweepPcs, IsCondemned
  <1> QED
    BY <1>5, <1>6, <1>7, <1>8, <1>9, <1>10, <1>11, <1>12, <1>13 DEF Sweeper

-----------------------------------------------------------------------------
(* FilesInv: the carver *)

\* Of a chunk that is, or is about to be, part of a linked file, Spared says nothing new when
\* the collector and the blocks do not move.
LEMMA SparedSame ==
    ASSUME FilesInv, AtKept, UNCHANGED <<core, collect>>, deleted \subseteq deleted',
           \A f \in Payloads \ deleted', s \in Slots : rows'[f][s] = rows[f][s]
    PROVE  Spared'
  BY SMTT(20) DEF Spared, FilesInv, core, AtKept, IsCondemned

\* Contents stay distinct when files and blocks are left alone.
LEMMA OwnedSame ==
    ASSUME FilesInv, AtKept, UNCHANGED <<core, collect, written>>
    PROVE  Owned'
  BY OwnedStep DEF FilesInv, LocKept, CondemnedKept, core, IsCondemned

\* What the carver takes in hand is dirty and current.
LEMMA UploadBeginFiles ==
    ASSUME Sizes, RemoteInv, FilesInv, NEW g \in Payloads, UploadBegin(g)
    PROVE  FilesInv'
  <1>1. UNCHANGED <<core, collect, content, local, deleted, written, rows, unlink>>
    BY DEF UploadBegin, core, client, meta, objects
  <1>2. PICK S \in Runs(g) :
          upload' = [pc |-> "dedup", file |-> g, run |-> [s \in S |-> content[g][s]],
                     todo |-> S, novel |-> {}, current |-> S, block |-> None]
    BY DEF UploadBegin
  <1>3. /\ upload'.pc = "dedup" /\ upload'.file = g /\ DOMAIN upload'.run = S
        /\ \A s \in S : upload'.run[s] = content[g][s]
        /\ upload'.todo = S /\ upload'.current = S
    BY <1>2
  <1>4. AtKept
    BY <1>1, <1>3 DEF AtKept, At, Carving
  <1>5. InHandCurrent'
    BY <1>1, <1>3 DEF FilesInv, Unlinked, InHandCurrent, Carving, Runs, DirtySlots
  <1> QED
    BY <1>1, <1>4, <1>5, OwnedSame, SparedSame, CoreBacked, BackedStep
    DEF FilesInv, Unlinked, Manifested, AtKept, core

\* The carver moves on with the run it has in hand.
LEMMA CarveFiles ==
    ASSUME Sizes, RemoteInv, FilesInv, KeepsBacked, Carving, Carving', UNCHANGED <<client, rows, unlink>>,
           UNCHANGED <<loc, syncedAt, liveCount, collect>>,
           /\ upload'.file = upload.file /\ upload'.run = upload.run
           /\ upload'.current = upload.current,
           \A s \in DOMAIN upload.run :
              upload'.pc = "flip" \/ s \notin upload'.todo \cup upload'.novel =>
                \/ upload.pc = "flip" \/ s \notin upload.todo \cup upload.novel
                \/ loc[upload.run[s]] # None
    PROVE  FilesInv'
  <1>1. UNCHANGED <<content, local, deleted, written>>
    BY DEF client
  <1>2. /\ AtKept
        /\ \A f \in Payloads, s \in Slots, h \in Hashes : At(h, f, s)' <=> At(h, f, s)
    BY <1>1 DEF AtKept, At
  <1>3. Spared'
    BY <1>1, <1>2 DEF FilesInv, Spared, IsCondemned
  <1>4. ASSUME NEW s \in DOMAIN upload.run, upload.file \notin deleted, loc[upload.run[s]] # None
        PROVE  rows[upload.file][s] = upload.run[s]
    <2>1. At(upload.run[s], upload.file, s)
      BY DEF At
    <2> QED
      BY <1>4, <2>1 DEF FilesInv, Manifested, RemoteInv, UploadShape
  <1>5. InHandCurrent'
    BY <1>1, <1>4 DEF FilesInv, InHandCurrent
  <1> QED
    BY <1>1, <1>2, <1>3, <1>5, OwnedStep, BackedStep
    DEF FilesInv, LocKept, CondemnedKept, IsCondemned, Unlinked, Manifested

\* A chunk already on the remote gets its row before the flip.
LEMMA UploadDedupFiles ==
    ASSUME Sizes, RemoteInv, FilesInv, UploadDedup
    PROVE  FilesInv'
  <1>1. PICK s \in upload.todo :
          LET novel == IF loc[upload.run[s]] = None THEN upload.novel \cup {s} ELSE upload.novel
              pc == IF upload.todo # {s} THEN "dedup" ELSE IF novel = {} THEN "flip" ELSE "put"
          IN  upload' = Carve(pc, upload.todo \ {s}, novel, upload.current, None)
    BY DEF UploadDedup
  <1> QED
    BY <1>1, CarveFiles, CoreBacked DEF Carving, core, UploadDedup, meta, objects, Carve

\* An upload gives no locator yet.
LEMMA UploadPutFiles ==
    ASSUME Sizes, RemoteInv, RemoteInv', KeepsBacked, FilesInv, UploadPut
    PROVE  FilesInv'
  BY CarveFiles DEF UploadPut, meta, Carve, Carving, RemoteInv, UploadShape

\* The flip, and the failures, of an upload.
LEMMA UploadEndsFiles ==
    ASSUME Sizes, RemoteInv, FilesInv, UploadFlip \/ UploadFails
    PROVE  FilesInv'
  <1>1. UNCHANGED <<core, collect, content, deleted, written, rows, unlink>> /\ upload'.pc = "idle"
        /\ Carving
    BY SMTT(20) DEF UploadFlip, UploadFails, core, client, meta, objects, Inactive, Carving
  <1>2. AtKept
    BY <1>1 DEF AtKept, At, Carving
  <1>3. Owned' /\ Spared'
    BY <1>1, <1>2, OwnedSame, SparedSame
  <1>4. Manifested' /\ InHandCurrent'
    BY <1>1, <1>2, SMTT(20) DEF FilesInv, Manifested, AtKept, core, InHandCurrent, Carving
  <1>5. CASE UploadFails
    BY <1>1, <1>3, <1>4, <1>5, CoreBacked, BackedStep
    DEF UploadFails, client, FilesInv, Unlinked
  <1>6. CASE UploadFlip
    <2>1. upload.file \in Payloads /\ upload.pc = "flip" /\ upload.current \subseteq DOMAIN upload.run
          /\ \A s \in DOMAIN upload.run : upload.run[s] \in Hashes
      BY <1>1, <1>6 DEF UploadFlip, RemoteInv, UploadShape
    <2>2. \A f \in Payloads, s \in Slots : local'[f][s] # local[f][s] =>
            f = upload.file /\ s \in upload.current /\ local'[f][s] = "synced"
      BY <1>6, <2>1 DEF UploadFlip, RemoteInv, CoreInv, LifecycleTypeOK
    <2>3. \A s \in upload.current : /\ upload.file \notin deleted
                                    /\ content[upload.file][s] = upload.run[s]
                                    /\ rows[upload.file][s] = upload.run[s]
      BY <1>1, <2>1 DEF FilesInv, InHandCurrent
    <2>4. RowsBacked'
      BY <1>1, SMTT(20) DEF FilesInv, RowsBacked, LinkedHashes, Backed, core
    <2>5. SyncedRecoverable'
      <3>1. SUFFICES ASSUME NEW f \in Payloads, NEW s \in Slots, local'[f][s] = "synced"
                     PROVE  rows[f][s] = content[f][s] /\ Backed(content[f][s])
        BY <1>1 DEF SyncedRecoverable, Backed, core
      <3>2. CASE local[f][s] = "synced"
        BY <3>2, NeededSpared
      <3>3. CASE local[f][s] # "synced"
        <4>1. f \notin deleted /\ rows[f][s] = content[f][s] /\ rows[f][s] \in Hashes
          BY <2>1, <2>2, <2>3, <3>1, <3>3
        <4> QED
          BY <4>1, NeededSpared, Constants
      <3> QED
        BY <3>2, <3>3
    <2> QED
      BY <1>1, <1>3, <1>4, <2>2, <2>3, <2>4, <2>5, SMTT(20)
      DEF FilesInv, Unlinked, RemoteInv, CoreInv, LifecycleTypeOK
  <1> QED
    BY <1>5, <1>6

\* The commit of a block gives rows to the packed chunks of its file, overwritten since or not.
LEMMA UploadCommitFiles ==
    ASSUME Sizes, RemoteInv, RemoteInv', KeepsBacked, FilesInv, UploadCommit
    PROVE  FilesInv'
  <1> DEFINE c == upload.block
             g == upload.file
  <1>1. UNCHANGED <<object, now, collect, content, local, deleted, written, unlink>>
    BY DEF UploadCommit, objects, clock, client
  <1>2. /\ upload.pc = "commit" /\ Carving /\ upload'.pc = "flip" /\ upload'.file = g
        /\ upload'.run = upload.run /\ upload'.todo = {} /\ upload'.novel = upload.novel
        /\ upload'.current = upload.current
    BY DEF UploadCommit, Carve, Carving
  <1>3. /\ g \in Payloads /\ DOMAIN upload.run \subseteq Slots /\ upload.todo = {}
        /\ \A s \in DOMAIN upload.run : upload.run[s] \in Hashes
        /\ upload.novel \subseteq DOMAIN upload.run /\ upload.novel # {}
        /\ upload.current \subseteq DOMAIN upload.run
    BY <1>2 DEF RemoteInv, UploadShape
  <1>4. /\ Novel \in SUBSET Hashes /\ Cardinality(upload.novel) \in 0..Cardinality(Slots)
        /\ Cardinality(upload.novel) # 0
    BY <1>2, <1>3, NovelSmaller DEF RemoteInv
  <1>5. /\ LifecycleTypeOK /\ Pending(c, Novel) /\ CommitBlock(c, Novel, Cardinality(upload.novel))
        /\ \A h \in Novel : loc[h] = None
    BY <1>2 DEF RemoteInv, CoreInv, CarveInv, UploadCommit, Novel
  <1>6. c \in Blocks
    BY <1>5, Constants, SMTT(20) DEF Pending, Blocks, LifecycleTypeOK
  <1>7. /\ liveCount'[c] = Cardinality(upload.novel)
        /\ \A b \in Blocks : b # c => liveCount'[b] = liveCount[b]
        /\ \A h \in Hashes : /\ h \in Novel => loc'[h] = c /\ syncedAt'[h] = now
                             /\ h \notin Novel => loc'[h] = loc[h] /\ syncedAt'[h] = syncedAt[h]
    BY <1>4, <1>5, <1>6, CommitEffect, SMTT(20)
  <1>8. \A f \in Payloads, s \in Slots :
          rows'[f][s] = IF f = g /\ s \in upload.novel THEN upload.run[s] ELSE rows[f][s]
    BY <1>3, <1>5 DEF UploadCommit, LifecycleTypeOK
  <1>9. \A s \in DOMAIN upload.run : At(upload.run[s], g, s)
    BY <1>2 DEF At
  <1>10. AtKept
    BY <1>1, <1>2, <1>3, <1>8 DEF AtKept, At, Carving
  <1>11. \A h \in Novel : \E s \in upload.novel : h = upload.run[s]
    BY DEF Novel
  <1>12. Owned'
    BY <1>1, <1>3, <1>7, <1>9, <1>10, <1>11, SMTT(20) DEF FilesInv, Owned, IsCondemned, AtKept
  <1>13. ASSUME NEW h \in Novel, NEW f \in Payloads, NEW t \in Slots, At(h, f, t)
         PROVE  f = g /\ t \in upload.novel /\ h = upload.run[t]
    <2>1. PICK u \in upload.novel : h = upload.run[u]
      BY <1>11
    <2>2. f = g /\ t = u
      BY <1>3, <1>9, <1>13, <2>1 DEF FilesInv, Owned
    <2> QED
      BY <2>1, <2>2
  <1>14. Manifested'
    <2>1. SUFFICES ASSUME NEW f \in Payloads \ deleted, NEW s \in Slots, NEW h \in Hashes,
                          At(h, f, s)', loc'[h] # None
                   PROVE  rows'[f][s] = h
      BY <1>1 DEF Manifested
    <2>2. At(h, f, s)
      BY <1>10, <2>1 DEF AtKept
    <2>3. CASE h \in Novel
      BY <1>3, <1>8, <1>13, <2>2, <2>3
    <2>4. CASE h \notin Novel
      <3>1. rows[f][s] = h /\ loc[h] # None
        BY <1>7, <2>1, <2>2, <2>4 DEF FilesInv, Manifested
      <3>2. CASE f = g /\ s \in upload.novel
        <4>1. upload.run[s] # h
          BY <2>4, <3>2 DEF Novel
        <4>2. rows'[f][s] # h
          BY <1>8, <3>2, <4>1
        <4> QED
          BY <1>1, <1>2, <1>3, <2>1, <3>1, <3>2, <4>1, <4>2 DEF At, FilesInv, InHandCurrent
      <3> QED
        BY <1>8, <3>1, <3>2
    <2> QED
      BY <2>3, <2>4
  <1>15. InHandCurrent'
    <2>1. \A s \in DOMAIN upload.run : local[g][s] # "synced"
      BY <1>2 DEF FilesInv, InHandCurrent
    <2>2. g \in deleted => upload.current = {}
      BY <1>2 DEF FilesInv, InHandCurrent
    <2>3. ASSUME g \notin deleted, NEW s \in DOMAIN upload.run
          PROVE  /\ s \in upload.current => content[g][s] = upload.run[s]
                 /\ s \notin upload.current => /\ content[g][s] \in Hashes
                                               /\ content[g][s] # upload.run[s]
                                               /\ loc'[content[g][s]] = None
                 /\ rows'[g][s] = upload.run[s]
      <3>1. /\ s \in upload.current => content[g][s] = upload.run[s]
            /\ s \notin upload.current => /\ content[g][s] \in Hashes
                                          /\ content[g][s] # upload.run[s]
                                          /\ loc[content[g][s]] = None
            /\ s \notin upload.novel => rows[g][s] = upload.run[s]
        BY <1>2, <1>3, <2>3 DEF FilesInv, InHandCurrent
      <3>2. s \notin upload.current => content[g][s] \notin Novel
        BY <1>3, <1>13, <3>1 DEF At
      <3> QED
        BY <1>3, <1>7, <1>8, <3>1, <3>2
    <2> QED
      BY <1>1, <1>2, <2>1, <2>2, <2>3 DEF InHandCurrent
  <1>16. Spared'
    <2>1. ASSUME collect.pc \in {"hold", "sweep"}, NEW f \in Payloads \ deleted, NEW s \in Slots,
                 rows'[f][s] # None
          PROVE  rows'[f][s] \in collect.live \/ syncedAt'[rows'[f][s]] >= collect.cutoff
      <3>1. now >= collect.cutoff
        BY <1>5, <2>1, SMTT(20) DEF RemoteInv, CollectShape, LifecycleTypeOK
      <3>2. CASE f = g /\ s \in upload.novel
        <4>1. rows'[f][s] \in Novel
          BY <1>3, <1>8, <3>2 DEF Novel
        <4> QED
          BY <1>4, <1>7, <3>1, <4>1
      <3>3. CASE ~(f = g /\ s \in upload.novel)
        BY <1>5, <1>7, <1>8, <2>1, <3>1, <3>3, Constants, SMTT(20)
        DEF FilesInv, Spared, LifecycleTypeOK
      <3> QED
        BY <3>2, <3>3
    <2>2. ASSUME NEW f \in Payloads \ deleted, NEW s \in Slots, NEW h \in Hashes, At(h, f, s)'
          PROVE  ~IsCondemned(h) /\ (loc'[h] # None => liveCount'[loc'[h]] # 0)
      <3>1. ~IsCondemned(h) /\ (loc[h] # None => liveCount[loc[h]] # 0)
        BY <1>10, <2>2 DEF AtKept, FilesInv, Spared
      <3>2. CASE h \in Novel
        BY <1>4, <1>7, <3>1, <3>2
      <3>3. CASE h \notin Novel
        BY <1>5, <1>7, <3>1, <3>3, SMTT(20) DEF Pending, LiveIn, LifecycleTypeOK
      <3> QED
        BY <3>2, <3>3
    <2> QED
      BY <1>1, <2>1, <2>2 DEF Spared, IsCondemned
  <1>17. KeepsBacked /\ \A h \in Novel : Backed(h)'
    BY <1>1, <1>4, <1>5, <1>6, <1>7, Constants DEF Backed, Pending
  <1>18. RowsBacked'
    <2>1. SUFFICES ASSUME NEW f \in Payloads \ deleted, NEW s \in Slots, rows'[f][s] # None
                   PROVE  Backed(rows[f][s])'
      BY <1>1, SMTT(20) DEF RowsBacked, LinkedHashes
    <2>2. CASE f = g /\ s \in upload.novel
      BY <1>3, <1>8, <1>17, <2>2 DEF Novel, Backed
    <2>3. CASE ~(f = g /\ s \in upload.novel)
      <3>1. rows'[f][s] = rows[f][s] /\ rows[f][s] # None
        BY <1>8, <2>1, <2>3
      <3> QED
        BY <1>17, <3>1, NeededSpared DEF KeepsBacked, Backed
    <2> QED
      BY <2>2, <2>3
  <1>19. SyncedRecoverable'
    <2>1. SUFFICES ASSUME NEW f \in Payloads, NEW s \in Slots, local[f][s] = "synced"
                   PROVE  rows'[f][s] = content[f][s] /\ Backed(content[f][s])'
      BY <1>1 DEF SyncedRecoverable
    <2>2. ~(f = g /\ s \in upload.novel)
      BY <1>2, <1>3, <2>1 DEF FilesInv, InHandCurrent
    <2>3. /\ rows[f][s] = content[f][s] /\ content[f][s] \in Hashes /\ Backed(content[f][s])
          /\ ~IsCondemned(content[f][s])
      BY <2>1, NeededSpared
    <2> QED
      BY <1>1, <1>8, <1>17, <2>2, <2>3 DEF KeepsBacked, Backed
  <1> QED
    BY <1>1, <1>12, <1>14, <1>15, <1>16, <1>18, <1>19 DEF FilesInv, Unlinked

-----------------------------------------------------------------------------
(* FilesInv: clients and crashes *)

\* Without duplicates a write brings a content that nothing has seen.
LEMMA WriteFiles ==
    ASSUME Sizes, RemoteInv, FilesInv, Distinct, NEW f \in Payloads, NEW s \in Slots, NEW h \in Hashes,
           Write(f, s, h)
    PROVE  FilesInv'
  <1>1. UNCHANGED <<core, collect, deleted, rows, unlink>> /\ f \notin deleted
    BY DEF Write, core, meta, objects
  <1>2. h = written + 1 /\ written \in Nat /\ written' = h
    BY Constants, SMTT(20) DEF Write, Distinct, RemoteInv, CoreInv, LifecycleTypeOK
  <1>3. \A g \in Payloads, t \in Slots :
          /\ content'[g][t] = IF g = f /\ t = s THEN h ELSE content[g][t]
          /\ local'[g][t] = IF g = f /\ t = s THEN "dirty" ELSE local[g][t]
    BY DEF Write, RemoteInv, CoreInv, LifecycleTypeOK
  <1>4. /\ Carving' <=> Carving
        /\ Carving => /\ upload'.file = upload.file /\ upload'.run = upload.run
                      /\ upload'.pc = upload.pc
                      /\ upload'.todo = upload.todo /\ upload'.novel = upload.novel
                      /\ upload'.current = IF upload.file = f THEN upload.current \ {s}
                                           ELSE upload.current
    BY DEF Write, Overwritten, Carve, Carving
  <1>5. \A g \in Payloads, t \in Slots, k \in Hashes :
          At(k, g, t)' => At(k, g, t) \/ (k = h /\ g = f /\ t = s)
    BY <1>1, <1>3, <1>4 DEF At
  <1>6. /\ \A g \in Payloads, t \in Slots, k \in Hashes : At(k, g, t) => k # h /\ k <= written
        /\ loc[h] = None /\ ~IsCondemned(h)
    BY <1>2, Constants, SMTT(20) DEF FilesInv, Owned
  <1>7. \A k : IsCondemned(k)' <=> IsCondemned(k)
    BY <1>1 DEF IsCondemned
  <1>8. Owned'
    BY <1>1, <1>2, <1>5, <1>6, <1>7, Constants, SMTT(20) DEF FilesInv, Owned, core
  <1>9. Unlinked'
    BY <1>1, <1>3, SMTT(20) DEF FilesInv, Unlinked, RemoteInv, CoreInv, LifecycleTypeOK
  <1>10. Manifested'
    BY <1>1, <1>5, <1>6, SMTT(20) DEF FilesInv, Manifested, core
  <1>11. Spared'
    BY <1>1, <1>5, <1>6, <1>7 DEF FilesInv, Spared, core
  <1>12. InHandCurrent'
    <2>1. SUFFICES ASSUME Carving
                   PROVE  InHandCurrent'
      BY <1>4 DEF InHandCurrent
    <2>2. /\ upload.file \in Payloads /\ DOMAIN upload.run \subseteq Slots
          /\ \A t \in DOMAIN upload.run : upload.run[t] \in Hashes /\ upload.run[t] # h
      BY <1>6, <2>1 DEF RemoteInv, UploadShape, At
    <2>3. ASSUME upload.file \notin deleted, NEW t \in DOMAIN upload.run
          PROVE  /\ t \in upload'.current => content'[upload.file][t] = upload.run[t]
                 /\ t \notin upload'.current => /\ content'[upload.file][t] \in Hashes
                                                /\ content'[upload.file][t] # upload.run[t]
                                                /\ loc[content'[upload.file][t]] = None
                 /\ upload.pc = "flip" \/ t \notin upload.todo \cup upload.novel =>
                      rows[upload.file][t] = upload.run[t]
      <3>1. /\ t \in upload.current => content[upload.file][t] = upload.run[t]
            /\ t \notin upload.current => /\ content[upload.file][t] \in Hashes
                                          /\ content[upload.file][t] # upload.run[t]
                                          /\ loc[content[upload.file][t]] = None
            /\ upload.pc = "flip" \/ t \notin upload.todo \cup upload.novel =>
                 rows[upload.file][t] = upload.run[t]
        BY <2>1, <2>3 DEF FilesInv, InHandCurrent
      <3>2. CASE upload.file = f /\ t = s
        BY <1>3, <1>4, <1>6, <2>1, <2>2, <3>1, <3>2
      <3>3. CASE ~(upload.file = f /\ t = s)
        BY <1>3, <1>4, <2>1, <2>2, <3>1, <3>3
      <3> QED
        BY <3>2, <3>3
    <2> QED
      BY <1>1, <1>3, <1>4, <2>1, <2>2, <2>3, SMTT(20) DEF InHandCurrent, core, FilesInv
  <1> QED
    BY <1>1, <1>3, <1>8, <1>9, <1>10, <1>11, <1>12, SMTT(20)
    DEF FilesInv, RowsBacked, LinkedHashes, Backed, core, SyncedRecoverable

\* An unlinked file needs nothing.
LEMMA UnlinkBeginFiles ==
    ASSUME Sizes, RemoteInv, FilesInv, NEW f \in Payloads, UnlinkBegin(f)
    PROVE  FilesInv'
  <1>1. /\ UNCHANGED <<core, collect, written, rows>> /\ deleted' = deleted \cup {f}
        /\ unlink'.pc = "reap" /\ unlink'.file = f
    BY DEF UnlinkBegin, core, meta, objects
  <1>2. \A g \in Payloads, t \in Slots :
          /\ content'[g][t] = IF g = f THEN None ELSE content[g][t]
          /\ local'[g][t] = IF g = f THEN "none" ELSE local[g][t]
    BY DEF UnlinkBegin, NoHashes, RemoteInv, CoreInv, LifecycleTypeOK
  <1>3. /\ Carving' <=> Carving
        /\ Carving => /\ upload'.file = upload.file /\ upload'.run = upload.run
                      /\ upload'.pc = upload.pc
                      /\ upload'.todo = upload.todo /\ upload'.novel = upload.novel
                      /\ upload'.current = IF upload.file = f THEN upload.current \ Slots
                                           ELSE upload.current
    BY DEF UnlinkBegin, Overwritten, Carve, Carving
  <1>4. AtKept
    BY <1>1, <1>2, <1>3, Constants, SMTT(20) DEF AtKept, At
  <1>5. Owned' /\ Spared'
    BY <1>1, <1>4, OwnedSame, SparedSame
  <1>6. InHandCurrent'
    BY <1>1, <1>2, <1>3, SMTT(20) DEF InHandCurrent, RemoteInv, UploadShape, FilesInv, core
  <1>7. RowsBacked'
    BY <1>1, SMTT(20) DEF FilesInv, RowsBacked, LinkedHashes, Backed, core
  <1>8. SyncedRecoverable'
    BY <1>1, <1>2, SMTT(20) DEF FilesInv, SyncedRecoverable, Backed, core
  <1> QED
    BY <1>1, <1>2, <1>4, <1>5, <1>6, <1>7, <1>8, SMTT(20)
    DEF FilesInv, Unlinked, RemoteInv, CoreInv, LifecycleTypeOK, Manifested, AtKept, core

\* The rows of an unlinked file are reaped slot by slot.
LEMMA UnlinkReapFiles ==
    ASSUME Sizes, RemoteInv, FilesInv, UnlinkReap
    PROVE  FilesInv'
  <1>1. UNCHANGED <<core, collect, content, local, deleted, written, upload>>
    BY DEF UnlinkReap, core, client, objects
  <1>2. unlink.file \in deleted /\ unlink.file \in Payloads /\ unlink.todo \subseteq Slots
    BY DEF UnlinkReap, FilesInv, Unlinked, RemoteInv, UnlinkShape
  <1>3. unlink'.pc = "idle" \/ (unlink'.pc = "reap" /\ unlink'.file = unlink.file)
    <2>1. CASE unlink' = Inactive
      BY <2>1 DEF Inactive
    <2>2. CASE \E s \in unlink.todo :
                 unlink' = [pc |-> "reap", file |-> unlink.file, todo |-> unlink.todo \ {s}]
      BY <2>2, SMTT(20)
    <2> QED
      BY <2>1, <2>2 DEF UnlinkReap
  <1>4. \A f \in Payloads, s \in Slots :
          rows'[f][s] = rows[f][s] \/ (f = unlink.file /\ rows'[f][s] = None)
    <2>1. CASE UNCHANGED rows
      BY <2>1
    <2>2. CASE \E t \in unlink.todo : rows' = [rows EXCEPT ![unlink.file][t] = None]
      BY <1>2, <2>2, SMTT(20) DEF RemoteInv, CoreInv, LifecycleTypeOK
    <2> QED
      BY <2>1, <2>2 DEF UnlinkReap
  <1>5. \A f \in Payloads \ deleted, s \in Slots : rows'[f][s] = rows[f][s]
    BY <1>2, <1>4
  <1>6. AtKept
    BY <1>1, <1>4, Constants, SMTT(20) DEF AtKept, At, Carving
  <1>7. Owned' /\ Spared'
    BY <1>1, <1>5, <1>6, OwnedSame, SparedSame
  <1>8. Manifested'
    BY <1>1, <1>5, <1>6, SMTT(20) DEF FilesInv, Manifested, AtKept, core
  <1>9. InHandCurrent'
    BY <1>1, <1>5, SMTT(20) DEF RemoteInv, UploadShape, FilesInv, InHandCurrent, Carving, core
  <1>10. RowsBacked'
    BY <1>1, <1>5, SMTT(20) DEF FilesInv, RowsBacked, LinkedHashes, Backed, core
  <1>11. SyncedRecoverable'
    BY <1>1, <1>5, SMTT(20) DEF FilesInv, Unlinked, SyncedRecoverable, Backed, core
  <1> QED
    BY <1>1, <1>2, <1>3, <1>7, <1>8, <1>9, <1>10, <1>11 DEF FilesInv, Unlinked

\* A crash forgets the run in hand; what was local and dirty is dirty again.
LEMMA CrashFiles ==
    ASSUME RemoteInv, FilesInv, LifecycleCrash
    PROVE  FilesInv'
  <1>1. /\ UNCHANGED <<core, content, deleted, written, rows>>
        /\ upload'.pc = "idle" /\ unlink'.pc = "idle" /\ collect'.pc = "idle"
    BY DEF LifecycleCrash, core, meta, objects, Inactive
  <1>2. \A f \in Payloads, s \in Slots :
          local'[f][s] = local[f][s] \/ (local[f][s] = "synced" /\ local'[f][s] = "dirty")
    <2>1. PICK lost \in SUBSET {fs \in Payloads \X Slots : local[fs[1]][fs[2]] = "synced"} :
            local' = [f \in Payloads |-> [s \in Slots |->
                        IF <<f, s>> \in lost THEN "dirty" ELSE local[f][s]]]
      BY DEF LifecycleCrash
    <2> QED
      BY <2>1
  <1>3. AtKept
    BY <1>1 DEF AtKept, At, Carving
  <1>4. \A h : ~IsCondemned(h)'
    BY <1>1 DEF IsCondemned, SweepPcs
  <1>5. Owned'
    BY <1>1, <1>3, <1>4, OwnedStep DEF FilesInv, LocKept, CondemnedKept, core
  <1>6. Unlinked'
    BY <1>1, <1>2, SMTT(20) DEF FilesInv, Unlinked, RemoteInv, CoreInv, LifecycleTypeOK
  <1>7. RowsBacked'
    BY <1>1, SMTT(20) DEF FilesInv, RowsBacked, LinkedHashes, Backed, core
  <1> QED
    BY <1>1, <1>2, <1>3, <1>4, <1>5, <1>6, <1>7, SMTT(20)
    DEF FilesInv, Spared, AtKept, core, Manifested, InHandCurrent, Carving, SyncedRecoverable,
        Backed

-----------------------------------------------------------------------------
(* The invariant and what follows from it *)

\* No content, nothing to lose.
LEMMA FilesInit ==
    ASSUME Sizes, LifecycleInit
    PROVE  FilesInv
  <1>1. upload.pc = "idle" /\ unlink.pc = "idle" /\ collect.pc = "idle" /\ ~Carving
    BY DEF LifecycleInit, Inactive, Carving
  <1>2. \A f \in Payloads, s \in Slots :
          rows[f][s] = None /\ content[f][s] = None /\ local[f][s] = "none"
    BY DEF LifecycleInit, NoHashes
  <1>3. /\ \A f \in Payloads, s \in Slots, h \in Hashes : ~At(h, f, s)
        /\ \A h : ~IsCondemned(h)
    BY <1>1, <1>2, Constants DEF At, IsCondemned, SweepPcs
  <1>4. RowsBacked /\ SyncedRecoverable
    BY <1>2, SMTT(20) DEF RowsBacked, LinkedHashes, SyncedRecoverable
  <1> QED
    BY <1>1, <1>3, <1>4
    DEF FilesInv, LifecycleInit, Owned, Manifested, Spared, Unlinked, InHandCurrent

\* Every step keeps FilesInv.
LEMMA FilesStep ==
    ASSUME Sizes, RemoteInv, RemoteInv', KeepsBacked, FilesInv, Distinct, LifecycleNext
    PROVE  FilesInv'
  <1>1. CASE Clients
    BY <1>1, WriteFiles, UnlinkBeginFiles DEF Clients
  <1>2. CASE Uploader
    BY <1>2, UploadDedupFiles, UploadPutFiles, UploadCommitFiles, UploadEndsFiles,
       UploadBeginFiles
    DEF Uploader
  <1> QED
    BY <1>1, <1>2, UnlinkReapFiles, SweeperFiles, CompactorFiles, ReconcilerFiles,
       SnapshotsFiles, CrashFiles
    DEF LifecycleNext

\* Nothing happens to the files.
LEMMA FilesStutter ==
    ASSUME Sizes, RemoteInv, FilesInv, UNCHANGED lifecycleVars
    PROVE  FilesInv'
  BY QuietFiles DEF lifecycleVars, core, meta, objects
=============================================================================
