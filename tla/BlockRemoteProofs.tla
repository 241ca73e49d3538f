-------------------------- MODULE BlockRemoteProofs --------------------------
(***************************************************************************)
(* Every step keeps RemoteInv (see BlockInvariants), and no step takes away *)
(* a chunk that can be read and that no sweep has condemned.               *)
(***************************************************************************)
EXTENDS BlockFilesProofs

\* Zenon proves the steps that name no other prover.
USE ZenonT(20)

-----------------------------------------------------------------------------
(* Frames: each part of the invariant and the variables it is about *)

\* CoreInv is about the block store, the metadata of blocks and the clock.
LEMMA CoreFrame ==
    ASSUME CoreInv, UNCHANGED <<core, now>>, LifecycleTypeOK'
    PROVE  CoreInv'
  BY SMTT(20)
  DEF CoreInv, core, Stamped, Minting, Unused, Counts, Covered, Recorded, LiveIn,
      BackedRecorded, Spent

\* The carver's part is about its own state and the blocks.
LEMMA UploadFrame ==
    ASSUME UploadShape, CarveInv, UNCHANGED <<core, now, upload>>
    PROVE  (UploadShape /\ CarveInv)'
  BY DEF UploadShape, CarveInv, core, Pending, Novel, LiveIn, Carving

\* The collector's part is about its own state and the blocks.
LEMMA CollectFrame ==
    ASSUME CollectShape, SweepInv, CompactInv, UNCHANGED <<core, now, collect>>
    PROVE  (CollectShape /\ SweepInv /\ CompactInv)'
  BY SMTT(20) DEF CollectShape, SweepInv, CompactInv, core, Pending, Spent, Recorded, LiveIn

\* The part of reconcile is about its own state and the blocks.
LEMMA ReconFrame ==
    ASSUME ReconShape, ReconInv, UNCHANGED <<core, now, recon>>
    PROVE  (ReconShape /\ ReconInv)'
  BY SMTT(20) DEF ReconShape, ReconInv, core, Spent, Recorded, LiveIn

\* The snapshot's part is about its manifest and the blocks.
LEMMA SnapFrame ==
    ASSUME SnapShape, SnapshotKept, UNCHANGED <<core, snapshot>>
    PROVE  (SnapShape /\ SnapshotKept)'
  BY DEF SnapShape, SnapshotKept, core, Backed

\* The hold is about the manifest and the running sweep.
LEMMA HoldFrame ==
    ASSUME Holding, UNCHANGED <<collect, snapshot>>
    PROVE  Holding'
  BY DEF Holding, HasManifest, IsCondemned

-----------------------------------------------------------------------------
(* RemoteInv: the steps that leave the blocks alone *)

\* A write under a running upload drops slots from its current ones and changes nothing else.
LEMMA OverwriteKeeps ==
    ASSUME UploadShape, CarveInv, Apart, NEW f, NEW slots, upload' = Overwritten(f, slots),
           UNCHANGED <<core, now, collect, recon>>
    PROVE  (UploadShape /\ CarveInv /\ Apart)'
  <1>1. CASE upload' = upload
    BY <1>1, UploadFrame DEF Apart
  <1>2. CASE /\ Carving
             /\ upload' = Carve(upload.pc, upload.todo, upload.novel,
                                upload.current \ slots, upload.block)
    BY <1>2, SMTT(20)
    DEF Carve, UploadShape, Carving, CarveInv, core, Pending, Novel, LiveIn, Apart
  <1> QED
    BY <1>1, <1>2 DEF Overwritten, Carving

\* Writes, unlinks and the steps of the carver that only move the carver.
LEMMA ClientSide ==
    ASSUME RemoteInv, LifecycleTypeOK', UploadShape', CarveInv', UnlinkShape', Filled', Apart',
           UNCHANGED <<core, now, collect, recon, snapshot>>
    PROVE  RemoteInv'
  BY CoreFrame, CollectFrame, ReconFrame, SnapFrame, HoldFrame DEF RemoteInv

\* Write: the bytes are local, no block changes.
LEMMA WriteRemote ==
    ASSUME Sizes, RemoteInv, NEW f \in Payloads, NEW s \in Slots, NEW h \in Hashes, Write(f, s, h)
    PROVE  RemoteInv'
  <1>1. written' \in 0..MaxHashes
    BY Constants, SMTT(20) DEF RemoteInv, CoreInv, LifecycleTypeOK, Write, Hashes
  <1>2. Filled'
    BY DEF Write, RemoteInv, CoreInv, LifecycleTypeOK, Overwritten, Carve, Carving, UploadShape,
           Filled
  <1> QED
    BY <1>1, <1>2, ClientSide, OverwriteKeeps
    DEF RemoteInv, Write, UnlinkShape, CoreInv, LifecycleTypeOK, core, meta, objects, clock

\* Unlinking a file drops what is local of it.
LEMMA UnlinkBeginRemote ==
    ASSUME RemoteInv, NEW f \in Payloads, UnlinkBegin(f)
    PROVE  RemoteInv'
  <1>1. Filled'
    BY DEF UnlinkBegin, RemoteInv, CoreInv, LifecycleTypeOK, Overwritten, Carve, Carving,
           UploadShape, Filled
  <1> QED
    BY <1>1, ClientSide, OverwriteKeeps
    DEF RemoteInv, UnlinkBegin, UnlinkShape, CoreInv, LifecycleTypeOK, core, NoHashes, meta,
        objects, clock

\* Reaping the rows of an unlinked file touches the manifest alone.
LEMMA UnlinkReapRemote ==
    ASSUME RemoteInv, UnlinkReap
    PROVE  RemoteInv'
  <1>1. UnlinkShape' /\ rows' \in [Payloads -> [Slots -> Hashes \cup {None}]]
    <2>1. CASE unlink' = Inactive /\ UNCHANGED rows
      BY <2>1 DEF Inactive, UnlinkShape, RemoteInv, CoreInv, LifecycleTypeOK
    <2>2. ASSUME NEW s \in unlink.todo,
                 rows' = [rows EXCEPT ![unlink.file][s] = None],
                 unlink' = [pc |-> "reap", file |-> unlink.file, todo |-> unlink.todo \ {s}]
          PROVE  UnlinkShape' /\ rows' \in [Payloads -> [Slots -> Hashes \cup {None}]]
      BY <2>2 DEF UnlinkShape, RemoteInv, CoreInv, LifecycleTypeOK, UnlinkReap
    <2> QED
      BY <2>1, <2>2 DEF UnlinkReap
  <1> QED
    BY <1>1, ClientSide, UploadFrame
    DEF RemoteInv, Apart, CoreInv, LifecycleTypeOK, core, Filled, Carving, UnlinkReap, client,
        objects, clock

\* The steps of the carver that change neither the blocks nor the files.
LEMMA CarverSide ==
    ASSUME RemoteInv, UploadShape', CarveInv', Filled', upload'.pc # "commit",
           UNCHANGED <<core, now, collect, recon, snapshot, unlink, restarts, client, rows>>
    PROVE  RemoteInv'
  BY ClientSide DEF RemoteInv, CoreInv, LifecycleTypeOK, core, client, UnlinkShape, Apart

\* The carver takes a run of dirty slots in hand.
LEMMA UploadBeginRemote ==
    ASSUME RemoteInv, NEW f \in Payloads, UploadBegin(f)
    PROVE  RemoteInv'
  <1>1. PICK S \in Runs(f) :
          upload' = [pc |-> "dedup", file |-> f, run |-> [s \in S |-> content[f][s]],
                     todo |-> S, novel |-> {}, current |-> S, block |-> None]
    BY DEF UploadBegin
  <1>2. S \subseteq Slots /\ S # {} /\ \A s \in S : local[f][s] # "none"
    BY DEF Runs, DirtySlots
  <1> QED
    BY <1>1, <1>2, CarverSide
    DEF UploadShape, Carving, RemoteInv, Filled, CarveInv, client, UploadBegin, core, meta,
        objects, clock

\* The dedup lookup finds a locator, or adds the slot to the novel ones.
LEMMA UploadDedupRemote ==
    ASSUME RemoteInv, UploadDedup
    PROVE  RemoteInv'
  <1>1. PICK s \in upload.todo :
          LET novel == IF loc[upload.run[s]] = None THEN upload.novel \cup {s} ELSE upload.novel
              pc == IF upload.todo # {s} THEN "dedup" ELSE IF novel = {} THEN "flip" ELSE "put"
          IN  upload' = Carve(pc, upload.todo \ {s}, novel, upload.current, None)
    BY DEF UploadDedup
  <1>2. /\ upload.pc = "dedup" /\ Carving /\ s \in DOMAIN upload.run
        /\ upload'.file = upload.file /\ upload'.run = upload.run
        /\ upload'.todo = upload.todo \ {s} /\ upload'.current = upload.current
        /\ \/ upload'.novel = upload.novel \cup {s} /\ loc[upload.run[s]] = None
           \/ upload'.novel = upload.novel
        /\ \/ upload'.pc = "dedup" /\ upload.todo # {s}
           \/ upload'.pc = "flip" /\ upload.todo = {s}
           \/ upload'.pc = "put" /\ upload.todo = {s} /\ upload'.novel # {}
    BY <1>1 DEF Carve, UploadDedup, Carving, RemoteInv, UploadShape
  <1> QED
    BY <1>2, CarverSide
    DEF UploadShape, Carving, RemoteInv, CarveInv, core, Filled, client, UploadDedup, meta,
        objects, clock

\* The flip marks what is still current as synced.
LEMMA UploadFlipRemote ==
    ASSUME RemoteInv, UploadFlip
    PROVE  RemoteInv'
  <1>1. UNCHANGED <<core, now, collect, recon, snapshot, unlink, restarts, content, deleted,
                    written, rows>>
    BY DEF UploadFlip, core, meta, objects, clock
  <1>2. upload' = Inactive /\ upload'.pc = "idle" /\ Carving /\ upload.file \in Payloads
    BY DEF UploadFlip, Inactive, Carving, RemoteInv, UploadShape
  <1>3. Filled'
    BY <1>1, <1>2 DEF RemoteInv, Filled, Carving, UploadFlip, CoreInv, LifecycleTypeOK
  <1> QED
    BY <1>1, <1>2, <1>3, ClientSide
    DEF UploadShape, CarveInv, Apart, UnlinkShape, Carving, RemoteInv, CoreInv, LifecycleTypeOK,
        core, UploadFlip

\* A failed upload leaves the carver idle.
LEMMA UploadFailsRemote ==
    ASSUME RemoteInv, UploadFails
    PROVE  RemoteInv'
  <1>1. upload'.pc = "idle"
    BY DEF UploadFails, Inactive
  <1> QED
    BY <1>1, CarverSide
    DEF UploadShape, CarveInv, Filled, Carving, RemoteInv, client, UploadFails, core, meta,
        objects, clock

-----------------------------------------------------------------------------
(* RemoteInv: the steps that only move the sweep or the compaction *)

\* The steps of the collector that only move the collector.
LEMMA CollectorSide ==
    ASSUME RemoteInv, (CollectShape /\ SweepInv /\ CompactInv /\ Holding)',
           collect'.pc # "newcommit", recon.pc \in {"idle", "walked"},
           UNCHANGED <<core, now, upload, unlink, recon, snapshot, client, rows, restarts>>
    PROVE  RemoteInv'
  BY CoreFrame, UploadFrame, ReconFrame, SnapFrame
  DEF RemoteInv, CoreInv, LifecycleTypeOK, core, client, UnlinkShape, Filled, Carving, Apart

\* The mark phase gathers the hashes of the linked rows.
LEMMA GcMarkRemote ==
    ASSUME RemoteInv, GcMark
    PROVE  RemoteInv'
  <1>1. UNCHANGED <<core, now, upload, unlink, recon, snapshot, client, rows, restarts>>
    BY DEF GcMark, core, meta, objects, clock
  <1>2. collect'.pc = "hold" /\ collect'.cutoff = now /\ collect'.live = RowHashes
    BY DEF GcMark
  <1>3. CollectShape'
    BY <1>1, <1>2, SMTT(20)
    DEF CollectShape, SweepPcs, CompactPcs, RemoteInv, CoreInv, LifecycleTypeOK, RowHashes
  <1> QED
    BY <1>1, <1>2, <1>3, CollectorSide
    DEF GcMark, LockFree, SweepInv, CompactInv, Holding, IsCondemned, SweepPcs, CompactPcs

\* While a collection runs, reconcile deletes nothing: remoteGCLock.
LEMMA LockHeld ==
    ASSUME RemoteInv, collect.pc # "idle"
    PROVE  recon.pc \in {"idle", "walked"}
  BY DEF RemoteInv, Apart

\* The hold adds the manifests of the snapshots to the live hashes.
LEMMA GcHoldRemote ==
    ASSUME RemoteInv, GcHold
    PROVE  RemoteInv'
  <1>1. UNCHANGED <<core, now, upload, unlink, recon, snapshot, client, rows, restarts>>
    BY DEF GcHold, core, meta, objects, clock
  <1>2. collect.pc = "hold" /\ collect'.pc = "sweep" /\ collect'.cutoff = collect.cutoff
        /\ collect'.live = collect.live \cup Held
    BY DEF GcHold
  <1>3. (SweepInv /\ CompactInv)'
    BY <1>2 DEF SweepInv, CompactInv, SweepPcs, CompactPcs
  <1> QED
    BY <1>1, <1>2, <1>3, CollectorSide, LockHeld
    DEF GcHold, CollectShape, SweepPcs, CompactPcs, RemoteInv, Held, HasManifest, SnapShape,
        Holding, IsCondemned

\* The sweep turns to its next hash, having condemned no more than before.
LEMMA NextHash ==
    ASSUME RemoteInv, collect.pc # "idle", collect'.pc = "next", collect'.todo \subseteq Hashes,
           \A h \in collect'.todo : \/ IsCondemned(h)
                                    \/ collect.pc = "sweep" /\ h \notin collect.live,
           UNCHANGED <<core, now, upload, unlink, recon, snapshot, client, rows, restarts>>
    PROVE  RemoteInv'
  <1>1. Holding'
    BY DEF HasManifest, RemoteInv, SnapShape, Holding, IsCondemned, SweepPcs
  <1> QED
    BY <1>1, LockHeld, CollectorSide
    DEF CollectShape, SweepPcs, CompactPcs, SweepInv, CompactInv

\* A failed mark sweeps nothing.
LEMMA GcMarkFailsRemote ==
    ASSUME RemoteInv, GcMarkFails
    PROVE  RemoteInv'
  BY NextHash DEF GcMarkFails, core, meta, objects, clock

\* The sweep condemns the synced hashes that are neither live nor young.
LEMMA GcEnumerateRemote ==
    ASSUME RemoteInv, GcEnumerate
    PROVE  RemoteInv'
  BY NextHash DEF GcEnumerate, core, meta, objects, clock

\* A failed call of the sweep goes on with the next hash.
LEMMA SweepFailsRemote ==
    ASSUME RemoteInv, SweepFails
    PROVE  RemoteInv'
  BY NextHash
  DEF SweepFails, core, meta, objects, clock, RemoteInv, CollectShape, SweepPcs, IsCondemned,
      Swept

\* The sweep looks up the block of its next hash and decides how to retire it.
LEMMA GcPickRemote ==
    ASSUME Sizes, RemoteInv, NEW h \in Hashes, GcPick(h)
    PROVE  RemoteInv'
  <1>1. UNCHANGED <<core, now, upload, unlink, recon, snapshot, client, rows, restarts>>
    BY DEF GcPick, core, meta, objects, clock
  <1>2. collect.pc = "next" /\ h \in collect.todo /\ collect.todo \subseteq Hashes
        /\ loc[h] \in Blocks \cup {None}
    BY DEF GcPick, RemoteInv, CollectShape, CoreInv, LifecycleTypeOK
  <1>3. CASE loc[h] = None
    BY <1>1, <1>2, <1>3, NextHash DEF GcPick, IsCondemned
  <1>4. CASE loc[h] # None
    <2>1. loc[h] \in Blocks /\ liveCount[loc[h]] \in 0..Cardinality(Slots) \cup {NoRecord}
          /\ h \in LiveIn(loc[h])
      BY <1>2, <1>4 DEF RemoteInv, CoreInv, LifecycleTypeOK, LiveIn
    <2>2. /\ collect'.todo = collect.todo \ {h} /\ collect'.h = h /\ collect'.block = loc[h]
          /\ \/ collect'.pc = "clear" /\ liveCount[loc[h]] = NoRecord
             \/ collect'.pc = "unmark" /\ liveCount[loc[h]] > 1
             \/ collect'.pc = "decr" /\ liveCount[loc[h]] # NoRecord /\ ~(liveCount[loc[h]] > 1)
      BY <1>4, Constants, SMTT(20) DEF GcPick, Sweeping
    <2>3. collect'.pc = "decr" => LiveIn(loc[h]) = {h} /\ liveCount[loc[h]] <= 1
      BY <2>1, <2>2, Constants, LiveFinite, AtMostOneElement, SMTT(20)
      DEF Recorded, RemoteInv, CoreInv, Counts, Covered
    <2>4. SweepInv'
      BY <1>1, <2>1, <2>2, <2>3, Constants, SMTT(20) DEF core, LiveIn, Recorded, SweepInv
    <2>5. Holding'
      BY <1>1, <1>2, <2>2 DEF HasManifest, RemoteInv, SnapShape, Holding, IsCondemned, SweepPcs
    <2> QED
      BY <1>1, <1>2, <2>1, <2>2, <2>4, <2>5, CollectorSide, LockHeld
      DEF CompactInv, CompactPcs, SweepPcs, CollectShape
  <1> QED
    BY <1>3, <1>4

\* A step into or within the compaction, which condemns nothing.
LEMMA CompactorSide ==
    ASSUME RemoteInv, collect.pc # "idle", (CollectShape /\ CompactInv)',
           collect'.pc \in {"idle", "compact", "newput", "olddelete", "olddrop"},
           UNCHANGED <<core, now, upload, unlink, recon, snapshot, client, rows, restarts>>
    PROVE  RemoteInv'
  BY LockHeld, CollectorSide DEF CompactPcs, SweepInv, Holding, IsCondemned, SweepPcs

\* The sweep ends and compaction looks at the recorded blocks.
LEMMA GcDoneRemote ==
    ASSUME RemoteInv, GcDone
    PROVE  RemoteInv'
  BY CompactorSide
  DEF GcDone, core, meta, objects, clock, CollectShape, CompactInv, SweepPcs, CompactPcs,
      Inactive, Recorded

\* A failed call of the compaction goes on with the next block.
LEMMA CompactFailsRemote ==
    ASSUME RemoteInv, CompactFails
    PROVE  RemoteInv'
  BY CompactorSide
  DEF CompactFails, core, meta, objects, clock, CollectShape, CompactInv, SweepPcs, CompactPcs,
      Compacted, RemoteInv

\* The compaction ends.
LEMMA CompactDoneRemote ==
    ASSUME RemoteInv, CompactDone
    PROVE  RemoteInv'
  BY CompactorSide
  DEF CompactDone, core, meta, objects, clock, CollectShape, CompactInv, SweepPcs, CompactPcs,
      Inactive

\* Compaction takes a block and lists its chunks that can still be read.
LEMMA CompactPickRemote ==
    ASSUME RemoteInv, NEW b \in Blocks, CompactPick(b)
    PROVE  RemoteInv'
  <1> DEFINE moved == LiveIn(b) \cap object[b]
  <1>1. collect.pc = "compact" /\ collect.todo \subseteq Blocks /\ object[b] \subseteq Hashes
    BY DEF CompactPick, RemoteInv, CollectShape, CoreInv, LifecycleTypeOK
  <1>2. moved = {h \in object[b] : loc[h] = b}
    BY <1>1 DEF LiveIn
  <1>3. \/ collect'.pc = "compact" /\ collect'.todo \subseteq Blocks
        \/ /\ collect'.old = b /\ collect'.todo \subseteq Blocks /\ collect'.moved = moved
           /\ liveCount[b] # NoRecord
           /\ \/ collect'.pc = "olddrop" /\ object[b] = {}
              \/ collect'.pc = "olddelete" /\ moved = {}
              \/ collect'.pc = "newput" /\ moved # {}
    BY <1>1 DEF Skipped, Compacting, CompactPick
  <1> QED
    BY <1>1, <1>2, <1>3, CompactorSide
    DEF CollectShape, SweepPcs, CompactPcs, CompactInv, Recorded, Spent, core, CompactPick,
        meta, objects, clock

-----------------------------------------------------------------------------
(* RemoteInv: the steps that only move reconcile *)

\* The steps of reconcile that only move reconcile.
LEMMA ReconSide ==
    ASSUME RemoteInv, (ReconShape /\ ReconInv)',
           recon'.pc \in {"idle", "walked"} \/ collect.pc = "idle",
           UNCHANGED <<core, now, upload, unlink, collect, snapshot, client, rows, restarts>>
    PROVE  RemoteInv'
  <1>1. CoreInv'
    BY CoreFrame DEF RemoteInv, CoreInv, LifecycleTypeOK, core, client
  <1> QED
    BY <1>1, UploadFrame, CollectFrame, SnapFrame, HoldFrame
    DEF RemoteInv, UnlinkShape, Filled, Carving, client, Apart

\* Reconcile lists the records.
LEMMA ReconWalkRemote ==
    ASSUME RemoteInv, ReconWalk
    PROVE  RemoteInv'
  BY ReconSide DEF ReconShape, ReconInv, Recorded, core, ReconWalk, meta, objects, clock

\* Reconcile takes the lock and lists the records that count nothing.
LEMMA ReclaimWalkRemote ==
    ASSUME RemoteInv, ReclaimWalk
    PROVE  RemoteInv'
  BY ReconSide
  DEF ReconShape, ReconInv, Recorded, core, RemoteInv, ReclaimWalk, meta, objects, clock,
      LockFree

\* Reconcile drops from its list the blocks that a locator names.
LEMMA ReclaimLiveRemote ==
    ASSUME RemoteInv, ReclaimLive
    PROVE  RemoteInv'
  <1>1. UNCHANGED <<core, now, upload, unlink, collect, snapshot, client, rows, restarts>>
    BY DEF ReclaimLive, core, meta, objects, clock
  <1>2. /\ recon.pc = "live" /\ recon'.pc = "records" /\ recon'.known = recon.known
        /\ recon'.todo = {b \in recon.todo : LiveIn(b) = {}}
    BY DEF ReclaimLive
  <1>3. (ReconShape /\ ReconInv)'
    BY <1>1, <1>2 DEF ReconShape, ReconInv, Recorded, LiveIn, core, RemoteInv
  <1> QED
    BY <1>1, <1>2, <1>3, ReconSide, ReconLock

\* Reconcile lists the objects that are old and have no record.
LEMMA OrphanWalkRemote ==
    ASSUME Sizes, RemoteInv, OrphanWalk
    PROVE  RemoteInv'
  <1>1. recon.pc = "records" /\ recon'.pc = "orphans" /\ recon'.todo = Orphans
    BY DEF OrphanWalk
  <1>2. ASSUME NEW b \in Orphans
        PROVE  b \in Blocks /\ b <= minted /\ putAt[b] < now /\ Spent(b)
    BY <1>1, Constants, SMTT(20)
    DEF Orphans, RemoteInv, CoreInv, Minting, Unused, LifecycleTypeOK, ReconInv, Recorded,
        BackedRecorded
  <1> QED
    BY <1>1, <1>2, ReconSide, ReconLock
    DEF ReconShape, ReconInv, Spent, core, OrphanWalk, meta, objects, clock

\* A failed call of reconcile goes on with the next block.
LEMMA ReclaimFailsRemote ==
    ASSUME RemoteInv, ReclaimFails
    PROVE  RemoteInv'
  <1>1. UNCHANGED <<core, now, upload, unlink, collect, snapshot, client, rows, restarts>>
    BY DEF ReclaimFails, core, meta, objects, clock
  <1>2. \/ /\ recon.pc \in {"records", "recorddrop"} /\ recon'.pc = "records"
           /\ recon'.known = recon.known /\ recon'.todo \subseteq recon.todo
        \/ recon.pc = "orphans" /\ recon'.pc = "orphans" /\ recon'.todo \subseteq recon.todo
    BY SMTT(20) DEF ReclaimFails, ReclaimNext
  <1>3. (ReconShape /\ ReconInv)'
    BY <1>1, <1>2, SMTT(20) DEF ReconShape, ReconInv, Recorded, LiveIn, Spent, core, RemoteInv
  <1> QED
    BY <1>1, <1>2, <1>3, ReconSide, ReconLock

\* Reconcile ends.
LEMMA ReconDoneRemote ==
    ASSUME RemoteInv, ReconDone
    PROVE  RemoteInv'
  BY ReconSide DEF ReconDone, core, meta, objects, clock, ReconShape, ReconInv, Inactive

-----------------------------------------------------------------------------
(* RemoteInv: snapshots, time and crashes *)

\* The steps of the snapshot that only move the snapshot.
LEMMA SnapSide ==
    ASSUME RemoteInv, (SnapShape /\ SnapshotKept /\ Holding)',
           UNCHANGED <<core, now, upload, unlink, collect, recon, client, rows, restarts>>
    PROVE  RemoteInv'
  <1>1. CoreInv'
    BY CoreFrame DEF RemoteInv, CoreInv, LifecycleTypeOK, core, client
  <1> QED
    BY <1>1, UploadFrame, CollectFrame, ReconFrame
    DEF RemoteInv, UnlinkShape, Filled, Carving, client, Apart

\* A snapshot is drained, dumped, written as a manifest, verified, and deleted.
LEMMA SnapshotsRemote ==
    ASSUME RemoteInv, Snapshots
    PROVE  RemoteInv'
  <1>1. UNCHANGED <<core, now, upload, unlink, collect, recon, client, rows, restarts>>
    BY DEF Snapshots, SnapDrain, SnapDump, SnapManifest, SnapVerify, SnapDelete, core, meta,
           objects, clock
  <1>2. CASE SnapDrain \/ SnapDelete
    BY <1>1, <1>2, SnapSide, SMTT(20)
    DEF SnapDrain, SnapDelete, SnapShape, SnapshotKept, Holding, HasManifest
  <1>3. CASE SnapDump
    <2>1. (SnapShape /\ SnapshotKept /\ Holding)'
      BY <1>3, SMTT(20)
      DEF SnapShape, SnapshotKept, Holding, HasManifest, SnapDump, RowHashes, RemoteInv,
          CoreInv, LifecycleTypeOK
    <2> QED
      BY <1>1, <2>1, SnapSide
  <1>4. CASE SnapManifest
    BY <1>1, <1>4, SnapSide
    DEF SnapManifest, SnapShape, SnapshotKept, RemoteInv, Holding, IsCondemned, SweepPcs
  <1>5. CASE SnapVerify
    BY <1>1, <1>5, SnapSide
    DEF SnapVerify, Written, SnapShape, SnapshotKept, RemoteInv, Backed, core, Holding,
        HasManifest, IsCondemned
  <1> QED
    BY <1>2, <1>3, <1>4, <1>5 DEF Snapshots

\* A grace period passes, with no reconcile pass under way.
LEMMA TickRemote ==
    ASSUME Sizes, RemoteInv, Timely, Tick
    PROVE  RemoteInv'
  <1>1. /\ UNCHANGED <<core, upload, unlink, collect, recon, snapshot, client, rows, restarts>>
        /\ now' = now + 1 /\ now < MaxNow
    BY DEF Tick, core, meta, objects
  <1>2. recon.pc = "idle" /\ upload.pc # "commit" /\ collect.pc # "newcommit"
    BY DEF Tick, Timely
  <1>3. LifecycleTypeOK' /\ now \in Nat
    BY <1>1, Constants, SMTT(20) DEF RemoteInv, CoreInv, LifecycleTypeOK, core, client
  <1>4. Stamped'
    BY <1>1, <1>3, Constants, SMTT(20) DEF RemoteInv, CoreInv, LifecycleTypeOK, Stamped, core
  <1>5. CoreInv'
    BY <1>1, <1>3, <1>4, SMTT(20)
    DEF RemoteInv, CoreInv, core, Minting, Unused, Counts, Covered, Recorded, LiveIn,
        BackedRecorded, Spent
  <1>6. (UploadShape /\ CarveInv /\ UnlinkShape /\ Filled /\ Apart)'
    BY <1>1, <1>2
    DEF RemoteInv, UploadShape, CarveInv, UnlinkShape, Filled, Carving, client, Apart, core
  <1>7. (SweepInv /\ CompactInv)'
    BY <1>1, <1>2 DEF RemoteInv, SweepInv, CompactInv, Spent, Recorded, LiveIn, core
  <1>8. (SnapShape /\ SnapshotKept /\ Holding)'
    BY <1>1, SnapFrame, HoldFrame DEF RemoteInv
  <1> QED
    BY <1>1, <1>2, <1>3, <1>5, <1>6, <1>7, <1>8, SMTT(20)
    DEF RemoteInv, CollectShape, ReconShape, ReconInv

\* A crash ends the passes; the blocks, the records and the manifests stay.
LEMMA CrashRemote ==
    ASSUME Sizes, RemoteInv, LifecycleCrash
    PROVE  RemoteInv'
  <1>1. UNCHANGED <<core, now, content, deleted, written, rows>>
    BY DEF LifecycleCrash, core, meta, objects
  <1>2. upload'.pc = "idle" /\ unlink'.pc = "idle" /\ collect'.pc = "idle" /\ recon'.pc = "idle"
    BY DEF LifecycleCrash, Inactive
  <1>3. PICK lost \in SUBSET {fs \in Payloads \X Slots : local[fs[1]][fs[2]] = "synced"} :
          local' = [f \in Payloads |-> [s \in Slots |->
                      IF <<f, s>> \in lost THEN "dirty" ELSE local[f][s]]]
    BY DEF LifecycleCrash
  <1>4. LifecycleTypeOK'
    BY <1>1, <1>3, Constants, SMTT(20)
    DEF RemoteInv, CoreInv, LifecycleTypeOK, core, LifecycleCrash
  <1>5. (UploadShape /\ CarveInv /\ UnlinkShape /\ Apart)'
    BY <1>2 DEF UploadShape, CarveInv, UnlinkShape, Carving, Apart
  <1>6. Filled'
    BY <1>1, <1>2, <1>3 DEF Filled, Carving, RemoteInv
  <1>7. (CollectShape /\ SweepInv /\ CompactInv /\ ReconShape /\ ReconInv)'
    BY <1>2 DEF CollectShape, SweepInv, CompactInv, ReconShape, ReconInv, SweepPcs, CompactPcs
  <1>8. SnapShape' /\ SnapshotKept'
    BY <1>1 DEF SnapShape, SnapshotKept, Backed, RemoteInv, core, LifecycleCrash, Written
  <1>9. Holding'
    BY <1>2 DEF Holding, IsCondemned, SweepPcs
  <1> QED
    BY <1>1, <1>4, <1>5, <1>6, <1>7, <1>8, <1>9, CoreFrame DEF RemoteInv

-----------------------------------------------------------------------------
(* RemoteInv: the steps that change the blocks *)

\* A step that keeps what can be read keeps the chunks of a snapshot.
LEMMA SnapshotStep ==
    ASSUME RemoteInv, KeepsBacked, UNCHANGED snapshot
    PROVE  (SnapShape /\ SnapshotKept)'
  <1>1. ASSUME snapshot.pc = "ready", snapshot.quiet, NEW h \in snapshot.hashes
        PROVE  Backed(h)'
    BY <1>1 DEF RemoteInv, SnapShape, SnapshotKept, Holding, HasManifest, KeepsBacked
  <1> QED
    BY <1>1 DEF SnapshotKept, RemoteInv, SnapShape

\* A step that leaves files and carver alone keeps what is said of them.
LEMMA FilesSame ==
    ASSUME RemoteInv, UNCHANGED <<client, upload, unlink>>
    PROVE  UnlinkShape' /\ Filled'
  BY DEF RemoteInv, UnlinkShape, Filled, Carving, client

\* A block that was never used.
LEMMA FreshBlock ==
    ASSUME Sizes, RemoteInv, minted + 1 \in Blocks
    PROVE  /\ object[minted + 1] = {} /\ liveCount[minted + 1] = NoRecord
           /\ \A h \in Hashes : loc[h] # minted + 1
  BY Constants, SMTT(20) DEF RemoteInv, CoreInv, Minting, Unused, LiveIn, LifecycleTypeOK

\* Filling a fresh block disturbs no other block.
LEMMA PutCore ==
    ASSUME Sizes, RemoteInv, NEW hs \in SUBSET Hashes, PutBlock(hs),
           UNCHANGED <<loc, syncedAt, liveCount, now, client, rows, restarts>>
    PROVE  CoreInv' /\ KeepsBacked
  <1>1. LifecycleTypeOK
    BY DEF RemoteInv, CoreInv
  <1>2. /\ minted + 1 \in Blocks /\ minted' = minted + 1
        /\ object'[minted + 1] = hs /\ putAt'[minted + 1] = now
        /\ \A b \in Blocks : b # minted + 1 => object'[b] = object[b] /\ putAt'[b] = putAt[b]
    BY <1>1, PutEffect
  <1>3. \A h \in Hashes : loc[h] # minted + 1
    BY <1>2, FreshBlock
  <1>4. Stamped'
    BY <1>1, <1>2, SMTT(20) DEF LifecycleTypeOK, RemoteInv, CoreInv, Stamped
  <1>5. Minting'
    BY <1>1, <1>2, Constants, SMTT(20)
    DEF LifecycleTypeOK, RemoteInv, CoreInv, Minting, Unused, LiveIn
  <1>6. Counts'
    BY DEF RemoteInv, CoreInv, Counts, Covered, Recorded, LiveIn
  <1>7. BackedRecorded'
    BY <1>2, <1>3 DEF RemoteInv, CoreInv, BackedRecorded, Spent
  <1>8. KeepsBacked
    BY <1>1, <1>2, <1>3, Constants DEF KeepsBacked, Backed, LifecycleTypeOK
  <1> QED
    BY <1>1, <1>4, <1>5, <1>6, <1>7, <1>8, PutEffect DEF CoreInv, LifecycleTypeOK, client

\* Filling a fresh block is no business of reconcile: the block is young.
LEMMA PutRecon ==
    ASSUME Sizes, RemoteInv, NEW hs \in SUBSET Hashes, PutBlock(hs),
           UNCHANGED <<loc, syncedAt, liveCount, now, recon>>
    PROVE  (ReconShape /\ ReconInv)'
  <1>1. LifecycleTypeOK
    BY DEF RemoteInv, CoreInv
  <1>2. /\ minted + 1 \in Blocks /\ minted' = minted + 1 /\ minted \in Nat
        /\ liveCount[minted + 1] = NoRecord
        /\ \A b \in Blocks : b # minted + 1 => object'[b] = object[b] /\ putAt'[b] = putAt[b]
    BY <1>1, PutEffect, FreshBlock, Constants, SMTT(20) DEF LifecycleTypeOK
  <1> QED
    BY <1>2, SMTT(20) DEF ReconInv, RemoteInv, ReconShape, Blocks, Spent, LiveIn, Recorded

\* The carver uploads its block.
LEMMA UploadPutRemote ==
    ASSUME Sizes, RemoteInv, UploadPut
    PROVE  RemoteInv' /\ KeepsBacked
  <1>1. UNCHANGED <<loc, syncedAt, liveCount, now, client, rows, restarts, unlink, collect,
                    recon, snapshot>>
    BY DEF UploadPut, meta, clock
  <1>2. /\ upload.pc = "put" /\ Carving /\ upload'.pc = "commit" /\ upload'.file = upload.file
        /\ upload'.run = upload.run /\ upload'.novel = upload.novel /\ upload'.todo = {}
        /\ upload'.current = upload.current /\ upload'.block = minted + 1
    BY DEF UploadPut, Carve, Carving
  <1>3. Novel \in SUBSET Hashes /\ Novel' = Novel
    BY <1>2, NovelSmaller DEF RemoteInv, Novel
  <1>4. PutBlock(Novel) /\ LifecycleTypeOK /\ minted \in Nat
    BY Constants, SMTT(20) DEF UploadPut, RemoteInv, CoreInv, LifecycleTypeOK
  <1>5. /\ minted + 1 \in Blocks /\ minted' = minted + 1
        /\ object'[minted + 1] = Novel /\ putAt'[minted + 1] = now
        /\ \A b \in Blocks : b # minted + 1 => object'[b] = object[b] /\ putAt'[b] = putAt[b]
    BY <1>3, <1>4, PutEffect
  <1>6. CoreInv' /\ KeepsBacked
    BY <1>1, <1>3, <1>4, PutCore
  <1>7. liveCount[minted + 1] = NoRecord /\ \A h \in Hashes : loc[h] # minted + 1
    BY <1>5, FreshBlock
  <1>8. UploadShape' /\ Filled' /\ UnlinkShape'
    BY <1>1, <1>2 DEF RemoteInv, UploadShape, Carving, Filled, UnlinkShape, client
  <1>9. CarveInv'
    BY <1>1, <1>2, <1>3, <1>4, <1>5, <1>7, SMTT(20) DEF Pending, LiveIn, RemoteInv, CarveInv
  <1>10. (CollectShape /\ SweepInv /\ CompactInv)'
    <2>1. collect.pc = "newcommit" => Pending(collect.block, collect.moved)'
      <3>1. SUFFICES ASSUME collect.pc = "newcommit"
                     PROVE  Pending(collect.block, collect.moved)'
        OBVIOUS
      <3>2. Pending(collect.block, collect.moved) /\ collect.block \in Blocks
            /\ collect.block # minted + 1
        BY <1>4, <3>1, Constants, SMTT(20)
        DEF RemoteInv, CompactInv, Pending, Blocks, LifecycleTypeOK
      <3> QED
        BY <1>1, <1>4, <1>5, <3>2, SMTT(20) DEF Pending, LiveIn
    <2> QED
      BY <1>1, <1>5, <1>7, <2>1, SMTT(20)
      DEF RemoteInv, CollectShape, SweepInv, LiveIn, CompactInv, Spent, CompactPcs, Recorded
  <1>11. (ReconShape /\ ReconInv)'
    BY <1>1, <1>3, <1>4, PutRecon
  <1>12. Apart'
    BY <1>1, <1>2, <1>4, SMTT(20) DEF RemoteInv, Apart, CompactInv, Pending
  <1>13. (SnapShape /\ SnapshotKept /\ Holding)'
    BY <1>1, <1>6, SnapshotStep, HoldFrame DEF RemoteInv
  <1> QED
    BY <1>6, <1>8, <1>9, <1>10, <1>11, <1>12, <1>13 DEF RemoteInv

\* Compaction uploads the block it moves chunks to.
LEMMA CompactPutRemote ==
    ASSUME Sizes, RemoteInv, CompactPut
    PROVE  RemoteInv' /\ KeepsBacked
  <1>1. UNCHANGED <<loc, syncedAt, liveCount, now, client, rows, restarts, unlink, upload,
                    recon, snapshot>>
    BY DEF CompactPut, meta, clock
  <1>2. /\ collect.pc = "newput" /\ collect'.pc = "newcommit" /\ collect'.todo = collect.todo
        /\ collect'.old = collect.old /\ collect'.moved = collect.moved
        /\ collect'.block = minted + 1
    BY DEF CompactPut, CompactAt
  <1>3. collect.moved \in SUBSET Hashes
    BY <1>2 DEF RemoteInv, CollectShape, CompactPcs
  <1>4. PutBlock(collect.moved) /\ LifecycleTypeOK /\ minted \in Nat
    BY Constants, SMTT(20) DEF CompactPut, RemoteInv, CoreInv, LifecycleTypeOK
  <1>5. /\ minted + 1 \in Blocks /\ minted' = minted + 1
        /\ object'[minted + 1] = collect.moved /\ putAt'[minted + 1] = now
        /\ \A b \in Blocks : b # minted + 1 => object'[b] = object[b] /\ putAt'[b] = putAt[b]
    BY <1>3, <1>4, PutEffect
  <1>6. CoreInv' /\ KeepsBacked
    BY <1>1, <1>3, <1>4, PutCore
  <1>7. liveCount[minted + 1] = NoRecord /\ \A h \in Hashes : loc[h] # minted + 1
    BY <1>5, FreshBlock
  <1>8. UnlinkShape' /\ Filled'
    BY <1>1, FilesSame
  <1>9. (UploadShape /\ CarveInv)'
    <2>1. upload.pc = "commit" => Pending(upload.block, Novel)'
      <3>1. SUFFICES ASSUME upload.pc = "commit"
                     PROVE  Pending(upload.block, Novel)'
        OBVIOUS
      <3>2. Pending(upload.block, Novel) /\ upload.block \in Blocks /\ upload.block # minted + 1
        BY <1>4, <3>1, Constants, SMTT(20)
        DEF RemoteInv, CarveInv, Pending, Blocks, LifecycleTypeOK
      <3> QED
        BY <1>1, <1>4, <1>5, <3>2, SMTT(20) DEF Pending, LiveIn, Novel
    <2> QED
      BY <1>1, <2>1 DEF RemoteInv, CarveInv, UploadShape, Carving
  <1>10. (CollectShape /\ SweepInv /\ CompactInv)'
    BY <1>1, <1>2, <1>4, <1>5, <1>7, SMTT(20)
    DEF Recorded, RemoteInv, CompactInv, CompactPcs, CollectShape, SweepInv, SweepPcs, Pending,
        LiveIn
  <1>11. (ReconShape /\ ReconInv)'
    BY <1>1, <1>3, <1>4, PutRecon
  <1>12. Apart'
    BY <1>1, <1>2, <1>4, SMTT(20) DEF RemoteInv, Apart, CarveInv, Pending
  <1>13. (SnapShape /\ SnapshotKept)'
    BY <1>1, <1>6, SnapshotStep
  <1>14. Holding'
    BY <1>2 DEF Holding, IsCondemned, SweepPcs
  <1> QED
    BY <1>6, <1>8, <1>9, <1>10, <1>11, <1>12, <1>13, <1>14 DEF RemoteInv

\* Deleting an object from which nothing can be read but what the sweep condemned, and which
\* no commit is waiting for.
LEMMA DeleteKeeps ==
    ASSUME Sizes, RemoteInv, NEW c \in Blocks, DeleteObject(c),
           upload.pc = "commit" => c # upload.block,
           \A h \in Hashes : loc[h] = c /\ h \in object[c] => IsCondemned(h),
           UNCHANGED <<loc, syncedAt, liveCount, now, client, rows, restarts, unlink, upload,
                       snapshot>>
    PROVE  /\ CoreInv' /\ (UploadShape /\ CarveInv)' /\ UnlinkShape' /\ Filled'
           /\ (SnapShape /\ SnapshotKept)'
           /\ KeepsBacked
  <1>1. LifecycleTypeOK
    BY DEF RemoteInv, CoreInv
  <1>2. /\ minted' = minted /\ object'[c] = {} /\ putAt'[c] = 0
        /\ \A b \in Blocks : b # c => object'[b] = object[b] /\ putAt'[b] = putAt[b]
    BY <1>1, DeleteEffect
  <1>3. LifecycleTypeOK'
    BY <1>1, DeleteEffect DEF LifecycleTypeOK, client
  <1>4. Stamped'
    BY <1>1, <1>2, SMTT(20) DEF LifecycleTypeOK, RemoteInv, CoreInv, Stamped
  <1>5. Minting'
    BY <1>2, SMTT(20) DEF RemoteInv, CoreInv, Minting, Unused, LiveIn
  <1>6. Counts'
    BY DEF RemoteInv, CoreInv, Counts, Covered, Recorded, LiveIn
  <1>7. BackedRecorded'
    BY <1>2 DEF RemoteInv, CoreInv, BackedRecorded, Spent
  <1>8. KeepsBacked
    BY <1>1, <1>2, Constants DEF KeepsBacked, Backed, LifecycleTypeOK
  <1>9. (SnapShape /\ SnapshotKept)'
    BY <1>8, SnapshotStep
  <1>10. UnlinkShape' /\ Filled'
    BY FilesSame
  <1>11. UploadShape'
    BY DEF RemoteInv, UploadShape, Carving
  <1>12. upload.pc = "commit" => Pending(upload.block, Novel)'
    <2>1. SUFFICES ASSUME upload.pc = "commit"
                   PROVE  Pending(upload.block, Novel)'
      OBVIOUS
    <2>2. Pending(upload.block, Novel) /\ upload.block \in Blocks /\ upload.block # c
      BY <1>1, <2>1, Constants, SMTT(20)
      DEF RemoteInv, CarveInv, Pending, Blocks, LifecycleTypeOK
    <2>3. Novel' = Novel
      BY DEF Novel
    <2> QED
      BY <1>2, <2>2, <2>3 DEF Pending, LiveIn
  <1>13. CarveInv'
    BY <1>12 DEF RemoteInv, CarveInv
  <1> QED
    BY <1>3, <1>4, <1>5, <1>6, <1>7, <1>8, <1>9, <1>10, <1>11, <1>13 DEF CoreInv

\* Dropping the record of a block whose object is gone.
LEMMA DropKeeps ==
    ASSUME Sizes, RemoteInv, NEW c \in Blocks, object[c] = {},
           liveCount' = [liveCount EXCEPT ![c] = NoRecord],
           UNCHANGED <<loc, syncedAt, object, putAt, minted, now, client, rows, restarts, unlink,
                       upload, snapshot>>
    PROVE  /\ CoreInv' /\ (UploadShape /\ CarveInv)' /\ UnlinkShape' /\ Filled'
           /\ (SnapShape /\ SnapshotKept)'
           /\ KeepsBacked
           /\ Recorded' = Recorded \ {c}
  <1>1. LifecycleTypeOK
    BY DEF RemoteInv, CoreInv
  <1>2. /\ liveCount'[c] = NoRecord
        /\ \A b \in Blocks : b # c => liveCount'[b] = liveCount[b]
        /\ liveCount' \in [Blocks -> 0..Cardinality(Slots) \cup {NoRecord}]
    BY <1>1, CountEffect
  <1>3. Recorded' = Recorded \ {c}
    BY <1>2 DEF Recorded
  <1>4. LifecycleTypeOK'
    BY <1>1, <1>2 DEF LifecycleTypeOK, client
  <1>5. Stamped'
    BY DEF RemoteInv, CoreInv, Stamped
  <1>6. Minting'
    BY <1>2, SMTT(20) DEF RemoteInv, CoreInv, Minting, Unused, LiveIn
  <1>7. Counts'
    BY <1>2, <1>3 DEF RemoteInv, CoreInv, Counts, Covered, Recorded, LiveIn
  <1>8. BackedRecorded'
    BY <1>2 DEF RemoteInv, CoreInv, BackedRecorded, Spent
  <1>9. KeepsBacked
    BY DEF KeepsBacked, Backed
  <1>10. (SnapShape /\ SnapshotKept)' /\ UnlinkShape' /\ Filled'
    BY <1>9, SnapshotStep, FilesSame
  <1>11. UploadShape'
    BY DEF RemoteInv, UploadShape, Carving
  <1>12. upload.pc = "commit" => Pending(upload.block, Novel)'
    <2>1. SUFFICES ASSUME upload.pc = "commit"
                   PROVE  Pending(upload.block, Novel)'
      OBVIOUS
    <2>2. Novel' = Novel
      BY DEF Novel
    <2> QED
      BY <1>1, <1>2, <2>1, <2>2, Constants, SMTT(20)
      DEF Pending, LiveIn, RemoteInv, CarveInv, Blocks, LifecycleTypeOK
  <1>13. CarveInv'
    BY <1>12 DEF RemoteInv, CarveInv
  <1> QED
    BY <1>3, <1>4, <1>5, <1>6, <1>7, <1>8, <1>9, <1>10, <1>11, <1>13 DEF CoreInv

\* A walk of the records that has not taken the lock yet only cares for recorded objects.
LEMMA WalkedKeeps ==
    ASSUME RemoteInv, recon.pc \in {"idle", "walked"}, UNCHANGED <<recon, now>>,
           \A b \in Recorded' : object'[b] # {} =>
             \/ putAt'[b] = now
             \/ b \in Recorded /\ object[b] # {} /\ putAt'[b] = putAt[b]
    PROVE  (ReconShape /\ ReconInv)'
  BY DEF RemoteInv, ReconShape, ReconInv

\* No commit waits for a block with a record.
LEMMA PendingUnrecorded ==
    ASSUME RemoteInv, NEW c \in Recorded
    PROVE  upload.pc = "commit" => c # upload.block
  BY DEF RemoteInv, CarveInv, Pending, Recorded

\* The sweep deletes the object of a block whose last chunk it retires.
LEMMA GcDeleteBlockRemote ==
    ASSUME Sizes, RemoteInv, GcDeleteBlock
    PROVE  RemoteInv' /\ KeepsBacked
  <1>1. UNCHANGED <<loc, syncedAt, liveCount, now, client, rows, restarts, unlink, upload, recon,
                    snapshot>>
    BY DEF GcDeleteBlock, meta, clock
  <1>2. /\ collect.pc = "delete" /\ collect'.pc = "drop" /\ collect'.todo = collect.todo
        /\ collect'.h = collect.h /\ collect'.block = collect.block
    BY DEF GcDeleteBlock, SweepAt
  <1>3. /\ collect.block \in Recorded /\ LiveIn(collect.block) \subseteq {collect.h}
        /\ collect.block \in Blocks /\ collect.h \in Hashes /\ collect.todo \subseteq Hashes
    BY <1>2 DEF RemoteInv, SweepInv, CollectShape, SweepPcs
  <1>4. DeleteObject(collect.block) /\ LifecycleTypeOK
    BY DEF GcDeleteBlock, RemoteInv, CoreInv
  <1>5. /\ CoreInv' /\ (UploadShape /\ CarveInv)' /\ UnlinkShape' /\ Filled'
        /\ (SnapShape /\ SnapshotKept)' /\ KeepsBacked
    BY <1>1, <1>2, <1>3, <1>4, DeleteKeeps, PendingUnrecorded DEF LiveIn, IsCondemned, SweepPcs
  <1>6. object'[collect.block] = {}
        /\ \A b \in Blocks : b # collect.block => object'[b] = object[b] /\ putAt'[b] = putAt[b]
    BY <1>3, <1>4, DeleteEffect
  <1>7. (ReconShape /\ ReconInv)'
    BY <1>1, <1>2, <1>6, LockHeld, WalkedKeeps DEF Recorded
  <1>8. (CollectShape /\ SweepInv /\ CompactInv)'
    BY <1>1, <1>2, <1>3, <1>6
    DEF CollectShape, SweepInv, CompactInv, SweepPcs, CompactPcs, Recorded, LiveIn
  <1>9. Apart'
    BY <1>1, <1>2, LockHeld DEF Apart
  <1>10. Holding'
    BY <1>1, <1>2 DEF RemoteInv, Holding, IsCondemned, HasManifest, SweepPcs
  <1> QED
    BY <1>5, <1>7, <1>8, <1>9, <1>10 DEF RemoteInv

\* The sweep drops the record of a block it has deleted.
LEMMA GcDropRecordRemote ==
    ASSUME Sizes, RemoteInv, GcDropRecord
    PROVE  RemoteInv' /\ KeepsBacked
  <1>1. UNCHANGED <<loc, syncedAt, object, putAt, minted, now, client, rows, restarts, unlink,
                    upload, recon, snapshot>>
    BY DEF GcDropRecord, objects, clock
  <1>2. /\ collect.pc = "drop" /\ collect'.pc = "lastunmark" /\ collect'.todo = collect.todo
        /\ collect'.h = collect.h /\ collect'.block = collect.block
    BY DEF GcDropRecord, SweepAt
  <1>3. /\ object[collect.block] = {}
        /\ collect.block \in Blocks /\ collect.h \in Hashes /\ collect.todo \subseteq Hashes
    BY <1>2 DEF RemoteInv, SweepInv, CollectShape, SweepPcs
  <1>4. (CollectShape /\ SweepInv /\ CompactInv)'
    BY <1>1, <1>2, <1>3 DEF CollectShape, SweepInv, CompactInv, SweepPcs, CompactPcs
  <1>5. Holding'
    BY <1>1, <1>2 DEF RemoteInv, Holding, IsCondemned, HasManifest, SweepPcs
  <1> QED
    BY <1>1, <1>2, <1>3, <1>4, <1>5, LockHeld, WalkedKeeps, DropKeeps
    DEF RemoteInv, Apart, GcDropRecord

\* Compaction deletes the old object, once nothing in it can be read.
LEMMA CompactDeleteRemote ==
    ASSUME Sizes, RemoteInv, CompactDelete
    PROVE  RemoteInv' /\ KeepsBacked
  <1>1. UNCHANGED <<loc, syncedAt, liveCount, now, client, rows, restarts, unlink, upload, recon,
                    snapshot>>
    BY DEF CompactDelete, meta, clock
  <1>2. /\ collect.pc = "olddelete" /\ collect'.pc = "olddrop" /\ collect'.todo = collect.todo
        /\ collect'.old = collect.old /\ collect'.moved = collect.moved
    BY DEF CompactDelete, CompactAt
  <1>3. /\ collect.old \in Recorded /\ Spent(collect.old)
        /\ collect.old \in Blocks /\ collect.moved \subseteq Hashes /\ collect.todo \subseteq Blocks
    BY <1>2 DEF RemoteInv, CompactInv, CollectShape, CompactPcs
  <1>4. DeleteObject(collect.old) /\ LifecycleTypeOK
    BY DEF CompactDelete, RemoteInv, CoreInv
  <1>5. object'[collect.old] = {}
        /\ \A b \in Blocks : b # collect.old => object'[b] = object[b] /\ putAt'[b] = putAt[b]
    BY <1>3, <1>4, DeleteEffect
  <1>6. (ReconShape /\ ReconInv)'
    BY <1>1, <1>2, <1>5, LockHeld, WalkedKeeps DEF Recorded
  <1>7. (CollectShape /\ SweepInv /\ CompactInv)'
    BY <1>1, <1>2, <1>3, <1>5
    DEF CollectShape, SweepInv, CompactInv, SweepPcs, CompactPcs, Recorded
  <1>8. Apart' /\ Holding'
    BY <1>1, <1>2, LockHeld DEF Apart, Holding, IsCondemned, SweepPcs
  <1> QED
    BY <1>1, <1>3, <1>4, <1>6, <1>7, <1>8, DeleteKeeps, PendingUnrecorded DEF RemoteInv, Spent

\* Compaction drops the record of the old block.
LEMMA CompactDropRemote ==
    ASSUME Sizes, RemoteInv, CompactDrop
    PROVE  RemoteInv' /\ KeepsBacked
  <1>1. UNCHANGED <<loc, syncedAt, object, putAt, minted, now, client, rows, restarts, unlink,
                    upload, recon, snapshot>>
    BY DEF CompactDrop, objects, clock
  <1>2. collect.pc = "olddrop" /\ collect'.pc = "compact" /\ collect'.todo = collect.todo
    BY DEF CompactDrop, Compacted
  <1>3. object[collect.old] = {} /\ collect.old \in Blocks /\ collect.todo \subseteq Blocks
    BY <1>2 DEF RemoteInv, CompactInv, CollectShape, CompactPcs
  <1>4. /\ CoreInv' /\ (UploadShape /\ CarveInv)' /\ UnlinkShape' /\ Filled'
        /\ (SnapShape /\ SnapshotKept)' /\ KeepsBacked
        /\ Recorded' = Recorded \ {collect.old}
    BY <1>1, <1>3, DropKeeps DEF CompactDrop
  <1>5. (ReconShape /\ ReconInv)'
    BY <1>1, <1>2, <1>4, LockHeld, WalkedKeeps
  <1>6. (CollectShape /\ SweepInv /\ CompactInv)'
    BY <1>2, <1>3 DEF CollectShape, SweepInv, CompactInv, SweepPcs, CompactPcs
  <1>7. Apart' /\ Holding'
    BY <1>1, <1>2, LockHeld DEF Apart, Holding, IsCondemned, SweepPcs
  <1> QED
    BY <1>4, <1>5, <1>6, <1>7 DEF RemoteInv

\* While a reconcile pass works under the lock, nothing is collected.
LEMMA CollectIdle ==
    ASSUME collect.pc = "idle", UNCHANGED collect
    PROVE  (CollectShape /\ SweepInv /\ CompactInv /\ Apart /\ Holding)'
  BY DEF CollectShape, SweepInv, CompactInv, SweepPcs, CompactPcs, Apart, Holding, IsCondemned

\* Reconcile deletes the object of a record that no locator names.
LEMMA ReclaimDeleteRemote ==
    ASSUME Sizes, RemoteInv, NEW c \in Blocks, ReclaimDelete(c)
    PROVE  RemoteInv' /\ KeepsBacked
  <1>1. UNCHANGED <<loc, syncedAt, liveCount, now, client, rows, restarts, unlink, upload, collect,
                    snapshot>>
    BY DEF ReclaimDelete, meta, clock
  <1>2. /\ recon.pc = "records" /\ recon'.pc = "recorddrop" /\ recon'.todo = recon.todo \ {c}
        /\ recon'.known = recon.known /\ recon'.block = c
    BY DEF ReclaimDelete
  <1>3. c \in Recorded /\ LiveIn(c) = {} /\ recon.todo \subseteq Blocks
    BY <1>2 DEF RemoteInv, ReconInv, ReconShape, ReclaimDelete
  <1>4. DeleteObject(c) /\ LifecycleTypeOK
    BY DEF ReclaimDelete, RemoteInv, CoreInv
  <1>5. (ReconShape /\ ReconInv)'
    BY <1>1, <1>2, <1>3, <1>4, DeleteEffect, SMTT(20)
    DEF RemoteInv, ReconShape, ReconInv, Recorded, LiveIn
  <1>6. (CollectShape /\ SweepInv /\ CompactInv /\ Apart /\ Holding)'
    BY <1>1, <1>2, ReconLock, CollectIdle
  <1> QED
    BY <1>1, <1>3, <1>4, <1>5, <1>6, DeleteKeeps, PendingUnrecorded DEF RemoteInv, LiveIn

\* Reconcile drops the record of a block it has deleted.
LEMMA ReclaimDropRemote ==
    ASSUME Sizes, RemoteInv, ReclaimDrop
    PROVE  RemoteInv' /\ KeepsBacked
  <1>1. UNCHANGED <<loc, syncedAt, object, putAt, minted, now, client, rows, restarts, unlink,
                    upload, collect, snapshot>>
    BY DEF ReclaimDrop, objects, clock
  <1>2. /\ recon.pc = "recorddrop" /\ recon'.pc = "records" /\ recon'.todo = recon.todo
        /\ recon'.known = recon.known
    BY DEF ReclaimDrop, ReclaimNext
  <1>3. object[recon.block] = {} /\ recon.block \in Blocks \ recon.todo
    BY <1>2 DEF RemoteInv, ReconInv, ReconShape
  <1>4. /\ CoreInv' /\ (UploadShape /\ CarveInv)' /\ UnlinkShape' /\ Filled'
        /\ (SnapShape /\ SnapshotKept)' /\ KeepsBacked
        /\ Recorded' = Recorded \ {recon.block}
    BY <1>1, <1>3, DropKeeps DEF ReclaimDrop
  <1> QED
    BY <1>1, <1>2, <1>3, <1>4, ReconLock, CollectIdle, SMTT(20)
    DEF RemoteInv, ReconShape, ReconInv, LiveIn

\* Reconcile deletes an old object without a record.
LEMMA OrphanDeleteRemote ==
    ASSUME Sizes, RemoteInv, NEW c \in Blocks, OrphanDelete(c)
    PROVE  RemoteInv' /\ KeepsBacked
  <1>1. UNCHANGED <<loc, syncedAt, liveCount, now, client, rows, restarts, unlink, upload, collect,
                    snapshot>>
    BY DEF OrphanDelete, meta, clock
  <1>2. recon.pc = "orphans" /\ recon'.pc = "orphans" /\ recon'.todo = recon.todo \ {c}
    BY DEF OrphanDelete
  <1>3. Spent(c) /\ putAt[c] < now /\ putAt[c] \in Nat /\ recon.todo \subseteq Blocks
    BY <1>2, SMTT(20)
    DEF RemoteInv, ReconInv, ReconShape, OrphanDelete, CoreInv, LifecycleTypeOK
  <1>4. DeleteObject(c) /\ LifecycleTypeOK
    BY DEF OrphanDelete, RemoteInv, CoreInv
  <1>5. minted' = minted
        /\ \A b \in Blocks : b # c => object'[b] = object[b] /\ putAt'[b] = putAt[b]
    BY <1>4, DeleteEffect
  <1>6. (ReconShape /\ ReconInv)'
    BY <1>1, <1>2, <1>3, <1>5 DEF RemoteInv, ReconShape, ReconInv, Spent
  <1>7. (CollectShape /\ SweepInv /\ CompactInv /\ Apart /\ Holding)'
    BY <1>1, <1>2, ReconLock, CollectIdle
  <1> QED
    BY <1>1, <1>3, <1>4, <1>6, <1>7, DeleteKeeps, SMTT(20)
    DEF RemoteInv, Spent, CarveInv, Pending

\* Clearing the marker of a chunk.
LEMMA UnmarkKeeps ==
    ASSUME Sizes, RemoteInv, NEW k \in Hashes, IsCondemned(k), DeleteSynced(k),
           UNCHANGED <<liveCount, object, putAt, minted, now, client, rows, restarts, unlink,
                       upload, snapshot>>
    PROVE  /\ CoreInv' /\ (UploadShape /\ CarveInv)' /\ UnlinkShape' /\ Filled'
           /\ (SnapShape /\ SnapshotKept)'
           /\ KeepsBacked
  <1>1. LifecycleTypeOK
    BY DEF RemoteInv, CoreInv
  <1>2. /\ loc'[k] = None /\ syncedAt'[k] = 0
        /\ \A h \in Hashes : h # k => loc'[h] = loc[h] /\ syncedAt'[h] = syncedAt[h]
        /\ loc' \in [Hashes -> Blocks \cup {None}] /\ syncedAt' \in [Hashes -> 0..MaxNow]
    BY <1>1, UnmarkEffect
  <1>3. \A b \in Blocks : LiveIn(b)' \subseteq LiveIn(b)
    BY <1>2, Constants DEF LiveIn
  <1>4. LifecycleTypeOK'
    BY <1>1, <1>2 DEF LifecycleTypeOK, client
  <1>5. Stamped'
    BY <1>1, <1>2, SMTT(20) DEF LifecycleTypeOK, RemoteInv, CoreInv, Stamped
  <1>6. Minting'
    BY <1>3 DEF RemoteInv, CoreInv, Minting, Unused
  <1>7. Counts'
    <2>1. SUFFICES ASSUME NEW b \in Recorded'
                   PROVE  Covered(b)'
      BY DEF Counts
    <2>2. b \in Recorded /\ b \in Blocks /\ liveCount'[b] = liveCount[b] /\ liveCount[b] \in Int
      BY <1>1, <2>1, Constants, SMTT(20) DEF Recorded, LifecycleTypeOK
    <2> QED
      BY <1>3, <2>2, LiveFinite, SubsetSmaller, SMTT(20) DEF Covered, RemoteInv, CoreInv, Counts
  <1>8. BackedRecorded'
    <2>1. \A b \in Blocks : \A h \in object[b] : loc[h] # b => loc'[h] # b
      BY <1>1, <1>2, Constants DEF LifecycleTypeOK
    <2> QED
      BY <2>1 DEF RemoteInv, CoreInv, BackedRecorded, Spent
  <1>9. KeepsBacked
    BY <1>2 DEF KeepsBacked, Backed
  <1>10. (SnapShape /\ SnapshotKept)' /\ UnlinkShape' /\ Filled'
    BY <1>9, SnapshotStep, FilesSame
  <1>11. UploadShape'
    BY DEF RemoteInv, UploadShape, Carving
  <1>12. upload.pc = "commit" => Pending(upload.block, Novel)'
    <2>1. SUFFICES ASSUME upload.pc = "commit"
                   PROVE  Pending(upload.block, Novel)'
      OBVIOUS
    <2>2. Pending(upload.block, Novel) /\ upload.block \in Blocks
      BY <1>1, <2>1, Constants, SMTT(20)
      DEF RemoteInv, CarveInv, Pending, Blocks, LifecycleTypeOK
    <2>3. Novel' = Novel
      BY DEF Novel
    <2> QED
      BY <1>3, <2>2, <2>3 DEF Pending
  <1>13. CarveInv'
    BY <1>2, <1>12 DEF CarveInv, RemoteInv, UploadShape, Carving
  <1> QED
    BY <1>4, <1>5, <1>6, <1>7, <1>8, <1>9, <1>10, <1>11, <1>13 DEF CoreInv

\* The sweep clears the locator of a chunk of a block with others left.
LEMMA GcUnmarkRemote ==
    ASSUME Sizes, RemoteInv, GcUnmark
    PROVE  RemoteInv' /\ KeepsBacked
  <1>1. UNCHANGED <<liveCount, object, putAt, minted, now, client, rows, restarts, unlink,
                    upload, recon, snapshot>>
    BY DEF GcUnmark, objects, clock
  <1>2. /\ collect.pc \in {"unmark", "lastunmark", "clear"} /\ collect'.todo = collect.todo
        /\ collect.pc = "unmark" => collect'.pc = "decr"
        /\ collect.pc = "lastunmark" => collect'.pc = "clear"
        /\ collect.pc = "clear" => collect'.pc = "next"
        /\ collect.pc # "clear" => collect'.h = collect.h /\ collect'.block = collect.block
    BY DEF GcUnmark, SweepAt, Swept
  <1>3. collect.h \in Hashes /\ collect.block \in Blocks /\ collect.todo \subseteq Hashes
    BY <1>2 DEF RemoteInv, CollectShape, SweepPcs
  <1>4. DeleteSynced(collect.h) /\ IsCondemned(collect.h) /\ LifecycleTypeOK
    BY <1>2 DEF GcUnmark, IsCondemned, SweepPcs, RemoteInv, CoreInv
  <1>5. /\ CoreInv' /\ (UploadShape /\ CarveInv)' /\ UnlinkShape' /\ Filled'
        /\ (SnapShape /\ SnapshotKept)' /\ KeepsBacked
    BY <1>1, <1>3, <1>4, UnmarkKeeps
  <1>6. (ReconShape /\ ReconInv)'
    BY <1>1, <1>2, LockHeld, WalkedKeeps DEF Recorded
  <1>7. CollectShape' /\ CompactInv'
    BY <1>2, <1>3 DEF CollectShape, CompactInv, SweepPcs, CompactPcs
  <1>8. collect.pc = "unmark" => /\ collect.block \in Recorded /\ liveCount[collect.block] > 1
                                 /\ Cardinality(LiveIn(collect.block)') < liveCount[collect.block]
    <2>1. SUFFICES ASSUME collect.pc = "unmark"
                   PROVE  /\ collect.block \in Recorded /\ liveCount[collect.block] > 1
                          /\ Cardinality(LiveIn(collect.block)') < liveCount[collect.block]
      OBVIOUS
    <2>2. /\ collect.block \in Recorded /\ liveCount[collect.block] > 1
          /\ loc[collect.h] = collect.block
      BY <2>1 DEF RemoteInv, SweepInv
    <2>3. Covered(collect.block) /\ liveCount[collect.block] \in Int
      BY <1>3, <1>4, <2>2, Constants, SMTT(20) DEF RemoteInv, CoreInv, Counts, LifecycleTypeOK
    <2>4. /\ loc'[collect.h] = None
          /\ \A h \in Hashes : h # collect.h => loc'[h] = loc[h]
      BY <1>3, <1>4, UnmarkEffect
    <2>5. /\ LiveIn(collect.block)' = LiveIn(collect.block) \ {collect.h}
          /\ collect.h \in LiveIn(collect.block)
      BY <1>2, <1>3, <2>1, <2>2, <2>4, Constants DEF LiveIn
    <2> QED
      BY <2>2, <2>3, <2>5, LiveFinite, SMTT(20) DEF Covered, Sizes
  <1>9. SweepInv'
    BY <1>1, <1>2, <1>8 DEF SweepInv, Recorded
  <1>10. Apart'
    BY <1>1, <1>2, LockHeld DEF Apart
  <1>11. Holding'
    BY <1>1, <1>2 DEF RemoteInv, Holding, IsCondemned, HasManifest, SweepPcs
  <1> QED
    BY <1>5, <1>6, <1>7, <1>9, <1>10, <1>11 DEF RemoteInv

\* The sweep counts one chunk less, and deletes the block when none is left.
LEMMA GcDecrRemote ==
    ASSUME Sizes, RemoteInv, GcDecr
    PROVE  RemoteInv' /\ KeepsBacked
  <1> DEFINE c == collect.block
             left == IF liveCount[c] > 0 THEN liveCount[c] - 1 ELSE 0
  <1>1. UNCHANGED <<loc, syncedAt, object, putAt, minted, now, client, rows, restarts, unlink,
                    upload, recon, snapshot>>
    BY DEF GcDecr, objects, clock
  <1>2. LifecycleTypeOK
    BY DEF RemoteInv, CoreInv
  <1>3. collect.pc = "decr" /\ c \in Recorded /\ c \in Blocks /\ collect.h \in Hashes
        /\ collect.todo \subseteq Hashes
    BY DEF GcDecr, RemoteInv, SweepInv, CollectShape, SweepPcs
  <1>4. liveCount[c] \in 0..Cardinality(Slots)
    BY <1>2, <1>3 DEF LifecycleTypeOK, Recorded
  <1>5. left \in 0..Cardinality(Slots)
    BY <1>4, Constants, SMTT(20)
  <1>6. liveCount' = [liveCount EXCEPT ![c] = left]
    BY <1>5, SMTT(20) DEF GcDecr
  <1>7. /\ collect'.pc = (IF left > 0 THEN "clear" ELSE "delete") /\ collect'.todo = collect.todo
        /\ collect'.h = collect.h /\ collect'.block = c
    BY <1>5, SMTT(20) DEF GcDecr, SweepAt
  <1>8. /\ liveCount'[c] = left
        /\ \A b \in Blocks : b # c => liveCount'[b] = liveCount[b]
        /\ liveCount' \in [Blocks -> 0..Cardinality(Slots) \cup {NoRecord}]
    BY <1>2, <1>3, <1>5, <1>6, CountEffect
  <1>9. Recorded' = Recorded
    BY <1>3, <1>5, <1>8, Constants, SMTT(20) DEF Recorded
  <1>10. \/ liveCount[c] > 1 /\ Cardinality(LiveIn(c)) < liveCount[c]
         \/ LiveIn(c) \subseteq {collect.h} /\ liveCount[c] <= 1
    BY <1>3 DEF RemoteInv, SweepInv
  <1>11. Cardinality(LiveIn(c)) \in Nat /\ LiveIn(c)' = LiveIn(c)
         /\ (LiveIn(c) \subseteq {collect.h} => Cardinality(LiveIn(c)) <= 1)
    BY <1>1, <1>7, LiveFinite, SmallImpliesSingle DEF LiveIn
  <1>12. CoreInv'
    <2>1. Counts'
      <3>1. SUFFICES ASSUME NEW b \in Recorded'
                     PROVE  Covered(b)'
        BY DEF Counts
      <3>2. CASE b = c
        BY <1>1, <1>4, <1>7, <1>8, <1>10, <1>11, <3>2, SMTT(20) DEF Covered, LiveIn
      <3>3. CASE b # c
        <4>1. Covered(b) /\ b \in Blocks
          BY <1>9, <3>1 DEF RemoteInv, CoreInv, Counts, Recorded
        <4> QED
          BY <1>1, <1>8, <3>3, <4>1 DEF Covered, LiveIn
      <3> QED
        BY <3>2, <3>3
    <2>2. BackedRecorded'
      BY <1>1, <1>3, <1>8, <1>9 DEF RemoteInv, CoreInv, BackedRecorded, Spent, Recorded
    <2> QED
      BY <1>1, <1>2, <1>3, <1>8, <2>1, <2>2, SMTT(20)
      DEF CoreInv, LifecycleTypeOK, client, RemoteInv, Minting, Unused, LiveIn, Recorded,
          Stamped
  <1>13. KeepsBacked
    BY <1>1 DEF KeepsBacked, Backed
  <1>14. (SnapShape /\ SnapshotKept)' /\ UnlinkShape' /\ Filled'
    BY <1>1, <1>13, SnapshotStep, FilesSame
  <1>15. (UploadShape /\ CarveInv)'
    <2>1. UploadShape'
      BY <1>1 DEF RemoteInv, UploadShape, Carving
    <2>2. upload.pc = "commit" => Pending(upload.block, Novel)'
      <3>1. SUFFICES ASSUME upload.pc = "commit"
                     PROVE  Pending(upload.block, Novel)'
        OBVIOUS
      <3>2. Pending(upload.block, Novel) /\ upload.block \in Blocks /\ upload.block # c
        BY <1>2, <1>3, <3>1, PendingUnrecorded, Constants, SMTT(40)
        DEF RemoteInv, CarveInv, Pending, Blocks, LifecycleTypeOK
      <3>3. Novel' = Novel
        BY <1>1 DEF Novel
      <3> QED
        BY <1>1, <1>8, <3>2, <3>3 DEF Pending, LiveIn
    <2> QED
      BY <1>1, <2>1, <2>2 DEF RemoteInv, CarveInv
  <1>16. (ReconShape /\ ReconInv)'
    BY <1>1, <1>3, <1>9, LockHeld, WalkedKeeps
  <1>17. CollectShape' /\ CompactInv'
    BY <1>3, <1>7 DEF CollectShape, CompactInv, SweepPcs, CompactPcs
  <1>18. SweepInv'
    <2>1. CASE left > 0
      BY <1>7, <2>1 DEF SweepInv
    <2>2. CASE left = 0
      BY <1>1, <1>3, <1>4, <1>7, <1>9, <1>10, <2>2, SMTT(20) DEF LiveIn, SweepInv
    <2>3. left > 0 \/ left = 0
      <3> HIDE DEF left
      <3> QED
        BY <1>5, SMTT(20)
    <2> QED
      BY <2>1, <2>2, <2>3
  <1>19. Apart'
    BY <1>1, <1>3, <1>7, LockHeld DEF Apart
  <1>20. Holding'
    BY <1>1, <1>3, <1>7 DEF RemoteInv, Holding, IsCondemned, HasManifest, SweepPcs
  <1> QED
    BY <1>12, <1>13, <1>14, <1>15, <1>16, <1>17, <1>18, <1>19, <1>20 DEF RemoteInv

\* Committing n chunks whose distinct contents are hs, none of which can be read from a block
\* other than by a locator that the commit replaces.
LEMMA CommitKeeps ==
    ASSUME Sizes, RemoteInv, NEW c, NEW hs \in SUBSET Hashes, NEW n \in 0..Cardinality(Slots),
           Pending(c, hs), CommitBlock(c, hs, n), Cardinality(hs) <= n,
           UNCHANGED <<object, putAt, minted, now, snapshot, recon>>, LifecycleTypeOK'
    PROVE  CoreInv' /\ KeepsBacked /\ (SnapShape /\ SnapshotKept)' /\ (ReconShape /\ ReconInv)'
  <1>1. LifecycleTypeOK /\ c \in Blocks /\ minted \in Nat /\ c \in Nat /\ c <= minted
    <2>1. LifecycleTypeOK /\ c \in 1..minted /\ minted \in 0..MaxBlocks /\ MaxBlocks \in Nat
      BY Constants DEF RemoteInv, CoreInv, LifecycleTypeOK, Pending
    <2> QED
      BY <2>1, SMTT(20) DEF Blocks
  <1>2. /\ liveCount'[c] = n
        /\ \A b \in Blocks : b # c => liveCount'[b] = liveCount[b]
        /\ \A h \in Hashes : /\ h \in hs => loc'[h] = c /\ syncedAt'[h] = now
                             /\ h \notin hs => loc'[h] = loc[h] /\ syncedAt'[h] = syncedAt[h]
    BY <1>1, CommitEffect, SMTT(20)
  <1>3. LiveIn(c) = {} /\ object[c] = hs /\ putAt[c] = now /\ liveCount[c] = NoRecord
    BY DEF Pending
  <1>4. LiveIn(c)' = hs /\ \A b \in Blocks : b # c => LiveIn(b)' \subseteq LiveIn(b)
    BY <1>2, <1>3, SMTT(20) DEF LiveIn
  <1>5. Recorded' = Recorded \cup {c}
    <2>1. liveCount'[c] # NoRecord
      BY <1>2, Constants, SMTT(20)
    <2> QED
      BY <1>1, <1>2, <2>1 DEF Recorded
  <1>6. Stamped'
    BY <1>1, <1>2, Constants, SMTT(20) DEF RemoteInv, CoreInv, Stamped, LifecycleTypeOK
  <1>7. Minting'
    BY <1>1, <1>2, <1>4, Constants, SMTT(20) DEF RemoteInv, CoreInv, Minting, Unused
  <1>8. Counts'
    <2>1. SUFFICES ASSUME NEW b \in Recorded'
                   PROVE  Covered(b)'
      BY DEF Counts
    <2>2. CASE b = c
      BY <1>2, <1>4, <2>2 DEF Covered
    <2>3. CASE b # c
      <3>1. /\ b \in Recorded /\ b \in Blocks /\ liveCount'[b] = liveCount[b]
            /\ liveCount[b] \in Int
        BY <1>1, <1>2, <1>5, <2>1, <2>3, Constants, SMTT(20) DEF Recorded, LifecycleTypeOK
      <3> QED
        BY <1>4, <2>3, <3>1, LiveFinite, SubsetSmaller, SMTT(20)
        DEF Covered, RemoteInv, CoreInv, Counts
    <2> QED
      BY <2>2, <2>3
  <1>9. BackedRecorded'
    <2>1. SUFFICES ASSUME NEW b \in Blocks, liveCount'[b] = NoRecord, NEW h \in object[b]
                   PROVE  loc'[h] # b
      BY DEF BackedRecorded, Spent
    <2>2. b # c
      BY <1>2, <2>1, Constants, SMTT(20)
    <2>3. loc[h] # b /\ h \in Hashes
      BY <1>1, <1>2, <2>1, <2>2 DEF RemoteInv, CoreInv, BackedRecorded, Spent, LifecycleTypeOK
    <2> QED
      BY <1>2, <2>2, <2>3
  <1>10. KeepsBacked
    BY <1>1, <1>2, <1>3, Constants DEF KeepsBacked, Backed
  <1>11. ReconShape'
    BY DEF RemoteInv, ReconShape
  <1>12. ReconInv'
    <2>1. recon.pc \in {"walked", "live", "records", "recorddrop"} =>
            \A b \in Recorded' : b \notin recon.known /\ object'[b] # {} => putAt'[b] = now'
      BY <1>3, <1>5 DEF RemoteInv, ReconInv
    <2>2. recon.pc \in {"live", "records", "recorddrop"} => recon.todo \subseteq Recorded'
      BY <1>5 DEF RemoteInv, ReconInv
    <2>3. c \notin Recorded /\ \A b \in Recorded : LiveIn(b) = {} => LiveIn(b)' = {}
      BY <1>3, <1>4 DEF Recorded
    <2>4. recon.pc \in {"records", "recorddrop"} => \A b \in recon.todo : LiveIn(b)' = {}
      BY <2>3 DEF RemoteInv, ReconInv
    <2>5. recon.pc = "recorddrop" => /\ recon.block \in Recorded' /\ LiveIn(recon.block)' = {}
                                     /\ object'[recon.block] = {}
      BY <1>5, <2>3 DEF RemoteInv, ReconInv
    <2>6. recon.pc = "orphans" =>
            \A b \in recon.todo : b <= minted' /\ putAt'[b] < now' /\ Spent(b)'
      <3>1. SUFFICES ASSUME recon.pc = "orphans", NEW b \in recon.todo
                     PROVE  b <= minted' /\ putAt'[b] < now' /\ Spent(b)'
        OBVIOUS
      <3>2. b \in Blocks /\ b <= minted /\ putAt[b] < now /\ Spent(b)
        BY <3>1 DEF RemoteInv, ReconInv, ReconShape
      <3> QED
        BY <1>1, <1>2, <1>3, <3>2, Constants, SMTT(20) DEF Spent, LifecycleTypeOK
    <2> QED
      BY <2>1, <2>2, <2>4, <2>5, <2>6 DEF ReconInv
  <1> QED
    BY <1>6, <1>7, <1>8, <1>9, <1>10, <1>11, <1>12, SnapshotStep DEF CoreInv

\* The carver commits its block: record, locators and rows.
LEMMA UploadCommitRemote ==
    ASSUME Sizes, RemoteInv, UploadCommit
    PROVE  RemoteInv' /\ KeepsBacked
  <1> DEFINE c == upload.block
  <1>1. UNCHANGED <<object, putAt, minted, now, client, restarts, unlink, collect, recon, snapshot>>
    BY DEF UploadCommit, objects, clock
  <1>2. /\ upload.pc = "commit" /\ Carving /\ upload'.pc = "flip" /\ upload'.file = upload.file
        /\ upload'.run = upload.run /\ upload'.todo = {} /\ upload'.novel = upload.novel
        /\ upload'.current = upload.current /\ upload'.block = upload.block
    BY DEF UploadCommit, Carve, Carving
  <1>3. /\ Novel \in SUBSET Hashes /\ Cardinality(Novel) <= Cardinality(upload.novel)
        /\ Cardinality(upload.novel) \in 0..Cardinality(Slots)
    BY <1>2, NovelSmaller DEF RemoteInv
  <1>4. LifecycleTypeOK /\ Pending(c, Novel) /\ CommitBlock(c, Novel, Cardinality(upload.novel))
    BY <1>2 DEF RemoteInv, CoreInv, CarveInv, UploadCommit
  <1>5. c \in Blocks
    BY <1>4, Constants, SMTT(20) DEF Pending, Blocks, LifecycleTypeOK
  <1>6. /\ liveCount'[c] = Cardinality(upload.novel)
        /\ \A b \in Blocks : b # c => liveCount'[b] = liveCount[b]
        /\ \A h \in Hashes : /\ h \in Novel => loc'[h] = c /\ syncedAt'[h] = now
                             /\ h \notin Novel => loc'[h] = loc[h] /\ syncedAt'[h] = syncedAt[h]
        /\ loc' \in [Hashes -> Blocks \cup {None}] /\ syncedAt' \in [Hashes -> 0..MaxNow]
        /\ liveCount' \in [Blocks -> 0..Cardinality(Slots) \cup {NoRecord}]
    BY <1>3, <1>4, <1>5, CommitEffect
  <1>7. rows' \in [Payloads -> [Slots -> Hashes \cup {None}]]
    <2>1. \A s \in upload.novel : upload.run[s] \in Hashes
      BY <1>2 DEF RemoteInv, UploadShape
    <2> QED
      BY <1>4, <2>1 DEF UploadCommit, LifecycleTypeOK
  <1>8. CoreInv' /\ KeepsBacked /\ (SnapShape /\ SnapshotKept)' /\ (ReconShape /\ ReconInv)'
    BY <1>1, <1>3, <1>4, <1>6, <1>7, CommitKeeps DEF LifecycleTypeOK, client
  <1>9. UploadShape' /\ Filled' /\ UnlinkShape'
    BY <1>1, <1>2 DEF RemoteInv, UploadShape, Carving, Filled, UnlinkShape, client
  <1>10. CarveInv'
    BY <1>2 DEF CarveInv
  <1>11. \A h \in Novel : loc[h] = None
    BY <1>2 DEF RemoteInv, CarveInv, Novel
  <1>12. /\ Recorded' = Recorded \cup {c} /\ c \notin Recorded
         /\ \A b \in Blocks : b # c => LiveIn(b)' = LiveIn(b)
    BY <1>3, <1>4, <1>5, <1>6, <1>11, Constants, SMTT(20) DEF Pending, Recorded, LiveIn
  <1>13. (CollectShape /\ SweepInv /\ CompactInv)'
    <2>1. collect.pc = "unmark" => collect.h \in Hashes /\ loc'[collect.h] = loc[collect.h]
      <3>1. SUFFICES ASSUME collect.pc = "unmark"
                     PROVE  collect.h \in Hashes /\ loc'[collect.h] = loc[collect.h]
        OBVIOUS
      <3>2. collect.h \in Hashes /\ loc[collect.h] = collect.block /\ collect.block \in Blocks
        BY <3>1 DEF RemoteInv, CollectShape, SweepInv, SweepPcs
      <3>3. collect.h \notin Novel
        BY <1>11, <3>2, Constants
      <3> QED
        BY <1>6, <3>2, <3>3
    <2>2. \A b \in Recorded : b \in Blocks /\ liveCount'[b] = liveCount[b] /\ LiveIn(b)' = LiveIn(b)
      BY <1>6, <1>12 DEF Recorded
    <2>3. \A b \in Blocks : b # c => \A h \in object[b] : loc'[h] = b <=> loc[h] = b
      BY <1>4, <1>6, <1>11, Constants DEF LifecycleTypeOK
    <2>4. collect.pc = "newcommit" => Pending(collect.block, collect.moved)'
      BY <1>1, <1>2, <1>4, <1>6, <1>12, Constants, SMTT(20)
      DEF RemoteInv, CompactInv, Pending, Blocks, LifecycleTypeOK, Apart
    <2> QED
      BY <1>1, <1>12, <2>1, <2>2, <2>3, <2>4, SMTT(20)
      DEF RemoteInv, CollectShape, CompactInv, CompactPcs, Spent, SweepInv
  <1>14. Apart' /\ Holding'
    BY <1>1, <1>2, HoldFrame DEF RemoteInv, Apart
  <1> QED
    BY <1>8, <1>9, <1>10, <1>13, <1>14 DEF RemoteInv

\* Compaction commits the new block: the locators move to it.
LEMMA CompactCommitRemote ==
    ASSUME Sizes, RemoteInv, CompactCommit
    PROVE  RemoteInv' /\ KeepsBacked
  <1> DEFINE c == collect.block
             moved == collect.moved
             n == Cardinality(collect.moved)
  <1>1. UNCHANGED <<object, putAt, minted, now, client, rows, restarts, unlink, upload, recon,
                    snapshot>>
    BY DEF CompactCommit, objects, clock
  <1>2. /\ collect.pc = "newcommit" /\ collect'.pc = "olddelete" /\ collect'.todo = collect.todo
        /\ collect'.old = collect.old /\ collect'.moved = collect.moved
        /\ collect'.block = collect.block
    BY DEF CompactCommit, CompactAt
  <1>3. /\ moved \in SUBSET Hashes /\ collect.old \in Blocks /\ collect.todo \subseteq Blocks
        /\ collect.old \in Recorded /\ moved # {}
        /\ moved = {h \in object[collect.old] : loc[h] = collect.old}
    BY <1>2 DEF RemoteInv, CollectShape, CompactInv, CompactPcs
  <1>4. LifecycleTypeOK /\ Pending(c, moved) /\ CommitBlock(c, moved, n)
    BY <1>2 DEF RemoteInv, CoreInv, CompactInv, CompactCommit
  <1>5. c \in Blocks /\ c # collect.old
    BY <1>3, <1>4, Constants, SMTT(40) DEF Pending, Blocks, LifecycleTypeOK, Recorded
  <1>6. n \in 0..Cardinality(Slots)
    <2>1. n \in Nat /\ n <= Cardinality(LiveIn(collect.old))
          /\ Cardinality(LiveIn(collect.old)) \in Nat
      BY <1>3, LiveFinite, SubsetSmaller DEF LiveIn
    <2> HIDE DEF n
    <2> QED
      BY <1>3, <1>4, <2>1, Constants, SMTT(20)
      DEF Covered, RemoteInv, CoreInv, Counts, LifecycleTypeOK, Recorded
  <1>7. /\ liveCount'[c] = n
        /\ \A b \in Blocks : b # c => liveCount'[b] = liveCount[b]
        /\ \A h \in Hashes : /\ h \in moved => loc'[h] = c /\ syncedAt'[h] = now
                             /\ h \notin moved => loc'[h] = loc[h] /\ syncedAt'[h] = syncedAt[h]
        /\ loc' \in [Hashes -> Blocks \cup {None}] /\ syncedAt' \in [Hashes -> 0..MaxNow]
        /\ liveCount' \in [Blocks -> 0..Cardinality(Slots) \cup {NoRecord}]
    BY <1>3, <1>4, <1>5, <1>6, CommitEffect
  <1>8. LifecycleTypeOK'
    BY <1>1, <1>4, <1>7 DEF LifecycleTypeOK, client
  <1>9. CoreInv' /\ KeepsBacked /\ (SnapShape /\ SnapshotKept)' /\ (ReconShape /\ ReconInv)'
    BY <1>1, <1>3, <1>4, <1>6, <1>8, CommitKeeps, SMTT(20)
  <1>10. UnlinkShape' /\ Filled' /\ UploadShape'
    BY <1>1, FilesSame DEF RemoteInv, UploadShape, Carving
  <1>11. Recorded' = Recorded \cup {c}
    BY <1>5, <1>6, <1>7, Constants, SMTT(20) DEF Recorded
  <1>12. CarveInv'
    <2>1. upload.pc \in {"dedup", "put", "commit"} =>
            \A s \in upload.novel : loc'[upload.run[s]] = None
      <3>1. \A h \in moved : loc[h] # None
        BY <1>3, Constants
      <3> QED
        BY <1>7, <3>1 DEF RemoteInv, CarveInv, UploadShape, Carving
    <2>2. upload.pc = "commit" => Pending(upload.block, Novel)'
      <3>1. SUFFICES ASSUME upload.pc = "commit"
                     PROVE  Pending(upload.block, Novel)'
        OBVIOUS
      <3>2. Pending(upload.block, Novel) /\ upload.block \in Blocks /\ upload.block # c
        BY <1>2, <1>4, <3>1, Constants, SMTT(20)
        DEF RemoteInv, CarveInv, Pending, Blocks, LifecycleTypeOK, Apart
      <3> QED
        BY <1>1, <1>7, <3>2, SMTT(20) DEF Pending, LiveIn, Novel
    <2> QED
      BY <1>1, <2>1, <2>2 DEF CarveInv
  <1>13. (CollectShape /\ SweepInv /\ CompactInv)'
    BY <1>1, <1>2, <1>3, <1>4, <1>5, <1>7, <1>11, SMTT(20)
    DEF Spent, LifecycleTypeOK, CollectShape, SweepInv, CompactInv, SweepPcs, CompactPcs
  <1>14. Apart' /\ Holding'
    BY <1>1, <1>2, LockHeld DEF Apart, Holding, IsCondemned, SweepPcs
  <1> QED
    BY <1>9, <1>10, <1>12, <1>13, <1>14 DEF RemoteInv

-----------------------------------------------------------------------------
(* RemoteInv holds throughout *)

\* No block, no pass.
LEMMA RemoteInit ==
    ASSUME Sizes, LifecycleInit
    PROVE  RemoteInv
  <1>1. /\ upload.pc = "idle" /\ unlink.pc = "idle" /\ collect.pc = "idle" /\ recon.pc = "idle"
        /\ snapshot.pc = "idle"
    BY DEF LifecycleInit, Inactive
  <1>2. Stamped /\ Minting /\ Counts /\ BackedRecorded
    BY Constants, SMTT(20)
    DEF LifecycleInit, Stamped, Minting, Unused, LiveIn, Counts, Recorded, BackedRecorded, Spent
  <1>3. UploadShape /\ CarveInv /\ UnlinkShape /\ Filled
    BY <1>1 DEF LifecycleInit, UploadShape, CarveInv, UnlinkShape, Filled, Carving
  <1>4. CollectShape /\ SweepInv /\ CompactInv /\ Apart
    BY <1>1 DEF CollectShape, SweepInv, CompactInv, SweepPcs, CompactPcs, Apart
  <1>5. ReconShape /\ ReconInv /\ SnapShape /\ SnapshotKept /\ Holding
    BY <1>1 DEF ReconShape, ReconInv, SnapShape, SnapshotKept, Holding, HasManifest
  <1> QED
    BY <1>2, <1>3, <1>4, <1>5, Constants, SMTT(20)
    DEF RemoteInv, CoreInv, LifecycleInit, LifecycleTypeOK, NoHashes

\* The carver keeps RemoteInv, and takes nothing from the remote.
LEMMA UploaderRemote ==
    ASSUME Sizes, RemoteInv, Uploader
    PROVE  RemoteInv' /\ KeepsBacked
  BY CoreBacked, UploadDedupRemote, UploadPutRemote, UploadCommitRemote, UploadFlipRemote,
     UploadFailsRemote, UploadBeginRemote
  DEF Uploader, UploadBegin, UploadDedup, UploadFlip, UploadFails, core, meta, objects

\* The sweep keeps RemoteInv, and takes nothing but what it has condemned.
LEMMA SweeperRemote ==
    ASSUME Sizes, RemoteInv, Sweeper
    PROVE  RemoteInv' /\ KeepsBacked
  <1> DEFINE Changes == GcUnmark \/ GcDecr \/ GcDeleteBlock \/ GcDropRecord
  <1>1. RemoteInv' /\ (Changes => KeepsBacked)
    BY GcMarkRemote, GcHoldRemote, GcMarkFailsRemote, GcEnumerateRemote, GcUnmarkRemote,
       GcDecrRemote, GcDeleteBlockRemote, SweepFailsRemote, GcDropRecordRemote, GcPickRemote
    DEF Sweeper
  <1> QED
    BY <1>1, CoreBacked
    DEF Sweeper, GcMark, GcHold, GcMarkFails, GcEnumerate, SweepFails, GcPick, core, meta,
        objects

\* Compaction keeps RemoteInv, and loses no chunk that can be read.
LEMMA CompactorRemote ==
    ASSUME Sizes, RemoteInv, Compactor
    PROVE  RemoteInv' /\ KeepsBacked
  <1> DEFINE Changes == CompactPut \/ CompactCommit \/ CompactDelete \/ CompactDrop
  <1>1. RemoteInv' /\ (Changes => KeepsBacked)
    BY GcDoneRemote, CompactPutRemote, CompactCommitRemote, CompactDeleteRemote,
       CompactDropRemote, CompactFailsRemote, CompactDoneRemote, CompactPickRemote
    DEF Compactor
  <1> QED
    BY <1>1, CoreBacked
    DEF Compactor, GcDone, CompactFails, CompactDone, CompactPick, core, meta, objects

\* Reconcile keeps RemoteInv, and loses no chunk that can be read.
LEMMA ReconcilerRemote ==
    ASSUME Sizes, RemoteInv, Reconciler
    PROVE  RemoteInv' /\ KeepsBacked
  <1> DEFINE Changes == ReclaimDrop \/ \E b \in Blocks : ReclaimDelete(b) \/ OrphanDelete(b)
  <1>1. RemoteInv' /\ (Changes => KeepsBacked)
    BY ReconWalkRemote, ReclaimWalkRemote, ReclaimLiveRemote, ReclaimDropRemote,
       OrphanWalkRemote, ReclaimFailsRemote, ReconDoneRemote, ReclaimDeleteRemote,
       OrphanDeleteRemote
    DEF Reconciler
  <1> QED
    BY <1>1, CoreBacked
    DEF Reconciler, ReconWalk, ReclaimWalk, ReclaimLive, OrphanWalk, ReclaimFails, ReconDone,
        core, meta, objects

\* Every step keeps RemoteInv, and no step takes away a chunk that no sweep condemned.
LEMMA RemoteStep ==
    ASSUME Sizes, RemoteInv, Timely, LifecycleNext
    PROVE  RemoteInv' /\ KeepsBacked
  <1>1. ASSUME Clients \/ UnlinkReap \/ Snapshots \/ Tick \/ LifecycleCrash
        PROVE  RemoteInv' /\ KeepsBacked
    <2>1. RemoteInv'
      BY <1>1, WriteRemote, UnlinkBeginRemote, UnlinkReapRemote, SnapshotsRemote, TickRemote,
         CrashRemote
      DEF Clients
    <2>2. UNCHANGED core
      BY <1>1
      DEF Clients, Write, UnlinkBegin, UnlinkReap, Snapshots, SnapDrain, SnapDump, SnapManifest,
          SnapVerify, SnapDelete, Tick, LifecycleCrash, core, meta, objects
    <2> QED
      BY <2>1, <2>2, CoreBacked
  <1> QED
    BY <1>1, UploaderRemote, SweeperRemote, CompactorRemote, ReconcilerRemote DEF LifecycleNext

\* Nothing happens to the blocks.
LEMMA RemoteStutter ==
    ASSUME RemoteInv, UNCHANGED lifecycleVars
    PROVE  RemoteInv'
  BY ReconSide, ReconFrame DEF RemoteInv, Apart, lifecycleVars, core, clock, meta, objects
=============================================================================
