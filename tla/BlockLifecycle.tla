--------------------------- MODULE BlockLifecycle ---------------------------
(***************************************************************************)
(* The life of a chunk on the remote store (pkg/block/engine): the carver  *)
(* deduplicates, uploads and commits packed blocks; unlink reaps manifest  *)
(* rows; garbage collection marks, sweeps and compacts; reconcile reclaims *)
(* records without locators and objects without records; snapshots hold    *)
(* hashes.  One share on one remote.                                       *)
(*                                                                         *)
(* A file is a sequence of fixed slots, each one chunk; a chunk is its     *)
(* content hash.  A step is one metadata transaction or one remote call.   *)
(* Time is counted in grace periods: something stamped t is past its grace *)
(* at a cutoff taken at now when t < now.                                  *)
(***************************************************************************)
EXTENDS Integers, FiniteSets, Workload

CONSTANTS Payloads,     \* payload ids
          Slots,        \* chunk positions of a file: 1 .. n
          MaxHashes,    \* bound: distinct contents
          MaxBlocks,    \* bound: block ids minted
          MaxNow,       \* bound: grace periods elapsed
          MaxRestarts   \* bound: crashes

ASSUME LifecycleConstants ==
    /\ {MaxHashes, MaxBlocks, MaxNow, MaxRestarts} \subseteq Nat
    /\ Slots \subseteq Nat \ {0} /\ Slots # {} /\ IsFiniteSet(Slots)

Hashes == 1 .. MaxHashes
Blocks == 1 .. MaxBlocks
None == 0               \* no hash, no block
NoRecord == -1

VARIABLES now, written, minted, restarts,
          content,      \* what a client reads back: [Payloads -> [Slots -> hash]]
          local,        \* "none", "dirty" or "synced": the journal's view of a slot
          deleted,      \* unlinked files
          rows,         \* the FileChunk manifest
          loc,          \* synced marker: the block that holds a hash, or None
          syncedAt,     \* when the marker was written
          liveCount,    \* block record: LiveChunkCount, or NoRecord
          object,       \* remote object: its chunks, {} when absent
          putAt,        \* LastModified of the object
          upload, unlink, collect, recon, snapshot

clock == <<now, restarts>>
client == <<content, local, deleted, written>>
meta == <<rows, loc, syncedAt, liveCount>>
objects == <<object, putAt, minted>>
lifecycleVars == <<clock, client, meta, objects, upload, unlink, collect, recon, snapshot>>

Inactive == [pc |-> "idle"]
NoHashes == [s \in Slots |-> None]

LifecycleInit ==
    /\ work \in Workloads
    /\ now = 0 /\ written = 0 /\ minted = 0 /\ restarts = 0
    /\ content = [f \in Payloads |-> NoHashes]
    /\ local = [f \in Payloads |-> [s \in Slots |-> "none"]]
    /\ deleted = {}
    /\ rows = [f \in Payloads |-> NoHashes]
    /\ loc = [h \in Hashes |-> None] /\ syncedAt = [h \in Hashes |-> 0]
    /\ liveCount = [b \in Blocks |-> NoRecord]
    /\ object = [b \in Blocks |-> {}] /\ putAt = [b \in Blocks |-> 0]
    /\ upload = Inactive /\ unlink = Inactive /\ collect = Inactive
    /\ recon = Inactive /\ snapshot = Inactive

-----------------------------------------------------------------------------
(* Clients *)

\* A carve pass over its run, further on.
Carve(pc, todo, novel, current, block) ==
    [pc |-> pc, file |-> upload.file, run |-> upload.run, todo |-> todo, novel |-> novel,
     current |-> current, block |-> block]

\* Slots of f that a carve pass has in hand are no longer current.
Overwritten(f, slots) ==
    IF upload.pc # "idle" /\ upload.file = f
    THEN Carve(upload.pc, upload.todo, upload.novel, upload.current \ slots, upload.block)
    ELSE upload

\* A write of new content, or with "dup" of content some file already had.
Write(f, s, h) ==
    /\ Does("write") /\ f \notin deleted
    /\ h = written + 1 \/ (Does("dup") /\ h <= written)
    /\ h \in Hashes
    /\ written' = IF h > written THEN h ELSE written
    /\ content' = [content EXCEPT ![f][s] = h]
    /\ local' = [local EXCEPT ![f][s] = "dirty"]
    /\ upload' = Overwritten(f, {s})
    /\ UNCHANGED <<clock, deleted, meta, objects, unlink, collect, recon, snapshot>>

\* engine.Delete: drop the journal's bytes and list the rows to reap ...
UnlinkBegin(f) ==
    /\ Does("unlink") /\ unlink.pc = "idle" /\ f \notin deleted
    /\ deleted' = deleted \cup {f}
    /\ content' = [content EXCEPT ![f] = NoHashes]
    /\ local' = [local EXCEPT ![f] = [s \in Slots |-> "none"]]
    /\ unlink' = [pc |-> "reap", file |-> f, todo |-> {s \in Slots : rows[f][s] # None}]
    /\ upload' = Overwritten(f, Slots)
    /\ UNCHANGED <<clock, written, meta, objects, collect, recon, snapshot>>

\* ... then reap them one transaction at a time.
UnlinkReap ==
    /\ unlink.pc = "reap"
    /\ \/ /\ unlink.todo = {}
          /\ unlink' = Inactive
          /\ UNCHANGED rows
       \/ \E s \in unlink.todo :
            /\ rows' = [rows EXCEPT ![unlink.file][s] = None]
            /\ unlink' = [pc |-> "reap", file |-> unlink.file, todo |-> unlink.todo \ {s}]
    /\ UNCHANGED <<clock, client, loc, syncedAt, liveCount, objects, upload, collect, recon, snapshot>>

-----------------------------------------------------------------------------
(* The carver *)

DirtySlots(f) == {s \in Slots : local[f][s] = "dirty"}

\* carveRun over a contiguous run of dirty slots.
Runs(f) == {S \in SUBSET DirtySlots(f) :
              /\ S # {}
              /\ \A s, t \in S : s..t \subseteq S
              /\ \A s \in DirtySlots(f) \ S : s + 1 \notin S /\ s - 1 \notin S}

UploadBegin(f) ==
    /\ upload.pc = "idle"
    /\ \E S \in Runs(f) :
         upload' = [pc |-> "dedup", file |-> f, run |-> [s \in S |-> content[f][s]],
                   todo |-> S, novel |-> {}, current |-> S, block |-> None]
    /\ UNCHANGED <<clock, client, meta, objects, unlink, collect, recon, snapshot>>

\* IsChunkDurable, chunk by chunk: a chunk with a synced marker is not packed.
UploadDedup ==
    /\ upload.pc = "dedup"
    /\ \E s \in upload.todo :
         LET novel == IF loc[upload.run[s]] = None THEN upload.novel \cup {s} ELSE upload.novel
             pc == IF upload.todo # {s} THEN "dedup" ELSE IF novel = {} THEN "flip" ELSE "put"
         IN  /\ \A t \in upload.todo : s <= t
             /\ upload' = Carve(pc, upload.todo \ {s}, novel, upload.current, None)
    /\ UNCHANGED <<clock, client, meta, objects, unlink, collect, recon, snapshot>>

\* PutBlock: a fresh block object holding hs.
PutBlock(hs) ==
    /\ minted < MaxBlocks
    /\ minted' = minted + 1
    /\ object' = [object EXCEPT ![minted + 1] = hs]
    /\ putAt' = [putAt EXCEPT ![minted + 1] = now]

Novel == {upload.run[s] : s \in upload.novel}

UploadPut ==
    /\ upload.pc = "put"
    /\ PutBlock(Novel)
    /\ upload' = Carve("commit", {}, upload.novel, upload.current, minted + 1)
    /\ UNCHANGED <<clock, client, meta, unlink, collect, recon, snapshot>>

\* DefaultCommitBlock's record and last-wins locators for n chunks with hashes hs.
CommitBlock(b, hs, n) ==
    /\ liveCount' = [liveCount EXCEPT ![b] = n]
    /\ loc' = [h \in Hashes |-> IF h \in hs THEN b ELSE loc[h]]
    /\ syncedAt' = [h \in Hashes |-> IF h \in hs THEN now ELSE syncedAt[h]]

\* One transaction: record, manifest rows of the packed chunks, locators.
UploadCommit ==
    /\ upload.pc = "commit"
    /\ CommitBlock(upload.block, Novel, Cardinality(upload.novel))
    /\ rows' = [rows EXCEPT ![upload.file] =
                  [s \in Slots |-> IF s \in upload.novel THEN upload.run[s] ELSE @[s]]]
    /\ upload' = Carve("flip", {}, upload.novel, upload.current, upload.block)
    /\ UNCHANGED <<clock, client, objects, unlink, collect, recon, snapshot>>

\* Mutant: the flip does not look for overwrites.
UploadFlipWholeRun ==
    /\ upload.pc = "flip"
    /\ local' = [local EXCEPT ![upload.file] =
                   [s \in Slots |-> IF s \in DOMAIN upload.run THEN "synced" ELSE @[s]]]
    /\ upload' = Inactive
    /\ UNCHANGED <<clock, content, deleted, written, meta, objects, unlink, collect, recon, snapshot>>

\* flipUpTo: slots not overwritten since the snapshot become synced.
UploadFlip ==
    /\ upload.pc = "flip"
    /\ local' = [local EXCEPT ![upload.file] =
                   [s \in Slots |-> IF s \in upload.current THEN "synced" ELSE @[s]]]
    /\ upload' = Inactive
    /\ UNCHANGED <<clock, content, deleted, written, meta, objects, unlink, collect, recon, snapshot>>

\* A failed upload, commit or flip ends the pass; an uploaded object is left behind.
UploadFails ==
    /\ upload.pc \in {"dedup", "put", "commit", "flip"} /\ Does("fail")
    /\ upload' = Inactive
    /\ UNCHANGED <<clock, client, meta, objects, unlink, collect, recon, snapshot>>

Uploader == UploadDedup \/ UploadPut \/ UploadCommit \/ UploadFlip \/ UploadFails
            \/ \E f \in Payloads : UploadBegin(f)

-----------------------------------------------------------------------------
(* Mark and sweep, under remoteGCLock *)

LockFree == collect.pc = "idle" /\ recon.pc \in {"idle", "walked"}

RowHashes == {rows[f][s] : f \in Payloads, s \in Slots} \ {None}

\* markPhase: every manifest row ...
GcMark ==
    /\ Does("gc") /\ LockFree
    /\ collect' = [pc |-> "hold", cutoff |-> now, live |-> RowHashes]
    /\ UNCHANGED <<clock, client, meta, objects, upload, unlink, recon, snapshot>>

HasManifest == snapshot.pc \in {"manifest", "ready", "failed"}

\* Mutant: snapshots are not consulted.
HeldNothing == {}

\* SnapshotHoldProvider: the hashes of every manifest on disk.
Held == IF HasManifest THEN snapshot.hashes ELSE {}

\* ... and every held hash.
GcHold ==
    /\ collect.pc = "hold"
    /\ collect' = [pc |-> "sweep", cutoff |-> collect.cutoff, live |-> collect.live \cup Held]
    /\ UNCHANGED <<clock, client, meta, objects, upload, unlink, recon, snapshot>>

\* A failing mark phase sweeps nothing; compaction still follows.
GcMarkFails ==
    /\ Does("fail") /\ collect.pc = "hold"
    /\ collect' = [pc |-> "next", todo |-> {}]
    /\ UNCHANGED <<clock, client, meta, objects, upload, unlink, recon, snapshot>>

\* Mutant: a marker written after the mark phase is swept too.
PastGraceInclusive(h, cutoff) == loc[h] # None /\ syncedAt[h] <= cutoff

PastGrace(h, cutoff) == loc[h] # None /\ syncedAt[h] < cutoff

\* sweepFromSyncedIndex: synced - live, past grace.
GcEnumerate ==
    /\ collect.pc = "sweep"
    /\ collect' = [pc |-> "next",
                   todo |-> {h \in Hashes : PastGrace(h, collect.cutoff) /\ h \notin collect.live}]
    /\ UNCHANGED <<clock, client, meta, objects, upload, unlink, recon, snapshot>>

Sweeping(pc, h) == [pc |-> pc, todo |-> collect.todo \ {h}, h |-> h, block |-> loc[h]]
SweepAt(pc) == [pc |-> pc, todo |-> collect.todo, h |-> collect.h, block |-> collect.block]

\* Mutant: the count is decremented before the marker is cleared.
GcPickDecrFirst(h) ==
    /\ collect.pc = "next" /\ h \in collect.todo
    /\ collect' = CASE loc[h] = None -> [pc |-> "next", todo |-> collect.todo \ {h}]
                    [] loc[h] # None /\ liveCount[loc[h]] = NoRecord -> Sweeping("clear", h)
                    [] OTHER -> Sweeping("decr", h)
    /\ UNCHANGED <<clock, client, meta, objects, upload, unlink, recon, snapshot>>

\* ReclaimDeadChunk: resolve the block; clear the marker first unless it is the last chunk.
GcPick(h) ==
    /\ collect.pc = "next" /\ h \in collect.todo
    /\ collect' = CASE loc[h] = None -> [pc |-> "next", todo |-> collect.todo \ {h}]
                    [] loc[h] # None /\ liveCount[loc[h]] = NoRecord -> Sweeping("clear", h)
                    [] loc[h] # None /\ liveCount[loc[h]] > 1 -> Sweeping("unmark", h)
                    [] OTHER -> Sweeping("decr", h)
    /\ UNCHANGED <<clock, client, meta, objects, upload, unlink, recon, snapshot>>

DeleteSynced(h) ==
    /\ loc' = [loc EXCEPT ![h] = None]
    /\ syncedAt' = [syncedAt EXCEPT ![h] = 0]

Swept == [pc |-> "next", todo |-> collect.todo]

\* DeleteSynced before the decrement, after freeing the block, and once more by the sweep.
GcUnmark ==
    /\ collect.pc \in {"unmark", "lastunmark", "clear"}
    /\ DeleteSynced(collect.h)
    /\ collect' = CASE collect.pc = "unmark" -> SweepAt("decr")
                    [] collect.pc = "lastunmark" -> SweepAt("clear")
                    [] collect.pc = "clear" -> Swept
    /\ UNCHANGED <<clock, client, rows, liveCount, objects, upload, unlink, recon, snapshot>>

\* DecrLiveChunkCount floors at zero.
GcDecr ==
    /\ collect.pc = "decr"
    /\ LET left == IF liveCount[collect.block] > 0 THEN liveCount[collect.block] - 1 ELSE 0
       IN  /\ liveCount' = [liveCount EXCEPT ![collect.block] = left]
           /\ collect' = SweepAt(IF left > 0 THEN "clear" ELSE "delete")
    /\ UNCHANGED <<clock, client, rows, loc, syncedAt, objects, upload, unlink, recon, snapshot>>

DeleteObject(b) ==
    /\ object' = [object EXCEPT ![b] = {}]
    /\ putAt' = [putAt EXCEPT ![b] = 0]
    /\ UNCHANGED minted

GcDeleteBlock ==
    /\ collect.pc = "delete"
    /\ DeleteObject(collect.block)
    /\ collect' = SweepAt("drop")
    /\ UNCHANGED <<clock, client, meta, upload, unlink, recon, snapshot>>

\* A failing store or remote call ends this hash: what is left is for the next sweep.
SweepFails ==
    /\ Does("fail") /\ collect.pc \in {"unmark", "decr", "delete", "drop", "lastunmark", "clear"}
    /\ collect' = Swept
    /\ UNCHANGED <<clock, client, meta, objects, upload, unlink, recon, snapshot>>

GcDropRecord ==
    /\ collect.pc = "drop"
    /\ liveCount' = [liveCount EXCEPT ![collect.block] = NoRecord]
    /\ collect' = SweepAt("lastunmark")
    /\ UNCHANGED <<clock, client, rows, loc, syncedAt, objects, upload, unlink, recon, snapshot>>

Sweeper == GcMark \/ GcHold \/ GcMarkFails \/ GcEnumerate \/ GcUnmark \/ GcDecr \/ GcDeleteBlock
             \/ SweepFails \/ GcDropRecord \/ \E h \in Hashes : GcPick(h)

-----------------------------------------------------------------------------
(* Compaction, under the same lock, after the sweep *)

Recorded == {b \in Blocks : liveCount[b] # NoRecord}
LiveIn(b) == {h \in Hashes : loc[h] = b}

\* The sweep is done.  CompactBlocks takes the recorded blocks with a live locator; the
\* live ratio that narrows them down is left open.
GcDone ==
    /\ collect.pc = "next" /\ collect.todo = {}
    /\ collect' = IF Does("compact")
                    THEN [pc |-> "compact", todo |-> {b \in Recorded : LiveIn(b) # {}}]
                    ELSE Inactive
    /\ UNCHANGED <<clock, client, meta, objects, upload, unlink, recon, snapshot>>

Compacting(pc, b) == [pc |-> pc, todo |-> collect.todo \ {b}, old |-> b,
                      moved |-> LiveIn(b) \cap object[b], block |-> None]
CompactAt(pc, b) == [pc |-> pc, todo |-> collect.todo, old |-> collect.old,
                     moved |-> collect.moved, block |-> b]
Skipped(b) == [pc |-> "compact", todo |-> collect.todo \ {b}]

\* compactOneBlock up to its first write: skip a block with nothing dead, finish a husk.
CompactPick(b) ==
    /\ collect.pc = "compact" /\ b \in collect.todo
    /\ LET moved == LiveIn(b) \cap object[b]
       IN  collect' = CASE liveCount[b] = NoRecord -> Skipped(b)
                          [] liveCount[b] # NoRecord /\ object[b] = {} -> Compacting("olddrop", b)
                          [] liveCount[b] # NoRecord /\ object[b] # {} /\ moved = object[b]
                               -> Skipped(b)
                          [] liveCount[b] # NoRecord /\ object[b] # {} /\ moved = {}
                               -> Compacting("olddelete", b)
                          [] OTHER -> Compacting("newput", b)
    /\ UNCHANGED <<clock, client, meta, objects, upload, unlink, recon, snapshot>>

CompactPut ==
    /\ collect.pc = "newput"
    /\ PutBlock(collect.moved)
    /\ collect' = CompactAt("newcommit", minted + 1)
    /\ UNCHANGED <<clock, client, meta, upload, unlink, recon, snapshot>>

CompactCommit ==
    /\ collect.pc = "newcommit"
    /\ CommitBlock(collect.block, collect.moved, Cardinality(collect.moved))
    /\ collect' = CompactAt("olddelete", collect.block)
    /\ UNCHANGED <<clock, client, rows, objects, upload, unlink, recon, snapshot>>

CompactDelete ==
    /\ collect.pc = "olddelete"
    /\ DeleteObject(collect.old)
    /\ collect' = CompactAt("olddrop", collect.block)
    /\ UNCHANGED <<clock, client, meta, upload, unlink, recon, snapshot>>

Compacted == [pc |-> "compact", todo |-> collect.todo]

CompactDrop ==
    /\ collect.pc = "olddrop"
    /\ liveCount' = [liveCount EXCEPT ![collect.old] = NoRecord]
    /\ collect' = Compacted
    /\ UNCHANGED <<clock, client, rows, loc, syncedAt, objects, upload, unlink, recon, snapshot>>

\* A failing step leaves the block for the next run.
CompactFails ==
    /\ Does("fail") /\ collect.pc \in {"newput", "newcommit", "olddelete", "olddrop"}
    /\ collect' = Compacted
    /\ UNCHANGED <<clock, client, meta, objects, upload, unlink, recon, snapshot>>

CompactDone ==
    /\ collect.pc = "compact" /\ collect.todo = {}
    /\ collect' = Inactive
    /\ UNCHANGED <<clock, client, meta, objects, upload, unlink, recon, snapshot>>

Compactor == GcDone \/ CompactPut \/ CompactCommit \/ CompactDelete \/ CompactDrop
               \/ CompactFails \/ CompactDone \/ \E b \in Blocks : CompactPick(b)

-----------------------------------------------------------------------------
(* ReconcileReclaim *)

\* The ids with a record are collected before the lock is taken.
ReconWalk ==
    /\ Does("reconcile") /\ recon.pc = "idle"
    /\ recon' = [pc |-> "walked", known |-> Recorded]
    /\ UNCHANGED <<clock, client, meta, objects, upload, unlink, collect, snapshot>>

\* ReclaimRecords: walk the records ...
ReclaimWalk ==
    /\ recon.pc = "walked" /\ LockFree
    /\ recon' = [pc |-> "live", known |-> recon.known, todo |-> Recorded]
    /\ UNCHANGED <<clock, client, meta, objects, upload, unlink, collect, snapshot>>

\* ... drop those a locator still points at ...
ReclaimLive ==
    /\ recon.pc = "live"
    /\ recon' = [pc |-> "records", known |-> recon.known,
                 todo |-> {b \in recon.todo : LiveIn(b) = {}}]
    /\ UNCHANGED <<clock, client, meta, objects, upload, unlink, collect, snapshot>>

\* ... and delete object then record of the rest.
ReclaimDelete(b) ==
    /\ recon.pc = "records" /\ b \in recon.todo
    /\ DeleteObject(b)
    /\ recon' = [pc |-> "recorddrop", known |-> recon.known, todo |-> recon.todo \ {b}, block |-> b]
    /\ UNCHANGED <<clock, client, meta, upload, unlink, collect, snapshot>>

ReclaimNext == [pc |-> "records", known |-> recon.known, todo |-> recon.todo]

ReclaimDrop ==
    /\ recon.pc = "recorddrop"
    /\ liveCount' = [liveCount EXCEPT ![recon.block] = NoRecord]
    /\ recon' = ReclaimNext
    /\ UNCHANGED <<clock, client, rows, loc, syncedAt, objects, upload, unlink, collect, snapshot>>

Orphans == {b \in Blocks : object[b] # {} /\ b \notin recon.known /\ putAt[b] < now}

\* ReclaimOrphanObjects: objects past grace without a known record.
OrphanWalk ==
    /\ recon.pc = "records" /\ recon.todo = {}
    /\ recon' = [pc |-> "orphans", todo |-> Orphans]
    /\ UNCHANGED <<clock, client, meta, objects, upload, unlink, collect, snapshot>>

OrphanDelete(b) ==
    /\ recon.pc = "orphans" /\ b \in recon.todo
    /\ DeleteObject(b)
    /\ recon' = [pc |-> "orphans", todo |-> recon.todo \ {b}]
    /\ UNCHANGED <<clock, client, meta, upload, unlink, collect, snapshot>>

\* A failed delete keeps its record or object for the next run.
ReclaimFails ==
    /\ Does("fail")
    /\ \/ /\ recon.pc = "records"
          /\ \E b \in recon.todo :
               recon' = [pc |-> "records", known |-> recon.known, todo |-> recon.todo \ {b}]
       \/ /\ recon.pc = "orphans"
          /\ \E b \in recon.todo : recon' = [pc |-> "orphans", todo |-> recon.todo \ {b}]
       \/ recon.pc = "recorddrop" /\ recon' = ReclaimNext
    /\ UNCHANGED <<clock, client, meta, objects, upload, unlink, collect, snapshot>>

ReconDone ==
    /\ recon.pc = "orphans" /\ recon.todo = {}
    /\ recon' = Inactive
    /\ UNCHANGED <<clock, client, meta, objects, upload, unlink, collect, snapshot>>

Reconciler == ReconWalk \/ ReclaimWalk \/ ReclaimLive \/ ReclaimDrop \/ OrphanWalk
                \/ ReclaimFails \/ ReconDone
                \/ \E b \in Blocks : ReclaimDelete(b) \/ OrphanDelete(b)

-----------------------------------------------------------------------------
(* Snapshots *)

\* DrainAllUploads returns: every write it found is on the remote.
SnapDrain ==
    /\ Does("snapshot") /\ snapshot.pc = "idle"
    /\ upload.pc = "idle" /\ \A f \in Payloads : DirtySlots(f) = {}
    /\ snapshot' = [pc |-> "drained"]
    /\ UNCHANGED <<clock, client, meta, objects, upload, unlink, collect, recon>>

\* WriteSnapshot: one consistent view of the rows.
SnapDump ==
    /\ snapshot.pc = "drained"
    /\ snapshot' = [pc |-> "dumped", hashes |-> RowHashes]
    /\ UNCHANGED <<clock, client, meta, objects, upload, unlink, collect, recon>>

\* WriteManifestAtomic: from here on the hold provider sees the hashes.  quiet records that
\* no collection was under way.
SnapManifest ==
    /\ snapshot.pc = "dumped"
    /\ snapshot' = [pc |-> "manifest", hashes |-> snapshot.hashes, quiet |-> collect.pc = "idle"]
    /\ UNCHANGED <<clock, client, meta, objects, upload, unlink, collect, recon>>

Backed(h) == loc[h] # None /\ h \in object[loc[h]]

Written(pc) == [pc |-> pc, hashes |-> snapshot.hashes, quiet |-> snapshot.quiet]

\* VerifyRemoteDurability, then ready or failed; both keep the manifest.
SnapVerify ==
    /\ snapshot.pc = "manifest"
    /\ snapshot' = Written(IF \A h \in snapshot.hashes : Backed(h) THEN "ready" ELSE "failed")
    /\ UNCHANGED <<clock, client, meta, objects, upload, unlink, collect, recon>>

\* DeleteSnapshot, excluded by the delete lock while GcHold reads the manifests.
SnapDelete ==
    /\ snapshot.pc \in {"ready", "failed"}
    /\ snapshot' = [pc |-> "gone"]
    /\ UNCHANGED <<clock, client, meta, objects, upload, unlink, collect, recon>>

Snapshots == SnapDrain \/ SnapDump \/ SnapManifest \/ SnapVerify \/ SnapDelete

-----------------------------------------------------------------------------
\* A grace period goes by.  It is longer than an upload with its commit, and, unless the
\* workload says "slow", than a reconcile pass.
Tick ==
    /\ now < MaxNow
    /\ upload.pc # "commit" /\ collect.pc # "newcommit"
    /\ Does("slow") \/ recon.pc = "idle"
    /\ now' = now + 1
    /\ UNCHANGED <<restarts, client, meta, objects, upload, unlink, collect, recon, snapshot>>

\* The process dies: stores and remote keep their contents, some synced bits may be lost,
\* and a snapshot being created comes back failed.
LifecycleCrash ==
    /\ Does("crash") /\ restarts < MaxRestarts
    /\ restarts' = restarts + 1
    /\ \E lost \in SUBSET {fs \in Payloads \X Slots : local[fs[1]][fs[2]] = "synced"} :
         local' = [f \in Payloads |-> [s \in Slots |->
                     IF <<f, s>> \in lost THEN "dirty" ELSE local[f][s]]]
    /\ upload' = Inactive /\ unlink' = Inactive /\ collect' = Inactive /\ recon' = Inactive
    /\ snapshot' = CASE snapshot.pc \in {"drained", "dumped"} -> [pc |-> "gone"]
                     [] snapshot.pc = "manifest" -> Written("failed")
                     [] OTHER -> snapshot
    /\ UNCHANGED <<now, content, deleted, written, meta, objects>>

Clients == \E f \in Payloads : UnlinkBegin(f) \/ \E s \in Slots, h \in Hashes : Write(f, s, h)

LifecycleNext == Clients \/ UnlinkReap \/ Uploader \/ Sweeper \/ Compactor \/ Reconciler
                   \/ Snapshots \/ Tick \/ LifecycleCrash

LifecycleSpec == LifecycleInit /\ [][LifecycleNext /\ UNCHANGED work]_<<lifecycleVars, work>>

-----------------------------------------------------------------------------
\* The stores, the remote and the clock keep their types.
LifecycleTypeOK ==
    /\ now \in 0..MaxNow /\ written \in 0..MaxHashes /\ minted \in 0..MaxBlocks
    /\ restarts \in 0..MaxRestarts /\ deleted \subseteq Payloads
    /\ content \in [Payloads -> [Slots -> Hashes \cup {None}]]
    /\ local \in [Payloads -> [Slots -> {"none", "dirty", "synced"}]]
    /\ rows \in [Payloads -> [Slots -> Hashes \cup {None}]]
    /\ loc \in [Hashes -> Blocks \cup {None}] /\ syncedAt \in [Hashes -> 0..MaxNow]
    /\ liveCount \in [Blocks -> 0..Cardinality(Slots) \cup {NoRecord}]
    /\ object \in [Blocks -> SUBSET Hashes] /\ putAt \in [Blocks -> 0..MaxNow]

LinkedHashes == {rows[f][s] : f \in Payloads \ deleted, s \in Slots} \ {None}

\* A manifest row of a linked file always resolves: its hash has a locator, and the block
\* named there is on the remote and holds the chunk.  Sweep, compaction and reconcile never
\* take it away.
RowsBacked == \A h \in LinkedHashes : Backed(h)

\* A slot the journal considers synced, and so may evict, is recoverable from the manifest:
\* its row names the current content and resolves.
SyncedRecoverable ==
    \A f \in Payloads, s \in Slots :
        local[f][s] = "synced" => rows[f][s] = content[f][s] /\ Backed(content[f][s])

\* LiveChunkCount never falls below the number of referenced chunks whose locator names the
\* block: the decrement runs at most once per dead chunk, across crashes and failed calls.
CountCovers ==
    \A b \in Recorded : liveCount[b] >= Cardinality(LiveIn(b) \cap LinkedHashes)

\* Every chunk of a ready snapshot whose manifest was written with no collection under way
\* stays on the remote until the snapshot is deleted.
SnapshotKept == snapshot.pc = "ready" /\ snapshot.quiet => \A h \in snapshot.hashes : Backed(h)

=============================================================================
