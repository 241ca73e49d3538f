------------------------------ MODULE Journal ------------------------------
(***************************************************************************)
(* One shard of the local journal (pkg/block/journal): the append-only     *)
(* segment files, the in-memory interval index over them, and the          *)
(* operations that run against each other: client writes, commits,         *)
(* deletes and truncations, the carver that uploads dirty ranges, the      *)
(* evictor, the repacking garbage collector, snapshot pins, and a crash    *)
(* followed by recovery.                                                   *)
(*                                                                         *)
(* A step is one critical section of sh.mu or one file operation outside   *)
(* it.  Payload bytes are abstracted to the write that produced them: val  *)
(* is <<incarnation, version>>, and Hole for a byte never written.  A      *)
(* segment holds SegmentRecords records instead of SegmentSize bytes.      *)
(***************************************************************************)
EXTENDS IntervalIndex, Sequences, SequencesExt, TLC, Workload

CONSTANTS Files,            \* the files of the shard
          FileSize,         \* a file is bytes 0 .. FileSize-1
          SegmentRecords,   \* records that fit in a segment
          MaxVersion,       \* bound: LSNs issued in one incarnation, by workload
          MaxSegments,      \* bound: segment ids a repack may start from
          MaxCrashes        \* bound: crashes

ASSUME JournalConstants ==
    /\ FileSize \in Nat \ {0} /\ SegmentRecords \in Nat \ {0}
    /\ {MaxSegments, MaxCrashes} \subseteq Nat /\ MaxVersion \in [Workloads -> Nat]

VARIABLES
    disk,      \* segment files: id -> [recs, flushed, sealed]
    segs,      \* attached segments: id -> [records, syncedRecords, deadBytes, busy]
    active,    \* the append target, one of segs
    nextSeg,   \* the next segment id
    index,     \* file -> set of intervals
    version,   \* the last LSN issued
    unsynced,  \* the dirty-byte counter behind backpressure
    pin,       \* the snapshot watermark, 0 when none
    remote,    \* file -> offset -> the vals committed to remote blocks
    carve,     \* the carve pass
    evict,     \* the eviction pass
    gc,        \* the repack pass
    op,        \* the delete or truncation in progress
    snap,      \* a snapshot being created: the captured watermark and view
    base,      \* history: the content at the start of this incarnation
    ops,       \* history: the logical changes since, in LSN order
    acked,     \* history: how many of ops a caller was told are durable
    crashes    \* incarnations lost so far

store == <<disk, segs, active, nextSeg>>
procs == <<carve, evict, gc, op, snap>>
history == <<work, base, ops, acked, crashes>>
vars == <<store, index, version, unsynced, pin, remote, procs, history>>

Offsets == 0 .. FileSize - 1
Hole == <<0, 0>>

\* The content that the first n changes of this incarnation make of its base.
ContentAfter(n) ==
    [f \in Files |-> [o \in Offsets |->
        LET hits == {i \in 1 .. n : ops[i].file = f /\ ops[i].lo <= o /\ o < ops[i].end}
        IN  IF hits = {} THEN base[f][o] ELSE ops[Max(hits)].val]]

Idle == [pc |-> "idle"]
Ranges == {r \in (0 .. FileSize) \X (0 .. FileSize) : r[1] < r[2]}

-----------------------------------------------------------------------------
(* Segments *)

EmptySegment == [recs |-> <<>>, flushed |-> 0, sealed |-> FALSE]
FreshMeta == [records |-> 0, syncedRecords |-> 0, deadBytes |-> 0, busy |-> FALSE]

\* fsync: the records written so far, and the flags flipped in them, survive a crash.
Flushed(seg) ==
    [seg EXCEPT !.flushed = Len(seg.recs),
                !.recs = [i \in DOMAIN seg.recs |->
                             IF seg.recs[i].synced = "cached"
                             THEN [seg.recs[i] EXCEPT !.synced = "disk"] ELSE seg.recs[i]]]

\* sealInPlace: fsync the records, set the sealed bit, fsync.
Sealed(seg) == [Flushed(seg) EXCEPT !.sealed = TRUE]

SealedSegs == DOMAIN segs \ {active}

Full == Len(disk[active].recs) >= SegmentRecords

\* Where the next record goes, and the files after writing it there.
Target == IF Full THEN nextSeg ELSE active

DiskAfterSeal == [disk EXCEPT ![active] = Sealed(@)] @@ (nextSeg :> EmptySegment)

DiskWith(rec) ==
    LET d == IF Full THEN DiskAfterSeal ELSE disk
    IN  [d EXCEPT ![Target].recs = Append(@, rec)]

SegsBefore == IF Full THEN segs @@ (nextSeg :> FreshMeta) ELSE segs

Rotate == /\ active' = Target
          /\ nextSeg' = IF Full THEN nextSeg + 1 ELSE nextSeg

Live(s) == {iv \in UNION {index[f] : f \in Files} : ~iv.cold /\ iv.seg = s}

DataRecs(s) == {i \in DOMAIN disk[s].recs : disk[s].recs[i].kind = "data"}

\* Payload bytes ever written to a segment (segmentMeta.liveBytes).
Occupied(s) ==
    FoldSet(LAMBDA i, n : n + disk[s].recs[i].end - disk[s].recs[i].fileOff, 0, DataRecs(s))

\* The lowest version in the segment is at or below the snapshot watermark.
Pinned(s) == pin # 0 /\ \E i \in DOMAIN disk[s].recs : disk[s].recs[i].version <= pin

\* Mutant: the synced gate is missing.
EvictableUngated(s) == ~segs[s].busy

\* evictable: every record of the segment is synced.
Evictable(s) == ~segs[s].busy /\ segs[s].syncedRecords = segs[s].records

\* retireSegment: drop the segment from the sealed set and unlink its file.
Retired(f, s) == [x \in DOMAIN f \ {s} |-> f[x]]

CarveMuFree == carve = Idle /\ gc = Idle /\ op.pc # "retire"

-----------------------------------------------------------------------------
(* Client operations *)

Logged(f, lo, hi, val) == ops' = Append(ops, [file |-> f, lo |-> lo, end |-> hi, val |-> val])

\* appendRecord: rotate if full, frame the record, index it, charge dead and dirty bytes.
AppendRecord(f, lo, hi, val, synced) ==
    LET rec == [kind |-> "data", file |-> f, fileOff |-> lo, end |-> hi,
                version |-> version + 1, val |-> val,
                synced |-> IF synced THEN "disk" ELSE "no"]
        iv == [fileOff |-> lo, end |-> hi, version |-> version + 1, seg |-> Target,
               rec |-> Len(DiskWith(rec)[Target].recs), off |-> 0,
               synced |-> synced, cold |-> FALSE, val |-> val]
        charged(s) == [SegsBefore[s] EXCEPT !.deadBytes = @ + DeadBytes(index[f], iv, s)]
    IN  /\ disk' = DiskWith(rec)
        /\ segs' = [s \in DOMAIN SegsBefore |->
                      IF s # Target THEN charged(s)
                      ELSE [charged(s) EXCEPT !.records = @ + 1,
                                              !.syncedRecords = @ + IF synced THEN 1 ELSE 0]]
        /\ Rotate
        /\ version' = version + 1
        /\ index' = [index EXCEPT ![f] = Insert(@, iv)]
        /\ unsynced' = unsynced + DirtyDelta(index[f], iv)

WriteAt(f, lo, hi) ==
    /\ Does("write") /\ version < MaxVersion[work]
    /\ AppendRecord(f, lo, hi, <<crashes, version + 1>>, FALSE)
    /\ Logged(f, lo, hi, <<crashes, version + 1>>)
    /\ UNCHANGED <<work, pin, remote, procs, base, acked, crashes>>

\* Hydrate: the bytes of an evicted range come back, born synced.  Here the caller
\* brings back exactly the range that is cold when the record is appended.
Hydrate(f, iv) ==
    /\ Does("hydrate") /\ version < MaxVersion[work]
    /\ iv.cold
    /\ AppendRecord(f, iv.fileOff, iv.end, iv.val, TRUE)
    /\ UNCHANGED <<pin, remote, procs, history>>

\* Commit: GroupCommit.tla has the protocol; its effect is one fsync of the active segment.
Commit ==
    /\ Does("commit")
    /\ acked < Len(ops)
    /\ disk' = [disk EXCEPT ![active] = Flushed(@)]
    /\ acked' = Len(ops)
    /\ UNCHANGED <<segs, active, nextSeg, index, version, unsynced, pin, remote, procs,
                   work, base, ops, crashes>>

\* appendTombstone, appendTruncateMarker: a payload-free record, written under the lock.
AppendMarker(kind, f, size) ==
    /\ op = Idle /\ version < MaxVersion[work]
    /\ disk' = DiskWith([kind |-> kind, file |-> f, fileOff |-> size, end |-> size,
                         version |-> version + 1, val |-> Hole, synced |-> "no"])
    /\ segs' = SegsBefore
    /\ Rotate
    /\ version' = version + 1
    /\ Logged(f, size, FileSize, Hole)
    /\ op' = [pc |-> "sync", kind |-> kind, file |-> f, size |-> size,
              version |-> version + 1, seg |-> Target, entry |-> Len(ops) + 1]
    /\ UNCHANGED <<index, unsynced, pin, remote, carve, evict, gc, snap, work, base, acked, crashes>>

Delete(f) == Does("delete") /\ AppendMarker("tombstone", f, 0)

\* Truncate does nothing when no interval reaches past size.
Truncate(f, size) ==
    /\ Does("truncate")
    /\ \E iv \in index[f] : iv.end > size
    /\ AppendMarker("truncate", f, size)

\* Mutant: the marker is not fsynced before it is applied.
MarkerNotSynced ==
    /\ op.pc = "sync" /\ op.seg \in DOMAIN disk
    /\ op' = [op EXCEPT !.pc = "apply"]
    /\ UNCHANGED <<store, index, version, unsynced, pin, remote, carve, evict, gc, snap, history>>

\* The marker's fsync, outside the lock; the file may have been unlinked meanwhile.
MarkerSync ==
    /\ op.pc = "sync" /\ op.seg \in DOMAIN disk
    /\ disk' = [disk EXCEPT ![op.seg] = Flushed(@)]
    /\ op' = [op EXCEPT !.pc = "apply"]
    /\ UNCHANGED <<segs, active, nextSeg, index, version, unsynced, pin, remote,
                   carve, evict, gc, snap, history>>

MarkerSyncFails ==
    /\ op.pc = "sync" /\ (op.seg \in DOMAIN disk => Does("fsyncfail"))
    /\ op' = Idle
    /\ ops' = [ops EXCEPT ![op.entry].end = ops[op.entry].lo]
    /\ UNCHANGED <<store, index, version, unsynced, pin, remote, carve, evict, gc, snap,
                   work, base, acked, crashes>>

\* Mutant: writes that raced past the marker are counted too.
CutUnfenced(ivs, fence, size) ==
    {Clamp(iv, Larger(iv.fileOff, size), iv.end) : iv \in {x \in ivs : x.end > size}}

\* The clip: what a marker at fence removes of an interval past size.
Cut(ivs, fence, size) ==
    {Clamp(iv, Larger(iv.fileOff, size), iv.end) :
        iv \in {x \in ivs : x.version <= fence /\ x.end > size}}

\* Delete buries everything (size 0); Truncate clips to size.
MarkerApply ==
    LET ivs == index[op.file]
        cut == Cut(ivs, op.version, op.size)
        \* a straddler counts as dirty even when cold; an interval wholly past size does not
        dirty == Cut({iv \in ivs : ~iv.synced /\ (iv.cold => iv.fileOff < op.size)},
                     op.version, op.size)
    IN  /\ op.pc = "apply"
        /\ index' = [index EXCEPT ![op.file] = ClipTo(ivs, op.version, op.size)]
        /\ segs' = [s \in DOMAIN segs |->
                      [segs[s] EXCEPT !.deadBytes =
                          @ + Bytes({c \in cut : ~c.cold /\ c.seg = s})]]
        /\ unsynced' = unsynced - Bytes(dirty)
        /\ acked' = Larger(acked, op.entry)
        /\ op' = IF op.kind = "tombstone" THEN [pc |-> "reclaim"] ELSE Idle
        /\ UNCHANGED <<disk, active, nextSeg, version, pin, remote, carve, evict, gc, snap,
                       work, base, ops, crashes>>

FullySynced(s) == ~segs[s].busy /\ segs[s].records > 0 /\ segs[s].syncedRecords = segs[s].records

\* Force-seal the active segment and open the next one.
SealActive ==
    /\ disk' = DiskAfterSeal
    /\ segs' = segs @@ (nextSeg :> FreshMeta)
    /\ active' = nextSeg
    /\ nextSeg' = nextSeg + 1

\* reclaimEmptied: under carveMu, seal a dead synced active segment, collect the
\* sealed segments that back nothing.
ReclaimCollect ==
    LET seal == Live(active) = {} /\ FullySynced(active) /\ ~Pinned(active)
        victims == {s \in SealedSegs : Live(s) = {} /\ Evictable(s) /\ ~Pinned(s)}
                     \cup (IF seal THEN {active} ELSE {})
    IN  /\ op.pc = "reclaim" /\ CarveMuFree
        /\ IF seal THEN SealActive ELSE UNCHANGED store
        /\ op' = IF victims = {} THEN Idle ELSE [pc |-> "retire", victims |-> victims]
        /\ UNCHANGED <<index, version, unsynced, pin, remote, carve, evict, gc, snap, history>>

\* Retire one victim, unless eviction or GC claimed it first.
ReclaimRetire(s) ==
    /\ op.pc = "retire" /\ s \in op.victims
    /\ IF s \in DOMAIN segs /\ ~segs[s].busy
       THEN disk' = Retired(disk, s) /\ segs' = Retired(segs, s)
       ELSE UNCHANGED <<disk, segs>>
    /\ op' = IF op.victims = {s} THEN Idle ELSE [op EXCEPT !.victims = @ \ {s}]
    /\ UNCHANGED <<active, nextSeg, index, version, unsynced, pin, remote, carve, evict, gc,
                   snap, history>>

-----------------------------------------------------------------------------
(* Carve: upload dirty ranges, then flip their records to synced *)

\* carveFile: snapshot the file's dirty intervals under the lock.
CarveSnapshot(f) ==
    LET dirty == {iv \in index[f] : Dirty(iv)}
    IN  /\ Does("carve") /\ CarveMuFree /\ dirty # {}
        /\ carve' = [pc |-> "pack", file |-> f, run |-> dirty, at |-> 0]
        /\ UNCHANGED <<store, index, version, unsynced, pin, remote, evict, gc, op, snap, history>>

\* The bytes of the snapshot from the frontier up to a block boundary w; a block
\* never spans a hole, and w is wherever the chunker and the block size put it.
Block(w) == {o \in Offsets : carve.at <= o /\ o < w /\ Covering(carve.run, o) # {}}

\* carveRun, commitAndFlip: read the bytes, commit the block to the remote.
CarveCommit(w) ==
    LET bytes == Block(w)
        from == {iv \in carve.run : \E o \in bytes : iv \in Covering(carve.run, o)}
        valAt(o) == (CHOOSE iv \in Covering(carve.run, o) : TRUE).val
    IN  /\ carve.pc = "pack"
        /\ w - 1 \in bytes
        /\ bytes = Min(bytes) .. w - 1
        /\ \A iv \in from : iv.seg \in DOMAIN segs
        /\ remote' = [remote EXCEPT ![carve.file] =
                        [o \in Offsets |-> IF o \in bytes THEN @[o] \cup {valAt(o)} ELSE @[o]]]
        /\ carve' = [carve EXCEPT !.pc = "flip", !.at = w]
        /\ UNCHANGED <<store, index, version, unsynced, pin, evict, gc, op, snap, history>>

\* The live dirty intervals that flipUpTo resolves the snapshot's entries to.
Flipped(done) ==
    {k \in index[carve.file] :
        /\ ~k.synced
        /\ \E iv \in done : k \in FindRecord(index[carve.file], iv.fileOff, iv.version)}

\* A record's on-disk bit is set once none of its live fragments is dirty.
RecordsToFlip(done, after) ==
    {<<iv.seg, iv.rec>> :
        iv \in {x \in done :
            /\ FindRecord(Flipped(done), x.fileOff, x.version) # {}
            /\ x.seg \in DOMAIN segs
            /\ disk[x.seg].recs[x.rec].synced = "no"
            /\ ~\E y \in after : y.seg = x.seg /\ y.rec = x.rec /\ Dirty(y)}}

\* Mutant: an entry is flipped as soon as a block holds its first bytes.
DurableEarly(run, at) == {iv \in run : iv.fileOff < at}

\* The snapshot's entries that end at or before the durable frontier.
Durable(run, at) == {iv \in run : iv.end <= at}

\* flipUpTo: in memory first, then the records' flag bytes, not fsynced.
CarveFlip ==
    LET done == Durable(carve.run, carve.at)
        hit == Flipped(done)
        after == (index[carve.file] \ hit) \cup {[k EXCEPT !.synced = TRUE] : k \in hit}
        flips == RecordsToFlip(done, after)
        rest == carve.run \ done
    IN  /\ carve.pc = "flip"
        /\ index' = [index EXCEPT ![carve.file] = after]
        /\ unsynced' = unsynced - Bytes(hit)
        /\ disk' = [s \in DOMAIN disk |->
                      [disk[s] EXCEPT !.recs =
                          [i \in DOMAIN disk[s].recs |->
                              IF <<s, i>> \in flips
                              THEN [disk[s].recs[i] EXCEPT !.synced = "cached"]
                              ELSE disk[s].recs[i]]]]
        /\ segs' = [s \in DOMAIN segs |->
                      [segs[s] EXCEPT !.syncedRecords =
                          @ + Cardinality({x \in flips : x[1] = s})]]
        /\ carve' = IF rest = {} THEN Idle ELSE [carve EXCEPT !.pc = "pack", !.run = rest]
        /\ UNCHANGED <<active, nextSeg, version, pin, remote, evict, gc, op, snap, history>>

\* A read, dedup, upload, commit or flip error, or a cancelled context, ends the file's pass.
CarveAbort ==
    /\ carve # Idle
    /\ carve' = Idle
    /\ UNCHANGED <<store, index, version, unsynced, pin, remote, evict, gc, op, snap, history>>

-----------------------------------------------------------------------------
(* Eviction *)

\* claimColdestEvictable, in any access order.
EvictClaim(s) ==
    /\ Does("evict") /\ evict = Idle
    /\ s \in SealedSegs /\ Evictable(s) /\ ~Pinned(s)
    /\ segs' = [segs EXCEPT ![s].busy = TRUE]
    /\ evict' = [pc |-> "mark", seg |-> s]
    /\ UNCHANGED <<disk, active, nextSeg, index, version, unsynced, pin, remote, carve, gc, op,
                   snap, history>>

\* sealSyncedActives: an explicit Evict finds nothing sealed to take.
SealSyncedActives ==
    /\ Does("evict") /\ evict = Idle
    /\ ~\E s \in SealedSegs : Evictable(s) /\ ~Pinned(s)
    /\ FullySynced(active) /\ ~Pinned(active)
    /\ SealActive
    /\ UNCHANGED <<index, version, unsynced, pin, remote, procs, history>>

\* evictSegment: every live interval of the segment becomes a cold marker.
EvictMark ==
    /\ evict.pc = "mark"
    /\ index' = [f \in Files |->
                   {IF iv.seg = evict.seg THEN [iv EXCEPT !.cold = TRUE] ELSE iv :
                       iv \in index[f]}]
    /\ evict' = [evict EXCEPT !.pc = "retire"]
    /\ UNCHANGED <<store, version, unsynced, pin, remote, carve, gc, op, snap, history>>

EvictRetire ==
    /\ evict.pc = "retire"
    /\ disk' = Retired(disk, evict.seg)
    /\ segs' = Retired(segs, evict.seg)
    /\ evict' = Idle
    /\ UNCHANGED <<active, nextSeg, index, version, unsynced, pin, remote, carve, gc, op, snap,
                   history>>

-----------------------------------------------------------------------------
(* Repacking garbage collection, under carveMu *)

Dead(s) == Occupied(s) - Bytes(Live(s))

\* Mutant: the pin is not consulted.
RepackableUnpinned == {s \in SealedSegs : ~segs[s].busy /\ segs[s].deadBytes > 0 /\ Dead(s) > 0}

Repackable == {s \in SealedSegs : /\ ~segs[s].busy /\ ~Pinned(s)
                                 /\ segs[s].deadBytes > 0 /\ Dead(s) > 0}

\* gcShard, pickVictim: claim the segment with the highest dead fraction.
GcClaim(s) ==
    /\ Does("repack") /\ CarveMuFree /\ nextSeg <= MaxSegments
    /\ s \in Repackable
    /\ \A t \in Repackable : Dead(t) * Occupied(s) <= Dead(s) * Occupied(t)
    /\ segs' = [segs EXCEPT ![s].busy = TRUE]
    /\ gc' = [pc |-> "copy", victim |-> s]
    /\ UNCHANGED <<disk, active, nextSeg, index, version, unsynced, pin, remote, carve, evict,
                   op, snap, history>>

\* The victim's live intervals as records, then its tombstones and truncate markers.
Relocated(s) ==
    LET liveRecs == {[kind |-> "data", file |-> f, fileOff |-> iv.fileOff, end |-> iv.end,
                      version |-> iv.version, val |-> iv.val,
                      synced |-> IF iv.synced THEN "disk" ELSE "no"] :
                        <<f, iv>> \in {x \in Files \X Live(s) : x[2] \in index[x[1]]}}
    IN  SetToSeq(liveRecs) \o SelectSeq(disk[s].recs, LAMBDA r : r.kind # "data")

\* repackSegment, steps 1 and 2: write the survivors to a segment no one can reach yet.
GcCopy ==
    LET recs == Relocated(gc.victim)
    IN  /\ gc.pc = "copy"
        /\ IF recs = <<>>
           THEN /\ gc' = [gc EXCEPT !.pc = "retire"]
                /\ UNCHANGED <<disk, nextSeg>>
           ELSE /\ disk' = disk @@ (nextSeg :> [EmptySegment EXCEPT !.recs = recs])
                /\ nextSeg' = nextSeg + 1
                /\ gc' = [pc |-> "seal", victim |-> gc.victim, target |-> nextSeg]
        /\ UNCHANGED <<segs, active, index, version, unsynced, pin, remote, carve, evict, op,
                       snap, history>>

\* Mutant: the target is not fsynced before the index names it.
GcNoSeal ==
    /\ gc.pc = "seal"
    /\ gc' = [gc EXCEPT !.pc = "repoint"]
    /\ UNCHANGED <<store, index, version, unsynced, pin, remote, carve, evict, op, snap, history>>

\* Step 3: fsync and seal the target.
GcSeal ==
    /\ gc.pc = "seal"
    /\ disk' = [disk EXCEPT ![gc.target] = Sealed(@)]
    /\ gc' = [gc EXCEPT !.pc = "repoint"]
    /\ UNCHANGED <<segs, active, nextSeg, index, version, unsynced, pin, remote, carve, evict,
                   op, snap, history>>

\* The target cannot be written or sealed: remove it, release the victim.
GcFails ==
    /\ Does("fsyncfail") /\ gc.pc = "seal"
    /\ disk' = Retired(disk, gc.target)
    /\ segs' = [segs EXCEPT ![gc.victim].busy = FALSE]
    /\ gc' = Idle
    /\ UNCHANGED <<active, nextSeg, index, version, unsynced, pin, remote, carve, evict, op,
                   snap, history>>

\* findMove: the relocated record that contains iv at its version.
Moves(f, iv, recs) ==
    {i \in DOMAIN recs : /\ recs[i].kind = "data" /\ recs[i].file = f
                         /\ recs[i].version = iv.version
                         /\ recs[i].fileOff <= iv.fileOff /\ iv.end <= recs[i].end}

Repointed(f, iv) ==
    LET recs == disk[gc.target].recs
        i == CHOOSE m \in Moves(f, iv, recs) : TRUE
    IN  IF iv.cold \/ iv.seg # gc.victim \/ Moves(f, iv, recs) = {} THEN iv
        ELSE [iv EXCEPT !.seg = gc.target, !.rec = i, !.off = iv.fileOff - recs[i].fileOff]

\* Step 4: repoint the index and attach the target, with the counters that
\* repackSegment stores; records and deadBytes are not among them.
TargetMeta(recs) ==
    [FreshMeta EXCEPT !.syncedRecords = Cardinality({i \in DOMAIN recs : recs[i].synced = "disk"})]

GcRepoint ==
    LET after == [f \in Files |-> {Repointed(f, iv) : iv \in index[f]}]
        keep == \E f \in Files : \E iv \in after[f] : ~iv.cold /\ iv.seg = gc.victim
        attached == segs @@ (gc.target :> TargetMeta(disk[gc.target].recs))
    IN  /\ gc.pc = "repoint"
        /\ index' = after
        /\ segs' = IF keep THEN [attached EXCEPT ![gc.victim].busy = FALSE] ELSE attached
        /\ gc' = IF keep THEN Idle ELSE [gc EXCEPT !.pc = "retire"]
        /\ UNCHANGED <<disk, active, nextSeg, version, unsynced, pin, remote, carve, evict, op,
                       snap, history>>

\* Step 5, and dropVictim when there was nothing to move.
GcRetire ==
    /\ gc.pc = "retire"
    /\ disk' = Retired(disk, gc.victim)
    /\ segs' = Retired(segs, gc.victim)
    /\ gc' = Idle
    /\ UNCHANGED <<active, nextSeg, index, version, unsynced, pin, remote, carve, evict, op,
                   snap, history>>

-----------------------------------------------------------------------------
(* Replay of the records on disk, up to a ceiling version *)

IntervalOf(d, s, i) ==
    LET r == d[s].recs[i]
    IN  [fileOff |-> r.fileOff, end |-> r.end, version |-> r.version, seg |-> s, rec |-> i,
         off |-> 0, synced |-> r.synced # "no", cold |-> FALSE, val |-> r.val]

\* Only the highest tombstone and the highest truncate marker of a file are kept.
Markers(d, f, kind, ceiling) ==
    {r \in UNION {Range(d[s].recs) : s \in DOMAIN d} :
        r.kind = kind /\ r.file = f /\ r.version <= ceiling}

Honour(ivs, marks) ==
    IF marks = {} THEN ivs
    ELSE LET m == CHOOSE x \in marks : \A y \in marks : y.version <= x.version
         IN  ClipTo(ivs, m.version, m.fileOff)

\* The index of f rebuilt from its data records at or below the ceiling: segments by
\* ascending id, records in append order.
Replayed(d, f, ceiling) ==
    LET counted(s, i) ==
            LET r == d[s].recs[i] IN r.kind = "data" /\ r.file = f /\ r.version <= ceiling
        segment(acc, s) ==
            IF s \notin DOMAIN d THEN acc
            ELSE FoldLeft(LAMBDA ivs, i : IF counted(s, i) THEN Insert(ivs, IntervalOf(d, s, i))
                                          ELSE ivs,
                          acc, [i \in DOMAIN d[s].recs |-> i])
        ivs == FoldLeft(segment, {}, [s \in 1 .. Max(DOMAIN d) |-> s])
    IN  Honour(Honour(ivs, Markers(d, f, "tombstone", ceiling)),
               Markers(d, f, "truncate", ceiling))

\* What a reader sees of a byte.
ByteOf(ivs, o) == IF Covering(ivs, o) = {} THEN Hole ELSE (CHOOSE iv \in Covering(ivs, o) : TRUE).val

View(idx) == [f \in Files |-> [o \in Offsets |-> ByteOf(idx[f], o)]]

CeilingView(ceiling) == View([f \in Files |-> Replayed(disk, f, ceiling)])

-----------------------------------------------------------------------------
(* Snapshot watermark *)

\* JournalVersion, read when a snapshot's uploads are drained.
CaptureVersion ==
    /\ Does("pin") /\ snap = Idle /\ version > 0
    /\ snap' = [pc |-> "captured", version |-> version, quiet |-> FALSE,
                view |-> ContentAfter(Len(ops))]
    /\ UNCHANGED <<store, index, version, unsynced, pin, remote, carve, evict, gc, op, history>>

\* A segment is claimed or about to be retired.
Reclaiming == evict # Idle \/ gc # Idle \/ op.pc = "retire"

\* raisePinForLocalOnly, SetPinVersion, just before the snapshot is marked ready.
RaisePin ==
    /\ snap.pc = "captured"
    /\ pin' = snap.version
    /\ snap' = [snap EXCEPT !.pc = "ready", !.quiet = ~Reclaiming]
    /\ UNCHANGED <<store, index, version, unsynced, remote, carve, evict, gc, op, history>>

\* recomputePinVersion after the snapshot's deletion.
ReleasePin ==
    /\ snap.pc = "ready"
    /\ pin' = 0
    /\ snap' = Idle
    /\ UNCHANGED <<store, index, version, unsynced, remote, carve, evict, gc, op, history>>

-----------------------------------------------------------------------------
(* Crash and recovery *)

\* Segments with records no fsync has covered: any suffix of those may be lost.
Volatile == {s \in DOMAIN disk : disk[s].flushed < Len(disk[s].recs)}

\* Flag bytes flipped since the last fsync: each may be lost.
CachedFlips ==
    {<<s, i>> \in UNION {{s} \X DOMAIN disk[s].recs : s \in DOMAIN disk} :
        disk[s].recs[i].synced = "cached"}

\* The files a crash leaves; scanValidRecords cuts each at its first torn record.
Surviving(keep, lost) ==
    [s \in DOMAIN disk |->
        LET n == IF s \in Volatile THEN keep[s] ELSE Len(disk[s].recs)
        IN  [sealed |-> disk[s].sealed, flushed |-> n,
             recs |-> [i \in 1 .. n |->
                          LET r == disk[s].recs[i]
                          IN  IF r.synced # "cached" THEN r
                              ELSE [r EXCEPT !.synced = IF <<s, i>> \in lost THEN "no"
                                                        ELSE "disk"]]]]

Empties(d) == {s \in DOMAIN d : ~d[s].sealed /\ d[s].recs = <<>>}
Unsealed(d) == {s \in DOMAIN d : ~d[s].sealed} \ Empties(d)

\* The highest unsealed segment with records, else a pooled empty one, else a fresh one.
RecoveredActive(d) ==
    IF Unsealed(d) # {} THEN Max(Unsealed(d))
    ELSE IF Empties(d) # {} THEN Min(Empties(d))
    ELSE Max(DOMAIN d \cup {0}) + 1

\* The counters recovery rebuilds from the records and the replayed index.
RecoveredMeta(d, idx, s) ==
    LET data == {i \in DOMAIN d[s].recs : d[s].recs[i].kind = "data"}
        live == {iv \in UNION {idx[f] : f \in Files} : iv.seg = s}
        occupied == FoldSet(LAMBDA i, n : n + d[s].recs[i].end - d[s].recs[i].fileOff, 0, data)
    IN  [records |-> Cardinality(data), deadBytes |-> occupied - Bytes(live), busy |-> FALSE,
         syncedRecords |-> Cardinality({i \in data : d[s].recs[i].synced # "no"})]

\* recover: attach the segments, replay the index, reset every process and counter.
Recover(d) ==
    LET act == RecoveredActive(d)
        all == d @@ (act :> EmptySegment)
        versions == {r.version : r \in UNION {Range(d[s].recs) : s \in DOMAIN d}}
        idx == [f \in Files |-> Replayed(d, f, Max(versions \cup {0}))]
    IN  /\ \E swept \in SUBSET (Empties(d) \ {act}) : disk' = [s \in DOMAIN all \ swept |-> all[s]]
        /\ segs' = [s \in DOMAIN all \ (Empties(d) \ {act}) |-> RecoveredMeta(all, idx, s)]
        /\ active' = act
        /\ nextSeg' = Max(DOMAIN all) + 1
        /\ index' = idx
        /\ version' = Max(versions \cup {0})
        /\ unsynced' = Bytes(UNION {{iv \in idx[f] : ~iv.synced} : f \in Files})
        /\ base' = View(idx)

\* A crash at any point, then Open; the pin is set again from the snapshots that are ready.
CrashRecover ==
    /\ Does("crash") /\ crashes < MaxCrashes
    /\ \E keep \in {k \in [Volatile -> 0 .. Max({Len(disk[s].recs) : s \in DOMAIN disk})] :
                       \A s \in Volatile : k[s] \in disk[s].flushed .. Len(disk[s].recs)},
          lost \in SUBSET CachedFlips :
           Recover(Surviving(keep, lost))
    /\ snap' = IF snap.pc = "ready" THEN snap ELSE Idle
    /\ carve' = Idle /\ evict' = Idle /\ gc' = Idle /\ op' = Idle
    /\ ops' = <<>> /\ acked' = 0 /\ crashes' = crashes + 1
    /\ UNCHANGED <<work, pin, remote>>

-----------------------------------------------------------------------------
(* Specification *)

NoBytes == [f \in Files |-> [o \in Offsets |-> Hole]]

Init ==
    /\ work \in Workloads
    /\ disk = (1 :> EmptySegment) /\ segs = (1 :> FreshMeta) /\ active = 1 /\ nextSeg = 2
    /\ index = [f \in Files |-> {}]
    /\ version = 0 /\ unsynced = 0 /\ pin = 0
    /\ remote = [f \in Files |-> [o \in Offsets |-> {}]]
    /\ carve = Idle /\ evict = Idle /\ gc = Idle /\ op = Idle /\ snap = Idle
    /\ base = NoBytes /\ ops = <<>> /\ acked = 0 /\ crashes = 0

Client ==
    \/ \E f \in Files : \/ \E r \in Ranges : WriteAt(f, r[1], r[2])
                        \/ \E iv \in index[f] : Hydrate(f, iv)
                        \/ Delete(f)
                        \/ \E size \in Offsets : Truncate(f, size)
    \/ Commit \/ MarkerSync \/ MarkerSyncFails \/ MarkerApply
    \/ ReclaimCollect \/ (op.pc = "retire" /\ \E s \in op.victims : ReclaimRetire(s))

Carver ==
    \/ \E f \in Files : CarveSnapshot(f)
    \/ \E w \in 1 .. FileSize : CarveCommit(w)
    \/ CarveFlip \/ CarveAbort

Evictor == (\E s \in DOMAIN disk : EvictClaim(s)) \/ SealSyncedActives \/ EvictMark \/ EvictRetire

Collector == (\E s \in DOMAIN disk : GcClaim(s)) \/ GcCopy \/ GcSeal \/ GcFails \/ GcRepoint \/ GcRetire

Snapshotter == CaptureVersion \/ RaisePin \/ ReleasePin

Next == Client \/ Carver \/ Evictor \/ Collector \/ Snapshotter \/ CrashRecover

Spec == Init /\ [][Next]_vars

-----------------------------------------------------------------------------
(* Properties *)

Intervals == [fileOff : Nat, end : Nat, version : Nat, seg : Nat, rec : Nat, off : Nat,
              synced : BOOLEAN, cold : BOOLEAN, val : Nat \X Nat]

\* Type invariant.
TypeOK ==
    /\ \A s \in DOMAIN disk : disk[s].flushed \in 0 .. Len(disk[s].recs)
    /\ \A s \in DOMAIN segs : /\ s \in DOMAIN disk /\ segs[s].busy \in BOOLEAN
                             /\ segs[s].records \in Nat /\ segs[s].syncedRecords \in Nat
    /\ active \in DOMAIN segs /\ \A s \in DOMAIN disk : s < nextSeg
    /\ \A f \in Files : \A iv \in index[f] : iv \in Intervals /\ iv.fileOff < iv.end
    /\ {carve.pc, evict.pc, gc.pc, op.pc, snap.pc} \subseteq
          {"idle", "pack", "flip", "mark", "copy", "seal", "repoint", "retire", "sync",
           "apply", "reclaim", "captured", "ready"}
    /\ acked \in 0 .. Len(ops) /\ crashes \in 0 .. MaxCrashes

\* A read at any moment between two client operations returns, for each byte, the last
\* write or removal of it (newest wins), whatever carving, eviction, hydration and
\* repacking have done in between.  A byte that is cold still has its value here.
LiveView == op.pc \notin {"sync", "apply"} => View(index) = ContentAfter(Len(ops))

\* Every local interval points into an attached segment, at a record of its file and
\* version that holds its bytes at the offset it names (ReadAt: "unknown segment").
Located ==
    \A f \in Files : \A iv \in index[f] : ~iv.cold =>
        /\ iv.seg \in DOMAIN segs
        /\ iv.rec \in DOMAIN disk[iv.seg].recs
        /\ LET r == disk[iv.seg].recs[iv.rec]
           IN  /\ r.kind = "data" /\ r.file = f /\ r.version = iv.version /\ r.val = iv.val
               /\ r.fileOff + iv.off = iv.fileOff /\ iv.end <= r.end

\* Eviction never destroys the only copy of dirty bytes: every byte of a cold interval
\* is in a block committed to the remote.
NoDirtyLoss ==
    \A f \in Files : \A iv \in index[f] : iv.cold =>
        \A o \in iv.fileOff .. iv.end - 1 : iv.val \in remote[f][o]

\* The commit comes strictly before the flip: synced bytes are in the remote, until a
\* crash.  A record that an unsynced write supersedes in part is flipped once the rest of
\* it is uploaded, and recovery then takes the whole record as synced.
SyncedWasCommitted ==
    crashes = 0 => \A f \in Files : \A iv \in index[f] : iv.synced =>
        \A o \in iv.fileOff .. iv.end - 1 : iv.val \in remote[f][o]

\* Recovery returns the content after some prefix of the changes, at least every change
\* whose caller was told it is durable (Commit: "buffered writes become durable").
AckedSurvives ==
    [][crashes' # crashes => base' \in {ContentAfter(i) : i \in acked .. Len(ops)}]_vars

\* The same where nothing is repacked or evicted.  Repack may drop the record of an
\* acknowledged write that only an unsynced one supersedes, and an evicted range is a
\* hole after a restart.
RecoverySound ==
    [][crashes' # crashes /\ work \cap {"repack", "evict"} = {}
         => base' \in {ContentAfter(i) : i \in acked .. Len(ops)}]_vars

\* When every change was acknowledged and no removal failed, recovery returns exactly the
\* content, at whatever point the carve or the repack in progress was interrupted.
CommittedSurvives ==
    [][crashes' # crashes /\ acked = Len(ops) /\ (\A i \in DOMAIN ops : ops[i].lo < ops[i].end)
         => base' = ContentAfter(Len(ops))]_vars

\* The counter that backpressure reads equals the live dirty bytes.  Eviction is left
\* out: a remnant marked dirty again by an overwrite turns cold without leaving the count.
UnsyncedAccounting ==
    ~Does("evict") =>
      unsynced = Bytes(UNION {{iv \in index[f] : Dirty(iv)} : f \in Files})

\* recover reads the first record of every sealed segment to find its shard.
SealedHasRecords == \A s \in DOMAIN disk : disk[s].sealed => disk[s].recs # <<>>

\* Once the pin is up, and no segment was claimed before it was, no step of any process
\* changes what a replay up to the pin gives.
PinFreezes ==
    [][snap.pc = "ready" /\ snap' = snap /\ snap.quiet /\ crashes' = crashes /\ disk' # disk =>
          CeilingView(snap.version)' = CeilingView(snap.version)]_vars
=============================================================================
