---------------------------- MODULE IndexReplay ----------------------------
(***************************************************************************)
(* Recovery's replay of one file's data records into a fresh index         *)
(* (pkg/block/journal/recovery.go), in any order: a repack moves records   *)
(* to younger segments, so replay order is not version order.              *)
(***************************************************************************)
EXTENDS IntervalIndex

CONSTANTS ReplaySize,       \* the file is bytes 0 .. ReplaySize-1
          ReplayVersions    \* records have versions 1 .. ReplayVersions

ASSUME ReplayConstants == ReplaySize \in Nat \ {0} /\ ReplayVersions \in Nat

VARIABLES ivs,      \* the index being rebuilt
          replayed  \* the records inserted so far

replayVars == <<ivs, replayed>>

ReplayRecord ==
    {r \in [fileOff : 0 .. ReplaySize, end : 0 .. ReplaySize, version : 1 .. ReplayVersions,
            synced : BOOLEAN] : r.fileOff < r.end}

AsInterval(r) ==
    [fileOff |-> r.fileOff, end |-> r.end, version |-> r.version, seg |-> r.version,
     rec |-> 1, off |-> 0, synced |-> r.synced, cold |-> FALSE]

\* Type invariant: intervals are non-empty and within the file.
ReplayTypeOK ==
    /\ replayed \subseteq ReplayRecord
    /\ \A iv \in ivs : /\ iv.fileOff \in 0 .. ReplaySize /\ iv.end \in 0 .. ReplaySize
                       /\ iv.fileOff < iv.end
                       /\ iv.version \in 1 .. ReplayVersions
                       /\ iv.synced \in BOOLEAN /\ iv.cold \in BOOLEAN

ReplayInit == ivs = {} /\ replayed = {}

\* One record of the segment scan; a version names one record.
ReplayOne(r) ==
    /\ \A x \in replayed : x.version # r.version
    /\ ivs' = Insert(ivs, AsInterval(r))
    /\ replayed' = replayed \cup {r}

ReplayNext == \E r \in ReplayRecord : ReplayOne(r)

ReplaySpec == ReplayInit /\ [][ReplayNext]_replayVars

-----------------------------------------------------------------------------
ReplayOffsets == 0 .. ReplaySize - 1

WroteByte(r, o) == r.fileOff <= o /\ o < r.end

\* The record that owns a byte: the newest of those that wrote it.
NewestOf(o) ==
    {r \in replayed : /\ WroteByte(r, o)
                      /\ \A x \in replayed : WroteByte(x, o) => x.version <= r.version}

\* Whatever the replay order, every byte is covered by at most one interval, and
\* that one belongs to the newest record that wrote the byte and points at that
\* record's payload byte for it (index.go insert, clamp, without).
NewestWins ==
    \A o \in ReplayOffsets :
        {[v |-> iv.version, p |-> iv.off + (o - iv.fileOff)] : iv \in Covering(ivs, o)}
          = {[v |-> r.version, p |-> o - r.fileOff] : r \in NewestOf(o)}

\* insert keeps the sorted slice free of overlaps, which plan and findRecord rely on:
\* no two intervals share a byte, whatever the replay order.
Disjoint == \A a, b \in ivs : a # b => ~Overlaps(a, b.fileOff, b.end)

\* Whatever the replay order, a live byte is clean exactly when its record is
\* synced and no newer record took any of that record's bytes: a fragment of a
\* partly superseded record always goes through carve again (index.go:178-198).
StraddlersAreDirty ==
    \A o \in ReplayOffsets : \A r \in NewestOf(o) : \A iv \in Covering(ivs, o) :
        iv.synced <=> r.synced /\ \A p \in ReplayOffsets : WroteByte(r, p) => r \in NewestOf(p)
=============================================================================
