--------------------------- MODULE IntervalIndex ---------------------------
(***************************************************************************)
(* The per-file interval index of the journal as operators                 *)
(* (pkg/block/journal/index.go).  A file's index is a set of interval      *)
(* records over half-open byte ranges; the code keeps the same set as a    *)
(* slice sorted by fileOff.  An interval says which record holds the       *)
(* bytes (seg, rec), which byte of its payload is the first (off), and     *)
(* whether the bytes are remote-durable (synced) or evicted (cold).        *)
(***************************************************************************)
EXTENDS Integers, FiniteSets, FiniteSetsExt

Covers(iv, o) == iv.fileOff <= o /\ o < iv.end
Overlaps(iv, lo, hi) == iv.fileOff < hi /\ lo < iv.end

Length(iv) == iv.end - iv.fileOff

\* The sub-interval over [lo, hi); its first byte moves with lo.
Clamp(iv, lo, hi) ==
    [iv EXCEPT !.fileOff = lo, !.end = hi, !.off = iv.off + (lo - iv.fileOff)]

Smaller(a, b) == IF a < b THEN a ELSE b
Larger(a, b) == IF a > b THEN a ELSE b

\* The fragments of iv left after removing [lo, hi).
Without(iv, lo, hi) ==
    (IF iv.fileOff < lo THEN {Clamp(iv, iv.fileOff, Smaller(iv.end, lo))} ELSE {})
      \cup
    (IF iv.end > hi THEN {Clamp(iv, Larger(iv.fileOff, hi), iv.end)} ELSE {})

Warm(iv) == iv.synced /\ ~iv.cold
Dirty(iv) == ~iv.synced /\ ~iv.cold

\* Fragments of a partly superseded warm interval become dirty, to be carved again.
RemarkDirty(frags) == {IF Warm(f) THEN [f EXCEPT !.synced = FALSE] ELSE f : f \in frags}

Bytes(ivs) == FoldSet(LAMBDA iv, n : n + Length(iv), 0, ivs)

Shadowed(ivs, iv) ==
    \E e \in ivs : /\ {x \in ivs : Overlaps(x, iv.fileOff, iv.end)} = {e}
                   /\ e.fileOff = iv.fileOff /\ e.end = iv.end
                   /\ iv.version <= e.version

\* Mutant: the record inserted last wins, whatever its version.
SupersededByLast(ivs, iv) == {e \in ivs : Overlaps(e, iv.fileOff, iv.end)}

\* The intervals iv supersedes, in whole or in part, and those that shadow it.
Superseded(ivs, iv) ==
    {e \in ivs : Overlaps(e, iv.fileOff, iv.end) /\ e.version <= iv.version}
Shadowing(ivs, iv) ==
    {e \in ivs : Overlaps(e, iv.fileOff, iv.end) /\ e.version > iv.version}

\* What survives of the superseded intervals, and of iv itself.
Survivors(ivs, iv) ==
    RemarkDirty(UNION {Without(e, iv.fileOff, iv.end) : e \in Superseded(ivs, iv)})

\* subtractAll for every interval of es in turn leaves of iv its runs of free bytes:
\* those that no interval of es covers.
FreeBytes(iv, es) == {o \in iv.fileOff .. iv.end - 1 : \A e \in es : ~Covers(e, o)}

Run(free, lo, hi) ==
    lo < hi /\ lo .. hi - 1 \subseteq free /\ lo - 1 \notin free /\ hi \notin free

SubtractAll(iv, es) ==
    {f \in {Clamp(iv, lo, hi) : lo, hi \in iv.fileOff .. iv.end} :
       Run(FreeBytes(iv, es), f.fileOff, f.end)}

NewFragments(ivs, iv) ==
    LET frags == SubtractAll(iv, Shadowing(ivs, iv))
    IN  IF Warm(iv) /\ Shadowing(ivs, iv) # {} THEN RemarkDirty(frags) ELSE frags

\* insert: the highest version wins every byte.
Insert(ivs, iv) ==
    IF Shadowed(ivs, iv) THEN ivs
    ELSE (ivs \ Superseded(ivs, iv)) \cup Survivors(ivs, iv) \cup NewFragments(ivs, iv)

\* The change of the unsynced-byte counter that insert reports: bytes of iv when
\* it is a dirty append, bytes re-marked dirty, less dirty bytes superseded.
DirtyDelta(ivs, iv) ==
    LET before == {e \in ivs : Dirty(e)}
        cut == {Clamp(e, Larger(e.fileOff, iv.fileOff), Smaller(e.end, iv.end)) :
                   e \in Superseded(ivs, iv) \cap before}
        marked == {f \in UNION {Without(e, iv.fileOff, iv.end) :
                                   e \in Superseded(ivs, iv)} : Warm(f)}
    IN  (IF iv.synced THEN 0 ELSE Length(iv)) + Bytes(marked) - Bytes(cut)

\* The payload bytes of segment s that inserting iv leaves dead.
DeadBytes(ivs, iv, s) ==
    Bytes({Clamp(e, Larger(e.fileOff, iv.fileOff), Smaller(e.end, iv.end)) :
              e \in {x \in Superseded(ivs, iv) : ~x.cold /\ x.seg = s}})

\* findRecord: the live interval of the given version that covers fileOff.
FindRecord(ivs, fileOff, version) ==
    {e \in ivs : Covers(e, fileOff) /\ e.version = version}

\* Mutant: the version fence is ignored.
ClipToUnfenced(ivs, fence, size) ==
    {Clamp(iv, iv.fileOff, Smaller(iv.end, size)) : iv \in {x \in ivs : x.fileOff < size}}

\* Truncation to size for the intervals at or below the fence version, shared by
\* Truncate, recovery and restore: keep, clip the straddler, drop the rest.
ClipTo(ivs, fence, size) ==
    {iv \in ivs : iv.version > fence \/ iv.end <= size}
      \cup {Clamp(iv, iv.fileOff, size) :
              iv \in {x \in ivs : x.version <= fence /\ x.end > size /\ x.fileOff < size}}

\* The interval that covers a byte, if any: what plan resolves a read to.
Covering(ivs, o) == {iv \in ivs : Covers(iv, o)}
=============================================================================
