------------------------- MODULE LockManagerProofs --------------------------
(***************************************************************************)
(* Proofs about what the file-sharing adapters are granted.  LockTable,    *)
(* for any sets of owners and opens and any file size: the byte-range      *)
(* locks implement ByteLocks, in which a byte is never held in conflict.   *)
(* Leases, for any lease keys and openers: leases of two keys never        *)
(* conflict, and a break takes what was asked and no more.                 *)
(* SequenceWindow, for any word size, id space, credit limit, CreditCharge *)
(* and grant: no SMB2 message id is accepted twice, and the server never   *)
(* believes the client to have more credits than the limit.                *)
(***************************************************************************)
EXTENDS LockTable, Leases, SequenceWindow, WellFoundedInduction, TLAPS

\* Zenon proves the steps that name no other prover.
USE ZenonT(20)

Principals == Opens \cup Owners

\* A lock record, whatever its id, whose range ends within the file.
IsLock(l) ==
  /\ l = [id |-> l.id, owner |-> l.owner, off |-> l.off, len |-> l.len, ex |-> l.ex]
  /\ l.owner \in Principals
  /\ l.off \in 0..Top /\ l.len \in Nat /\ l.off + l.len <= Top + 1
  /\ l.ex \in BOOLEAN

Typed ==
  /\ \A l \in locks : IsLock(l) /\ l.owner \in Opens
  /\ \A l \in unifiedLocks : IsLock(l) /\ l.owner \in Owners
  /\ \A l \in lockStore : IsLock(l)
  /\ alarm \in BOOLEAN

\* Two locks do not share a byte that one of them holds exclusively.
Agree(a, b) == a.owner # b.owner /\ Bytes(a) \cap Bytes(b) # {} => ~a.ex /\ ~b.ex

\* RestoreLocks checks nothing, so it relies on every record being a lock held.
TableInv ==
  /\ Typed
  /\ ~alarm => lockStore \subseteq Held
  /\ ~alarm => \A a, b \in Held : Agree(a, b)

\* l is what is left of the lock m.
Within(l, m) == l.owner = m.owner /\ l.ex = m.ex /\ Bytes(l) \subseteq Bytes(m)

-----------------------------------------------------------------------------
(* Ranges.                                                                 *)

\* For a range that ends within the file rangeLast does not wrap, and rangeEnd
\* does only where it is the whole rest of the file.
LEMMA RangeArithmetic ==
  ASSUME NEW off \in 0..Top, NEW len \in Nat, off + len <= Top + 1
  PROVE  /\ rangeLast(off, len) = IF len = 0 THEN Top ELSE off + len - 1
         /\ rangeEnd(off, len) = IF len = 0 THEN Top
                                 ELSE IF off + len = Top + 1 THEN 0 ELSE off + len
<1>1. CASE len = 0
  BY <1>1 DEF rangeLast, rangeEnd
<1>2. CASE len # 0
  BY <1>2, LockTableAssumption, SMTT(20) DEF rangeLast, rangeEnd
<1>3. QED
  BY <1>1, <1>2

\* The bytes of a lock lie between its offset and its rangeLast.
LEMMA BytesBetween ==
  ASSUME NEW l, IsLock(l), NEW b \in Bytes(l)
  PROVE  b \in Nat /\ l.off <= b /\ b <= rangeLast(l.off, l.len) /\ ~IsZeroByte(l)
  BY RangeArithmetic, LockTableAssumption, SMTT(20) DEF IsLock, Bytes

\* Locks that share a byte overlap in the sense of the code.
LEMMA SharedByteOverlaps ==
  ASSUME NEW a, NEW c, IsLock(a), IsLock(c), Bytes(a) \cap Bytes(c) # {}
  PROVE  /\ RangesOverlap(a.off, a.len, c.off, c.len)
         /\ RangesOverlap(c.off, c.len, a.off, a.len)
         /\ ~IsZeroByte(a) /\ ~IsZeroByte(c)
<1>1. PICK b : b \in Bytes(a) /\ b \in Bytes(c)
  OBVIOUS
<1>2. QED
  BY <1>1, BytesBetween, LockTableAssumption, RangeArithmetic, SMTT(20)
  DEF RangesOverlap, IsLock

\* A fragment of a split lock is a lock of the same owner and type, within it.
LEMMA FragmentWithin ==
  ASSUME NEW l, IsLock(l), l.owner \in Owners, NEW r \in UniRanges,
         RangesOverlap(l.off, l.len, r.off, r.len),
         NEW side \in SplitSides(l, r), NEW i
  PROVE  LET f == [Fragment(l, r, side) EXCEPT !.id = i]
         IN  IsLock(f) /\ Within(f, l)
<1> DEFINE f == [Fragment(l, r, side) EXCEPT !.id = i]
<1>1. /\ Top \in Nat /\ l.owner \notin Opens
      /\ r.off \in 0..Top /\ r.len \in Nat /\ r.off + r.len <= Top + 1
  BY LockTableAssumption, RangesFit, SMTT(20) DEF Ranges
<1>2. /\ l = [id |-> l.id, owner |-> l.owner, off |-> l.off, len |-> l.len, ex |-> l.ex]
      /\ l.off \in 0..Top /\ l.len \in Nat /\ l.off + l.len <= Top + 1
      /\ l.owner \in Principals /\ l.ex \in BOOLEAN
  BY DEF IsLock
<1>3. /\ r.off <= (IF l.len = 0 THEN Top ELSE l.off + l.len - 1)
      /\ l.off <= (IF r.len = 0 THEN Top ELSE r.off + r.len - 1)
  BY <1>1, <1>2, RangeArithmetic, SMTT(20) DEF RangesOverlap
<1>4. Bytes(l) = l.off .. (IF l.len = 0 THEN Top ELSE l.off + l.len - 1)
  BY <1>1, <1>2, SMTT(20) DEF Bytes, IsZeroByte
<1>5. CASE side = "before"
  <2>1. r.off > l.off
    BY <1>5 DEF SplitSides
  <2>2. f = [id |-> i, owner |-> l.owner, off |-> l.off, len |-> r.off - l.off, ex |-> l.ex]
    <3>1. Fragment(l, r, side) = [id |-> l.id, owner |-> l.owner, off |-> l.off,
                                  len |-> r.off - l.off, ex |-> l.ex]
      BY <1>2, <1>5 DEF Fragment
    <3>2. QED
      BY <3>1, SMTT(20)
  <2>3. Bytes(f) = l.off .. r.off - 1
    BY <1>1, <1>2, <2>1, <2>2, SMTT(40) DEF Bytes, IsZeroByte
  <2>4. Bytes(f) \subseteq Bytes(l)
    BY <1>1, <1>2, <1>3, <1>4, <2>1, <2>3, SMTT(20)
  <2>5. QED
    BY <1>1, <1>2, <2>1, <2>2, <2>4, SMTT(20) DEF Within, IsLock
<1>6. CASE side = "after"
  <2> DEFINE e == unlockEnd(r)
  <2>1. e < lockEnd(l)
    BY <1>6 DEF SplitSides
  <2>2. e \in 0..Top /\ l.off <= e
    BY <1>1, <1>2, <1>3, SMTT(20) DEF unlockEnd
  <2>3. /\ lockEnd(l) = IF l.len = 0 THEN Top ELSE l.off + l.len
        /\ lockEnd(l) <= Top
    BY <1>1, <1>2, <2>1, <2>2, RangeArithmetic, SMTT(20) DEF lockEnd
  <2>4. f = [id |-> i, owner |-> l.owner, off |-> e,
             len |-> IF l.len = 0 THEN 0 ELSE lockEnd(l) - e, ex |-> l.ex]
    <3>1. Fragment(l, r, side) = [id |-> l.id, owner |-> l.owner, off |-> e,
             len |-> IF l.len = 0 THEN 0 ELSE lockEnd(l) - e, ex |-> l.ex]
      BY <1>2, <1>6 DEF Fragment
    <3>2. QED
      BY <3>1, SMTT(20)
  <2>5. Bytes(f) \subseteq Bytes(l)
    BY <1>1, <1>2, <1>4, <2>1, <2>2, <2>3, <2>4, SMTT(20) DEF Bytes, IsZeroByte
  <2>6. QED
    BY <1>1, <1>2, <2>1, <2>2, <2>3, <2>4, <2>5, SMTT(20) DEF Within, IsLock
<1>7. QED
  BY <1>5, <1>6 DEF SplitSides

\* Every fragment of an unlock comes from a lock it overlaps.
LEMMA FragmentsWithin ==
  ASSUME Typed, NEW o \in Owners, NEW r \in UniRanges, NEW f \in Fragments(o, r)
  PROVE  /\ IsLock(f) /\ f.owner = o
         /\ \E l \in Overlapped(o, r) : Within(f, l)
<1>1. PICK p \in Pieces(o, r) : f = [Fragment(p[1], r, p[2]) EXCEPT !.id = PieceID(p, Pieces(o, r))]
  BY DEF Fragments
<1>2. PICK l \in Overlapped(o, r) : \E side \in SplitSides(l, r) : p = <<l, side>>
  BY DEF Pieces
<1>3. PICK side \in SplitSides(l, r) : p = <<l, side>>
  BY <1>2
<1>4. /\ l \in unifiedLocks /\ l.owner = o /\ IsLock(l)
      /\ RangesOverlap(l.off, l.len, r.off, r.len)
  BY DEF Overlapped, Typed
<1>5. PICK i : f = [Fragment(l, r, side) EXCEPT !.id = i]
  BY <1>1, <1>3
<1>6. IsLock(f) /\ Within(f, l)
  BY <1>4, <1>5, FragmentWithin
<1>7. QED
  BY <1>4, <1>6 DEF Within

-----------------------------------------------------------------------------
(* What the operations have in common.                                     *)

\* A mutation persists every lock it takes away or adds.
LEMMA PersistKeeps ==
  ASSUME TableInv, NEW touched, Persist(touched),
         \A l \in Held : l \notin Held' => l.id \in touched
  PROVE  /\ alarm' \in BOOLEAN /\ (~alarm' => ~alarm)
         /\ lockStore' \subseteq lockStore \cup Held'
         /\ ~alarm' => lockStore' \subseteq Held'
<1>1. PICK lost : /\ lockStore' = Stored(touched \ lost, Held')
                  /\ alarm' = (alarm \/ lost # {})
  BY DEF Persist
<1>2. alarm' \in BOOLEAN /\ (~alarm' => ~alarm /\ lost = {})
  BY <1>1 DEF TableInv, Typed
<1>3. ASSUME ~alarm' PROVE lockStore' \subseteq Held'
  BY <1>1, <1>2, <1>3 DEF Stored, TableInv
<1>4. QED
  BY <1>1, <1>2, <1>3 DEF Stored

\* Locks that only shrink stay compatible.
LEMMA Shrinks ==
  ASSUME TableInv, ~alarm, \A l \in Held' : \E m \in Held : Within(l, m)
  PROVE  \A a, b \in Held' : Agree(a, b)
<1> SUFFICES ASSUME NEW a \in Held', NEW b \in Held' PROVE Agree(a, b)
  OBVIOUS
<1>1. PICK m \in Held, n \in Held : Within(a, m) /\ Within(b, n)
  OBVIOUS
<1>2. Agree(m, n)
  BY DEF TableInv
<1>3. QED
  BY <1>1, <1>2 DEF Agree, Within

\* A lock may be added that agrees with those of other owners.
LEMMA Grants ==
  ASSUME TableInv, ~alarm, NEW new, Held' \subseteq Held \cup {new},
         \A m \in Held : m.owner # new.owner /\ Bytes(m) \cap Bytes(new) # {} => ~m.ex /\ ~new.ex
  PROVE  \A a, b \in Held' : Agree(a, b)
  BY DEF TableInv, Agree

-----------------------------------------------------------------------------
(* The operations.  A step takes away, or adds to one owner's locks.       *)

Shrunk == \A l \in Held' : \E m \in Held : Within(l, m)
OwnOnly(o) == \A l : l.owner # o => (l \in Held' <=> l \in Held)

Kept == /\ TableInv' /\ (alarm => alarm')
        /\ alarm' \/ Shrunk \/ \E o \in Principals : OwnOnly(o)

\* A mutation that takes away locks or parts of them, and persists what it did.
LEMMA ShrinkKept ==
  ASSUME TableInv, NEW touched, Persist(touched), Shrunk,
         \A l \in Held : l \notin Held' => l.id \in touched,
         \A l \in locks' : IsLock(l) /\ l.owner \in Opens,
         \A l \in unifiedLocks' : IsLock(l) /\ l.owner \in Owners
  PROVE  Kept
  BY Shrinks, PersistKeeps DEF Kept, TableInv, Agree, Typed, Held, Shrunk

\* A mutation that adds a lock no other owner's conflicts with.
LEMMA GrantKept ==
  ASSUME TableInv, NEW touched, Persist(touched), NEW new,
         Held' \subseteq Held \cup {new}, OwnOnly(new.owner),
         \A m \in Held : m.owner # new.owner /\ Bytes(m) \cap Bytes(new) # {} => ~m.ex /\ ~new.ex,
         \A l \in Held : l \notin Held' => l.id \in touched,
         \A l \in locks' : IsLock(l) /\ l.owner \in Opens,
         \A l \in unifiedLocks' : IsLock(l) /\ l.owner \in Owners,
         new.owner \in Principals
  PROVE  Kept
  BY Grants, PersistKeeps DEF Kept, TableInv, Agree, Typed, Held

\* The request of an operation is a lock.
LEMMA RequestIsLock ==
  ASSUME NEW o \in Principals, NEW r \in SmbRanges \cup UniRanges, NEW x \in BOOLEAN
  PROVE  LET new == Request(o, r, x) IN
         /\ IsLock(new) /\ new.owner = o /\ new.off = r.off /\ new.len = r.len /\ new.ex = x
  BY LockTableAssumption, RangesFit, SMTT(20) DEF Request, IsLock, Ranges

\* SMB LOCK grants nothing that conflicts with what is held.
LEMMA LockKept ==
  ASSUME TableInv, NEW o \in Opens, NEW r \in SmbRanges, NEW x \in BOOLEAN, Lock(o, r, x)
  PROVE  Kept
<1> DEFINE new == Request(o, r, x)
<1>1. IsLock(new) /\ new.owner = o
  BY RequestIsLock, SMTT(20) DEF Principals
<1>2. /\ SmbGrantable(new) /\ Persist({new.id})
      /\ locks' = locks \cup {new} /\ unifiedLocks' = unifiedLocks
  BY DEF Lock
<1>3. \A l \in locks : IsLock(l) /\ l.owner \in Opens
  BY DEF TableInv, Typed
<1>4. \A l \in unifiedLocks : IsLock(l) /\ l.owner \in Owners
  BY DEF TableInv, Typed
<1> HIDE DEF new
<1>5. ASSUME NEW m \in Held, m.owner # new.owner, Bytes(m) \cap Bytes(new) # {}
      PROVE  ~m.ex /\ ~new.ex
  BY <1>1, <1>2, <1>3, <1>4, <1>5, SharedByteOverlaps
  DEF Held, SmbGrantable, IsLockConflicting, locksOverlap, fileLockConflictsWithUnified
<1>6. QED
  BY <1>1, <1>2, <1>3, <1>4, <1>5, GrantKept DEF Principals, Held, OwnOnly

\* NLM and NFSv4 locks: a lock granted replaces what its owner held there, and
\* conflicts with nobody else's.
LEMMA AddKept ==
  ASSUME TableInv, NEW o \in Owners, NEW r \in UniRanges, NEW x \in BOOLEAN,
         AddUnifiedLock(o, r, x)
  PROVE  Kept
<1> DEFINE new == Request(o, r, x)
<1>1. IsLock(new) /\ new.owner = o /\ new.off = r.off /\ new.len = r.len /\ new.ex = x
  BY RequestIsLock, SMTT(20) DEF Principals
<1>2. /\ UniGrantable(new) /\ locks' = locks
      /\ \/ \E l \in unifiedLocks :
              /\ SameRange(l, new)
              /\ unifiedLocks' = (unifiedLocks \ {l}) \cup {[l EXCEPT !.ex = x]}
              /\ Persist({l.id})
         \/ unifiedLocks' = unifiedLocks \cup {new} /\ Persist({new.id})
  BY DEF AddUnifiedLock
<1>3. \A l \in locks : IsLock(l) /\ l.owner \in Opens
  BY DEF TableInv, Typed
<1>4. \A l \in unifiedLocks : IsLock(l) /\ l.owner \in Owners
  BY DEF TableInv, Typed
<1> HIDE DEF new
<1>5. ASSUME NEW m \in Held, m.owner # new.owner, Bytes(m) \cap Bytes(new) # {}
      PROVE  ~m.ex /\ ~new.ex
  BY <1>1, <1>2, <1>3, <1>4, <1>5, SharedByteOverlaps
  DEF Held, UniGrantable, fileLockConflictsWithUnified, ConflictsWith
<1>6. CASE unifiedLocks' = unifiedLocks \cup {new} /\ Persist({new.id})
  BY <1>1, <1>2, <1>3, <1>4, <1>5, <1>6, GrantKept DEF Held, OwnOnly, Principals
<1>7. ASSUME NEW l \in unifiedLocks, SameRange(l, new), Persist({l.id}),
             unifiedLocks' = (unifiedLocks \ {l}) \cup {[l EXCEPT !.ex = x]}
      PROVE  Kept
  BY <1>1, <1>2, <1>3, <1>4, <1>5, <1>7, GrantKept, SMTT(20)
  DEF SameRange, IsLock, Bytes, IsZeroByte, Held, OwnOnly, Principals
<1>8. QED
  BY <1>2, <1>6, <1>7

\* Giving up the locks of an SMB open, one or all, only takes locks away.
LEMMA UnlockKept ==
  ASSUME TableInv, NEW o \in Opens,
         (\E r \in SmbRanges : Unlock(o, r)) \/ UnlockAllForOpen(o)
  PROVE  Kept
<1>1. PICK gone : /\ gone \subseteq locks
                  /\ locks' = locks \ gone /\ unifiedLocks' = unifiedLocks
                  /\ Persist({l.id : l \in gone})
  <2>1. ASSUME NEW r \in SmbRanges, Unlock(o, r)
        PROVE  \E gone : /\ gone \subseteq locks
                         /\ locks' = locks \ gone /\ unifiedLocks' = unifiedLocks
                         /\ Persist({l.id : l \in gone})
    <3>1. PICK l \in locks : /\ locks' = locks \ {l} /\ unifiedLocks' = unifiedLocks
                             /\ Persist({l.id})
      BY <2>1 DEF Unlock
    <3>2. QED
      BY <3>1
  <2>2. ASSUME UnlockAllForOpen(o)
        PROVE  /\ locks \ locks' \subseteq locks
               /\ locks' = locks \ (locks \ locks') /\ unifiedLocks' = unifiedLocks
               /\ Persist({l.id : l \in locks \ locks'})
    BY <2>2 DEF UnlockAllForOpen
  <2>3. QED
    BY <2>1, <2>2
<1>2. QED
  BY <1>1, ShrinkKept DEF Shrunk, Held, Within, TableInv, Typed

\* Unlocking a range leaves of each lock the parts outside it.
LEMMA RemoveKept ==
  ASSUME TableInv, NEW o \in Owners, NEW r \in UniRanges, RemoveUnifiedLock(o, r)
  PROVE  Kept
<1> DEFINE gone == Overlapped(o, r)
           touched == {l.id : l \in gone \cup Fragments(o, r)}
<1>1. /\ locks' = locks /\ unifiedLocks' = (unifiedLocks \ gone) \cup Fragments(o, r)
      /\ Persist(touched)
  BY DEF RemoveUnifiedLock
<1>2. \A f \in Fragments(o, r) : /\ IsLock(f) /\ f.owner = o
                                 /\ \E l \in gone : Within(f, l)
  BY FragmentsWithin DEF TableInv
<1>3. gone \subseteq unifiedLocks
  BY DEF Overlapped
<1>4. \A l \in Held : l \notin Held' => l.id \in touched
  BY <1>1 DEF Held
<1> HIDE DEF gone, touched
<1>5. QED
  BY <1>1, <1>2, <1>3, <1>4, ShrinkKept DEF Shrunk, Held, Within, TableInv, Typed

\* Releasing the locks of a client only takes locks away.
LEMMA ReleaseKept == ASSUME TableInv, NEW c, ReleaseByOwnerPrefix(c) PROVE Kept
  BY ShrinkKept DEF Shrunk, Held, Within, TableInv, Typed, ReleaseByOwnerPrefix

\* Sweeping a client after a grace period leaves no record without its lock.
LEMMA SweepKept == ASSUME TableInv, NEW c, RemoveClientLocks(c) PROVE Kept
  BY Shrinks DEF Kept, TableInv, Agree, Held, Shrunk, Typed, Within, RemoveClientLocks

\* What RestoreLocks brings back was held, or is part of what was.
LEMMA RestoreKept ==
  ASSUME TableInv, NEW records, RestoreLocks(records), alarm' = alarm,
         \A l \in records : IsLock(l),
         ~alarm => \A l \in records : \E m \in Held : Within(l, m)
  PROVE  Kept
  BY Shrinks DEF Kept, TableInv, Agree, Typed, Shrunk, Held, IsLock, Principals, RestoreLocks

\* A restart, in the middle of an unlock too, brings back locks that were held,
\* or parts of them.
LEMMA RestartKept ==
  ASSUME TableInv,
         Restart \/ \E o \in Owners, r \in UniRanges : CrashInRemove(o, r)
  PROVE  Kept
<1>1. /\ \A l \in lockStore : IsLock(l)
      /\ ~alarm => \A l \in lockStore : \E m \in Held : Within(l, m)
  BY DEF TableInv, Typed, Within
<1>2. CASE Restart
  BY <1>1, <1>2, RestoreKept DEF Restart
<1>3. ASSUME NEW o \in Owners, NEW r \in UniRanges, CrashInRemove(o, r) PROVE Kept
  BY <1>1, <1>3, FragmentsWithin, RestoreKept DEF CrashInRemove, Overlapped, Held, TableInv
<1>4. QED
  BY <1>2, <1>3

-----------------------------------------------------------------------------

\* The inductive step.
LEMMA LockStep == TableInv /\ [LockNext(Owners)]_<<lockVars, work>> => Kept
<1> SUFFICES ASSUME TableInv, [LockNext(Owners)]_<<lockVars, work>> PROVE Kept
  OBVIOUS
<1>1. CASE UNCHANGED <<lockVars, work>>
  BY <1>1 DEF lockVars, TableInv, Typed, Held, Kept, Shrunk, Within
<1>2. CASE LockNext(Owners)
  BY <1>2, LockKept, UnlockKept, AddKept, RemoveKept, ReleaseKept, SweepKept, RestartKept
  DEF LockNext
<1>3. QED
  BY <1>1, <1>2

\* No locks, no records.
LEMMA TableInvInit == LockInit => TableInv
  BY DEF LockInit, TableInv, Typed, Held

\* The invariant holds in every run of the table.
THEOREM TableInvariant == LockSpec => []TableInv
<1>1. TableInv /\ [LockNext(Owners)]_<<lockVars, work>> => TableInv'
  BY LockStep DEF Kept
<1>2. QED
  BY <1>1, TableInvInit, PTL DEF LockSpec

\* Until a call of the lock store fails, no byte is held exclusively by one owner
\* and at all by another, whatever the protocols of the two, across splits and
\* restarts (manager.go Lock, AddUnifiedLock, RemoveUnifiedLock, RestoreLocks).
THEOREM LocksExclude == LockSpec => []Exclusive
<1>1. TableInv => Exclusive
  BY DEF TableInv, Exclusive, Agree
<1>2. QED
  BY <1>1, TableInvariant, PTL

-----------------------------------------------------------------------------
(* The table implements ByteLocks.                                         *)

\* A step that takes away locks takes away bytes.
LEMMA ShrunkTakesAway == ASSUME Shrunk PROVE Abstract!TakeAway
<1>1. ASSUME NEW h \in Holds' PROVE h \in Holds
  BY <1>1, SMTT(20) DEF Holds, Shrunk, Within
<1>2. QED
  BY <1>1 DEF Abstract!TakeAway

\* A step on one owner's locks changes that owner's bytes only.
LEMMA OwnOnlyChanges ==
  ASSUME TableInv', ~alarm', NEW o \in Principals, OwnOnly(o)
  PROVE  Abstract!Change(o)
<1>1. ASSUME NEW h PROVE h \in Abstract!Others(Holds', o) <=> h \in Abstract!Others(Holds, o)
  BY SMTT(20) DEF Abstract!Others, Holds, OwnOnly
<1>2. ASSUME NEW x \in Holds', NEW y \in Holds', x[1] # y[1], x[2] = y[2]
      PROVE  ~x[3] /\ ~y[3]
  BY <1>2, SMTT(20) DEF Holds, TableInv, Agree
<1>3. QED
  BY <1>1, <1>2 DEF Abstract!Change, Abstract!Compatible

\* Every operation of SMB, NLM and NFSv4 on the table, every split, restart and
\* crash is a step of ByteLocks or leaves the bytes held as they are
\* (manager.go; what it promises until a call of the lock store fails).
THEOREM ImplementsByteLocks == LockSpec => ByteSpec
<1>1. LockInit => Abstract!Init
  BY DEF LockInit, Abstract!Init, Holds, Held
<1>2. TableInv /\ [LockNext(Owners)]_<<lockVars, work>> => Abstract!Next
  BY LockStep, ShrunkTakesAway, OwnOnlyChanges DEF Kept, Abstract!Next, Principals
<1>3. QED
  BY <1>1, <1>2, TableInvariant, PTL DEF LockSpec, ByteSpec, Abstract!Spec

\* What grants and charges are computed from.
RequestOK(r) ==
  /\ {"charges", "taken", "answered"} \subseteq DOMAIN r
  /\ r.charges \in Seq(0 .. MaxCharge) /\ 1 <= Len(r.charges)
  /\ r.taken \in Nat /\ r.answered \in Nat

\* Granted and consumed ids lie below high, so that Grant adds new ones only, and
\* the bit of a consumed id is clear: Consume needs it set and Grant never sets it.
WindowInv ==
  /\ high \in Nat /\ available \in 0 .. MaxCredits
  /\ \A i \in bits : i \in Nat /\ i < high
  /\ \A i \in consumed : i \in Nat /\ i < high /\ i \notin bits
  /\ \A r \in requests : RequestOK(r)

-----------------------------------------------------------------------------

\* Consume clears the bits it has looked at.
LEMMA TakeKeeps ==
  ASSUME WindowInv, NEW id, NEW charge \in Nat,
         Consumable(id, charge), Take(id, charge)
  PROVE  /\ high' \in Nat /\ available' \in 0 .. MaxCredits
         /\ \A i \in bits' : i \in Nat /\ i < high'
         /\ \A i \in consumed' : i \in Nat /\ i < high' /\ i \notin bits'
  BY WindowConstants, SMTT(20) DEF WindowInv, Consumable, Take

\* Grant sets bits at and above high only, within the limit.
LEMMA ExtendKeeps ==
  ASSUME WindowInv, NEW wish \in Nat, Extend(wish)
  PROVE  /\ high' \in Nat /\ available' \in 0 .. MaxCredits
         /\ \A i \in bits' : i \in Nat /\ i < high'
         /\ \A i \in consumed' : i \in Nat /\ i < high' /\ i \notin bits'
  BY WindowConstants, SMTT(20) DEF WindowInv, Extend, Granted

\* A response asks for a number of credits.
LEMMA WishNat ==
  ASSUME NEW r, RequestOK(r), NEW strategy \in 1 .. MaxGrant, NEW i \in 1 .. Len(r.charges)
  PROVE  Wish(strategy, r.charges[i]) \in Nat
  BY WindowConstants, SMTT(20) DEF RequestOK, Wish

\* The inductive step, by the steps of the client and of the goroutines.
LEMMA WindowStep == WindowInv /\ [WindowNext]_sequenceVars => WindowInv'
<1> SUFFICES ASSUME WindowInv, [WindowNext]_sequenceVars PROVE WindowInv'
  OBVIOUS
<1>1. ASSUME NEW charges \in Compounds, ClientSend(charges) PROVE WindowInv'
  <2>1. charges \in Seq(0 .. MaxCharge) /\ 1 <= Len(charges)
    <3>1. PICK a \in 0 .. MaxCharge : charges = <<a>> \/ charges = <<1, a>>
      BY DEF Compounds
    <3>2. CASE charges = <<a>>
      BY <3>2, SMTT(20)
    <3>3. CASE charges = <<1, a>>
      BY <3>3, WindowConstants, SMTT(20)
    <3>4. QED
      BY <3>1, <3>2, <3>3
  <2>2. QED
    BY <1>1, <2>1, SMTT(20) DEF WindowInv, ClientSend, windowVars, RequestOK
<1>2. ASSUME NEW n, ClientReceive(n) \/ ReplyLost(n) PROVE WindowInv'
  BY <1>2 DEF WindowInv, ClientReceive, ReplyLost, windowVars
<1>3. ASSUME NEW r \in requests, ConsumeNext(r) PROVE WindowInv'
  <2>1. RequestOK(r)
    BY DEF WindowInv
  <2>2. \A q \in requests' : RequestOK(q)
    BY <1>3, <2>1, SMTT(20) DEF WindowInv, ConsumeNext, Becomes, RequestOK
  <2>3. Effective(r.charges[r.taken + 1]) \in Nat
    BY <1>3, <2>1, WindowConstants, SMTT(40) DEF ConsumeNext, Commands, RequestOK, Effective
  <2>4. CASE /\ Consumable(r.ids[r.taken + 1], Effective(r.charges[r.taken + 1]))
             /\ Take(r.ids[r.taken + 1], Effective(r.charges[r.taken + 1]))
    BY <2>2, <2>3, <2>4, TakeKeeps DEF WindowInv
  <2>5. CASE UNCHANGED windowVars
    BY <2>2, <2>5 DEF WindowInv, windowVars
  <2>6. QED
    BY <1>3, <2>4, <2>5 DEF ConsumeNext
<1>4. ASSUME NEW r \in requests, Reply(r) PROVE WindowInv'
  BY <1>4 DEF WindowInv, Reply, windowVars
<1>5. ASSUME NEW r \in requests, NEW strategy \in 1 .. MaxGrant, Answer(r, strategy)
      PROVE WindowInv'
  <2>1. RequestOK(r) /\ r.answered + 1 \in 1 .. Len(r.charges)
    BY <1>5, SMTT(20) DEF WindowInv, Answer, Commands, RequestOK
  <2>2. PICK wish \in Nat : Extend(wish)
    BY <1>5, <2>1, WishNat DEF Answer
  <2>3. \A q \in requests' : RequestOK(q)
    <3>1. ASSUME NEW g PROVE RequestOK([r EXCEPT !.answered = @ + 1, !.granted = g])
      BY <2>1, SMTT(20) DEF RequestOK
    <3>2. QED
      BY <1>5, <3>1 DEF WindowInv, Answer, Becomes
  <2>4. QED
    BY <2>2, <2>3, ExtendKeeps DEF WindowInv
<1>6. ASSUME NEW r \in requests, NEW strategy \in 1 .. MaxGrant, Interim(r, strategy)
      PROVE WindowInv'
  BY <1>6, WishNat, ExtendKeeps, SMTT(20) DEF WindowInv, Interim, Becomes, RequestOK
<1>7. ASSUME NEW id \in 0 .. IdSpace - 1, NEW charge \in 0 .. MaxCharge, Stray(id, charge)
      PROVE WindowInv'
  BY <1>7, WindowConstants, TakeKeeps, SMTT(20) DEF Effective, Stray, creditVars, WindowInv
<1>8. CASE UNCHANGED sequenceVars
  BY <1>8 DEF WindowInv, sequenceVars, windowVars, creditVars
<1>9. QED
  BY <1>1, <1>2, <1>3, <1>4, <1>5, <1>6, <1>7, <1>8 DEF WindowNext

\* A new window has two ids set and none consumed.
LEMMA WindowInvInit == WindowInit => WindowInv
  BY WindowConstants, SMTT(20) DEF WindowInit, WindowInv

\* The invariant holds in every run of the connection.
THEOREM WindowInvariant == WindowSpec => []WindowInv
<1>1. WindowInv /\ [WindowNext /\ UNCHANGED work]_<<sequenceVars, work>> => WindowInv'
  BY WindowStep
<1>2. QED
  BY <1>1, WindowInvInit, PTL DEF WindowSpec

\* A message id is accepted at most once, however requests, compounds, interim and
\* final responses interleave, whatever ids are tried and whatever the size of a
\* bitmap word (sequence_window.go Consume, Grant, advanceLow).
THEOREM MessageIdOnce == WindowSpec => []AtMostOnce
<1>1. WindowInv => AtMostOnce
  BY DEF WindowInv, AtMostOnce, Consumable
<1>2. QED
  BY <1>1, WindowInvariant, PTL

\* However many responses grant at once, the credits the server has given out stay
\* within the limit (sequence_window.go Grant).
THEOREM CreditLimit == WindowSpec => [](available <= MaxCredits)
<1>1. WindowInv => available <= MaxCredits
  BY WindowConstants, SMTT(20) DEF WindowInv
<1>2. QED
  BY <1>1, WindowInvariant, PTL

-----------------------------------------------------------------------------
(* Leases.                                                                 *)

\* What holds of each lease by itself.
SoundLease(l) ==
  /\ l \in OpLock
  /\ l.breaking => /\ l.breakTo \subseteq l.state /\ l.breakTo # l.state
                   /\ l.required \subseteq l.breakTo
                   /\ "R" \in l.required \/ Does("write")

\* What the holder of l is left with is within what has been asked.
Honest(l) == EffectiveState(l) \subseteq l.asked

\* FromPersistedLock takes a target of None for a field that was never written, so
\* no restart may meet a lease that a write broke.
NoneLost == ~(Does("restart") /\ Does("write"))

\* The same of every record of a file; and what relates the records of one file: no two
\* keys conflict, and the only record of a key has given up what was asked of it.
SoundIn(ls) == ls \in Seq(OpLock) /\ \A i \in DOMAIN ls : SoundLease(ls[i])

PositionsOf(ls, k) == {j \in DOMAIN ls : ls[j].key = k}

PairIn(ls) ==
  /\ \A i, j \in DOMAIN ls : ~OpLocksConflict(ls[i], ls[j].key, EffectiveState(ls[j]))
  /\ \A i \in DOMAIN ls : PositionsOf(ls, ls[i].key) = {i} => Honest(ls[i])

OpeningOK ==
  /\ DOMAIN opening = Openers
  /\ \A t \in Openers : opening[t] = NotOpening
                        \/ (opening[t].key \in LeaseKeys /\ opening[t].want \in LeaseStates)

LeaseInv ==
  /\ OpeningOK
  /\ SoundIn(leases)
  /\ NoneLost => PairIn(leases)

\* A set of positions has a first one.
LEMMA LeastPosition ==
  ASSUME NEW S \in SUBSET Nat, S # {}
  PROVE  FirstOf(S) \in S /\ \A j \in S : FirstOf(S) <= j
<1> DEFINE R == {ss \in Nat \X Nat : ss[1] < ss[2]}
<1>1. IsWellFoundedOn(R, Nat)
  BY NatLessThanWellFounded DEF OpToRel
<1>2. PICK x \in S : \A y \in S : ~ (<<y, x>> \in R)
  <2> HIDE DEF R
  <2> QED
    BY <1>1, WFMin
<1>3. ASSUME NEW y \in S, y < x
      PROVE  FALSE
  <2>1. <<y, x>> \in Nat \X Nat /\ <<y, x>>[1] = y /\ <<y, x>>[2] = x
    BY SMT
  <2>2. <<y, x>> \in R
    BY <2>1, <1>3
  <2> QED
    BY <2>2, <1>2
<1>4. \A y \in S : x <= y
  BY <1>3, SMT
<1> QED
  BY <1>4 DEF FirstOf

-----------------------------------------------------------------------------
(* One record *)

\* Caching states are closed under what a break does to them.
LEMMA StatesClosed ==
  ASSUME NEW s \in LeaseStates, NEW t \in LeaseStates
  PROVE  /\ s \cap t \in LeaseStates
         /\ s \ {"W"} \in LeaseStates /\ s \ {"H"} \in LeaseStates
         /\ s \ {"W", "H"} \in LeaseStates
         /\ s \cup (IF t \cap {"W", "H"} # {} THEN {"R"} ELSE {}) \in LeaseStates
         /\ {} \in LeaseStates /\ {"R"} \in LeaseStates
BY SMT DEF LeaseStates, CachingBits

\* The fields of a record.
LEMMA LeaseFields ==
  ASSUME NEW l \in OpLock
  PROVE  /\ l.key \in LeaseKeys /\ l.state \in LeaseStates /\ l.breaking \in BOOLEAN
         /\ l.breakTo \in LeaseStates /\ l.required \in LeaseStates
         /\ l.timedOut \in BOOLEAN /\ l.asked \in LeaseStates
BY DEF OpLock

\* A further demand narrows the target of a break and nothing else.
LEMMA TightenSound ==
  ASSUME NEW l, SoundLease(l), l.breaking, NEW target \in LeaseStates,
         "R" \in target \/ Does("write")
  PROVE  /\ SoundLease(Tighten(l, target)) /\ Tighten(l, target).key = l.key
         /\ EffectiveState(Tighten(l, target)) \subseteq EffectiveState(l)
         /\ Honest(l) => Honest(Tighten(l, target))
<1>1. l \in OpLock
  BY DEF SoundLease
<1>2. /\ l.required \cap target \in LeaseStates /\ l.asked \cap target \in LeaseStates
  BY <1>1, LeaseFields, StatesClosed
<1>3. PICK n : n = Tighten(l, target)
  OBVIOUS
<1>4. /\ n \in OpLock /\ n.key = l.key /\ n.breaking = l.breaking /\ n.breakTo = l.breakTo
      /\ n.state = l.state /\ n.required = l.required \cap target
      /\ n.asked = l.asked \cap target
  BY <1>1, <1>2, <1>3 DEF OpLock, Tighten
<1>5. SoundLease(n)
  BY <1>4 DEF SoundLease
<1>6. EffectiveState(n) = l.required \cap target /\ EffectiveState(l) = l.required
  BY <1>4 DEF EffectiveState
<1>7. QED
  BY <1>3, <1>4, <1>5, <1>6 DEF Honest

\* One stage of a break: the lease is left with what is required of it.
LEMMA StageSound ==
  ASSUME NEW l \in OpLock, NEW target \in LeaseStates, ~l.breaking,
         target \subseteq l.state, target # l.state, l.required \subseteq target,
         "R" \in l.required \/ Does("write")
  PROVE  LET n == applyBreakStage(l, target)
         IN  /\ SoundLease(n) /\ n.key = l.key
             /\ EffectiveState(n) \subseteq l.required
             /\ n.asked = l.asked
<1>1. PICK n : n = applyBreakStage(l, target)
  OBVIOUS
<1>2. CASE l.state # {"R"}
  <2>1. n = [l EXCEPT !.breaking = TRUE, !.breakTo = target]
    BY <1>1, <1>2 DEF applyBreakStage
  <2>2. /\ n \in OpLock /\ n.key = l.key /\ n.breaking = TRUE /\ n.breakTo = target
        /\ n.state = l.state /\ n.required = l.required /\ n.asked = l.asked
    BY <2>1 DEF OpLock
  <2> QED
    BY <1>1, <2>2 DEF SoundLease, EffectiveState
<1>3. CASE l.state = {"R"}
  <2>1. n = [l EXCEPT !.breaking = FALSE, !.breakTo = {}, !.state = target, !.required = target]
    BY <1>1, <1>3 DEF applyBreakStage
  <2>2. /\ n \in OpLock /\ n.key = l.key /\ n.breaking = FALSE /\ n.state = target
        /\ n.asked = l.asked
    BY <2>1, StatesClosed DEF OpLock
  <2>3. target = {}
    BY <1>3
  <2> QED
    BY <1>1, <2>2, <2>3 DEF SoundLease, EffectiveState
<1>4. QED
  BY <1>2, <1>3

\* What an operation asks of a lease that it breaks: a state below the present one,
\* and not None unless it writes.
LEMMA TargetNarrows ==
  ASSUME NEW kind \in BreakKinds, Does(kind), NEW l \in OpLock, shouldBreak(kind, l)
  PROVE  /\ BreakTarget(kind, l) \in LeaseStates
         /\ BreakTarget(kind, l) \subseteq l.state /\ BreakTarget(kind, l) # l.state
         /\ "R" \in BreakTarget(kind, l) \/ Does("write")
<1>1. PICK s : s = l.state
  OBVIOUS
<1>2. s \in LeaseStates
  BY <1>1, LeaseFields
<1>3. s # {} => "R" \in s
  BY <1>2 DEF LeaseStates
<1>4. s \ {"W"} \in LeaseStates /\ s \ {"H"} \in LeaseStates /\ {} \in LeaseStates /\ {"R"} \in LeaseStates
  BY <1>2, StatesClosed
<1>5. PICK c : c = computeFreshTarget(kind, s)
  OBVIOUS
<1>6. /\ c \in LeaseStates /\ c \subseteq s /\ c # s /\ ("R" \in c \/ kind = "write")
  <2>1. CASE kind = "write"
    <3>1. c = {} /\ s # {}
      BY <2>1, <1>1, <1>5 DEF computeFreshTarget, shouldBreak
    <3> QED
      BY <3>1, <2>1, <1>4
  <2>2. CASE kind = "sharing"
    <3>1. c = s \ {"H"} /\ "H" \in s
      BY <2>2, <1>1, <1>5 DEF computeFreshTarget, shouldBreak
    <3> QED
      BY <3>1, <1>3, <1>4
  <2>3. CASE kind = "open"
    <3>1. c = s \ {"W"} /\ "W" \in s
      BY <2>3, <1>1, <1>5 DEF computeFreshTarget, shouldBreak
    <3> QED
      BY <3>1, <1>3, <1>4
  <2>4. CASE kind = "read"
    <3>1. c = {"R"} /\ "W" \in s
      BY <2>4, <1>1, <1>5 DEF computeFreshTarget, shouldBreak
    <3> QED
      BY <3>1, <1>3, <1>4, SMT
  <2> QED
    BY <2>1, <2>2, <2>3, <2>4 DEF BreakKinds
<1>7. BreakTarget(kind, l) = c \/ BreakTarget(kind, l) = c \ {"W", "H"}
  BY <1>1, <1>5 DEF BreakTarget
<1>8. c \ {"W", "H"} \in LeaseStates
  BY <1>6, StatesClosed
<1>9. QED
  BY <1>1, <1>6, <1>7, <1>8

\* A break, or a further demand on one, leaves a lease with no more than before and
\* no more than what was asked.
LEMMA BreakSound ==
  ASSUME NEW kind \in BreakKinds, Does(kind), NEW l, SoundLease(l), shouldBreak(kind, l)
  PROVE  LET n == BreakLease(kind, l)
         IN  /\ SoundLease(n) /\ n.key = l.key
             /\ EffectiveState(n) \subseteq EffectiveState(l)
             /\ Honest(l) => Honest(n)
<1>1. l \in OpLock
  BY DEF SoundLease
<1>2. PICK target : target = BreakTarget(kind, l)
  OBVIOUS
<1>3. /\ target \in LeaseStates /\ target \subseteq l.state /\ target # l.state
      /\ "R" \in target \/ Does("write")
  BY <1>1, <1>2, TargetNarrows
<1>4. CASE l.breaking
  <2>1. BreakLease(kind, l) = Tighten(l, target)
    BY <1>2, <1>4 DEF BreakLease
  <2> QED
    BY <2>1, <1>3, <1>4, TightenSound
<1>5. CASE ~l.breaking
  <2>1. PICK m : m = [l EXCEPT !.required = target, !.asked = target]
    OBVIOUS
  <2>2. BreakLease(kind, l) = applyBreakStage(m, target)
    BY <1>2, <1>5, <2>1 DEF BreakLease
  <2>3. /\ m \in OpLock /\ m.key = l.key /\ m.state = l.state /\ m.breaking = l.breaking
        /\ m.required = target /\ m.asked = target
    BY <1>1, <1>3, <2>1 DEF OpLock
  <2>4. PICK n : n = applyBreakStage(m, target)
    OBVIOUS
  <2>5. /\ SoundLease(n) /\ n.key = m.key /\ EffectiveState(n) \subseteq target
        /\ n.asked = target
    BY <1>3, <1>5, <2>3, <2>4, StageSound
  <2>6. EffectiveState(l) = l.state
    BY <1>5 DEF EffectiveState
  <2> QED
    BY <1>3, <2>2, <2>3, <2>4, <2>5, <2>6 DEF Honest
<1>6. QED
  BY <1>4, <1>5

\* A further record of a key takes over what became of the first.
LEMMA MirrorSound ==
  ASSUME NEW l \in OpLock, NEW c, SoundLease(c)
  PROVE  LET n == mirrorBreakStage(l, c)
         IN  /\ SoundLease(n) /\ n.key = l.key
             /\ EffectiveState(n) = EffectiveState(c)
<1>1. c \in OpLock
  BY DEF SoundLease
<1>2. PICK n : n = mirrorBreakStage(l, c)
  OBVIOUS
<1>3. /\ n \in OpLock /\ n.key = l.key /\ n.breaking = c.breaking /\ n.breakTo = c.breakTo
      /\ n.required = c.required /\ n.state = c.state /\ n.asked = c.asked
  BY <1>1, <1>2, LeaseFields DEF OpLock, mirrorBreakStage
<1>4. SoundLease(n)
  BY <1>3 DEF SoundLease
<1>5. QED
  BY <1>2, <1>3, <1>4 DEF EffectiveState

\* A lease out of a break holds what its holder kept.
LEMMA SettleSound ==
  ASSUME NEW l \in OpLock, NEW s \in LeaseStates
  PROVE  LET n == Settle(l, s)
         IN  /\ SoundLease(n) /\ n.key = l.key /\ n.asked = l.asked
             /\ EffectiveState(n) = s
<1>1. PICK n : n = Settle(l, s)
  OBVIOUS
<1>2. /\ n \in OpLock /\ n.key = l.key /\ n.asked = l.asked /\ n.breaking = FALSE
      /\ n.state = s
  BY <1>1, StatesClosed DEF OpLock, Settle
<1>3. QED
  BY <1>1, <1>2 DEF SoundLease, EffectiveState

\* The same when the deadline of a waiter forces it to None.
LEMMA ForceSound ==
  ASSUME NEW l \in OpLock
  PROVE  LET n == [Settle(l, {}) EXCEPT !.timedOut = TRUE]
         IN  /\ SoundLease(n) /\ n.key = l.key /\ EffectiveState(n) = {}
<1>1. PICK n : n = [Settle(l, {}) EXCEPT !.timedOut = TRUE]
  OBVIOUS
<1>2. PICK m : m = Settle(l, {})
  OBVIOUS
<1>3. m \in OpLock /\ m.key = l.key /\ m.breaking = FALSE /\ m.state = {}
  BY <1>2, StatesClosed DEF OpLock, Settle
<1>4. /\ n \in OpLock /\ n.key = l.key /\ n.breaking = FALSE /\ n.state = {}
  BY <1>1, <1>2, <1>3 DEF OpLock
<1>5. QED
  BY <1>1, <1>4 DEF SoundLease, EffectiveState

\* An acknowledgement that keeps more than is required starts the next stage.
LEMMA AdvanceSound ==
  ASSUME NEW l, SoundLease(l), l.breaking, NEW s \in LeaseStates,
         s \subseteq l.breakTo, ~(s \subseteq l.required)
  PROVE  LET n == applyBreakStage([l EXCEPT !.state = s, !.breaking = FALSE, !.breakTo = {}],
                                  nextProgressiveBreakTarget(s, l.required))
         IN  /\ SoundLease(n) /\ n.key = l.key
             /\ EffectiveState(n) \subseteq EffectiveState(l)
             /\ n.asked = l.asked
<1>1. l \in OpLock
  BY DEF SoundLease
<1>2. PICK target : target = nextProgressiveBreakTarget(s, l.required)
  OBVIOUS
<1>3. PICK m : m = [l EXCEPT !.state = s, !.breaking = FALSE, !.breakTo = {}]
  OBVIOUS
<1>4. /\ m \in OpLock /\ m.key = l.key /\ m.state = s /\ m.breaking = FALSE
      /\ m.required = l.required /\ m.asked = l.asked
  BY <1>1, <1>3, StatesClosed DEF OpLock
<1>5. PICK r, to, st : r = l.required /\ to = l.breakTo /\ st = l.state
  OBVIOUS
<1>6. /\ r \in LeaseStates /\ to \in LeaseStates /\ st \in LeaseStates
      /\ r \subseteq to /\ to \subseteq st /\ to # st /\ s \subseteq to /\ ~(s \subseteq r)
  BY <1>1, <1>5, LeaseFields DEF SoundLease
<1>7. target = r \cup (IF s \cap {"W", "H"} # {} THEN {"R"} ELSE {})
  BY <1>2, <1>5 DEF nextProgressiveBreakTarget
<1>8. /\ target \in LeaseStates /\ target \subseteq s /\ target # s /\ r \subseteq target
  <2>1. /\ \A x \in st : x \in {"R", "W", "H"}
        /\ (r # {} => "R" \in r) /\ (to # {} => "R" \in to) /\ (s # {} => "R" \in s)
    BY <1>6 DEF LeaseStates, CachingBits
  <2>2. PICK x \in st : x \notin to
    BY <1>6
  <2>3. PICK y \in s : y \notin r
    BY <1>6
  <2>4. "R" \in s /\ "R" \in to
    BY <2>1, <2>3, <1>6
  <2>5. x \in {"W", "H"}
    BY <2>1, <2>2, <2>4, SMT
  <2>6. \A z \in to : z \in {"R", "W", "H"} \ {x}
    BY <2>1, <2>2, <1>6
  <2>7. target \subseteq s
    <3>1. y = "R" => r = {}
      BY <2>1, <2>3
    <3>2. y # "R" => \A z \in r : z = "R"
      BY <2>1, <2>3, <2>5, <2>6, <1>6, SMT
    <3> QED
      BY <3>1, <3>2, <2>4, <1>7
  <2>8. target # s
    BY <2>1, <2>3, <1>7, SMT
  <2>9. target \in LeaseStates
    BY <1>6, <1>7, StatesClosed
  <2> QED
    BY <2>7, <2>8, <2>9, <1>7
<1>9. "R" \in m.required \/ Does("write")
  BY <1>4 DEF SoundLease
<1>10. PICK n : n = applyBreakStage(m, target)
  OBVIOUS
<1>11. /\ SoundLease(n) /\ n.key = m.key /\ EffectiveState(n) \subseteq m.required
       /\ n.asked = m.asked
  BY <1>4, <1>5, <1>8, <1>9, <1>10, StageSound
<1>12. EffectiveState(l) = l.required
  BY DEF EffectiveState
<1>13. QED
  BY <1>2, <1>3, <1>4, <1>10, <1>11, <1>12

\* The break that RequestLease starts takes Write away.
LEMMA RequestBreakSound ==
  ASSUME NEW l, SoundLease(l), ~l.breaking, StripW(l) # EffectiveState(l)
  PROVE  LET n == [l EXCEPT !.breaking = TRUE, !.breakTo = StripW(l),
                            !.required = StripW(l), !.asked = StripW(l)]
         IN  /\ SoundLease(n) /\ n.key = l.key
             /\ EffectiveState(n) \subseteq EffectiveState(l) /\ Honest(n)
<1>1. l \in OpLock
  BY DEF SoundLease
<1>2. PICK w : w = StripW(l)
  OBVIOUS
<1>3. w = l.state \ {"W"} /\ EffectiveState(l) = l.state
  BY <1>2 DEF StripW, EffectiveState
<1>4. l.state \in LeaseStates /\ w \in LeaseStates
  BY <1>1, <1>3, LeaseFields, StatesClosed
<1>5. "R" \in w
  BY <1>2, <1>3, <1>4, SMT DEF LeaseStates
<1>6. PICK n : n = [l EXCEPT !.breaking = TRUE, !.breakTo = w, !.required = w, !.asked = w]
  OBVIOUS
<1>7. /\ n \in OpLock /\ n.key = l.key /\ n.breaking = TRUE /\ n.breakTo = w
      /\ n.required = w /\ n.asked = w /\ n.state = l.state
  BY <1>1, <1>4, <1>6 DEF OpLock
<1>8. SoundLease(n)
  BY <1>2, <1>3, <1>5, <1>7 DEF SoundLease
<1>9. EffectiveState(n) = w
  BY <1>7 DEF EffectiveState
<1>10. QED
  BY <1>2, <1>3, <1>6, <1>7, <1>8, <1>9 DEF Honest

\* A new record (createAndGrantLease) holds what was granted, and nobody has asked for
\* any of it.
LEMMA GrantSound ==
  ASSUME NEW k \in LeaseKeys, NEW s \in LeaseStates
  PROVE  LET n == NewLease(k, s)
         IN  /\ SoundLease(n) /\ n.key = k /\ EffectiveState(n) = s /\ Honest(n)
<1>1. PICK n : n = NewLease(k, s)
  OBVIOUS
<1>2. n \in OpLock /\ n.key = k /\ n.breaking = FALSE /\ n.state = s /\ n.asked = s
  BY <1>1, StatesClosed DEF OpLock, NewLease
<1>3. QED
  BY <1>1, <1>2 DEF SoundLease, EffectiveState, Honest

\* An upgraded record holds what the request of its own key asked for.
LEMMA UpgradeSound ==
  ASSUME NEW l \in OpLock, ~l.breaking, NEW s \in LeaseStates
  PROVE  LET n == [l EXCEPT !.state = s, !.asked = s]
         IN  /\ SoundLease(n) /\ n.key = l.key /\ EffectiveState(n) = s /\ Honest(n)
<1>1. PICK n : n = [l EXCEPT !.state = s, !.asked = s]
  OBVIOUS
<1>2. n \in OpLock /\ n.key = l.key /\ n.breaking = l.breaking /\ n.state = s /\ n.asked = s
  BY <1>1 DEF OpLock
<1>3. QED
  BY <1>1, <1>2 DEF SoundLease, EffectiveState, Honest

\* A restart leaves a lease as it was, unless a write had broken it.
LEMMA PersistedSound ==
  ASSUME NEW l, SoundLease(l)
  PROVE  LET n == FromPersistedLock(l)
         IN  /\ SoundLease(n) /\ n.key = l.key /\ n.asked = l.asked
             /\ ~Does("write") => EffectiveState(n) = EffectiveState(l)
<1>1. l \in OpLock
  BY DEF SoundLease
<1>2. PICK r : r = IF l.required # {} THEN l.required ELSE IF l.breaking THEN l.breakTo ELSE l.state
  OBVIOUS
<1>3. r \in LeaseStates
  BY <1>1, <1>2, LeaseFields
<1>4. PICK n : n = FromPersistedLock(l)
  OBVIOUS
<1>5. n = [l EXCEPT !.timedOut = FALSE, !.required = r]
  BY <1>2, <1>4, <1>1 DEF FromPersistedLock, OpLock
<1>6. /\ n \in OpLock /\ n.key = l.key /\ n.breaking = l.breaking /\ n.breakTo = l.breakTo
      /\ n.required = r /\ n.state = l.state /\ n.asked = l.asked
  BY <1>1, <1>3, <1>5 DEF OpLock
<1>7. l.breaking => r \subseteq l.breakTo /\ ("R" \in r \/ Does("write"))
  BY <1>2 DEF SoundLease
<1>8. SoundLease(n)
  BY <1>6, <1>7 DEF SoundLease
<1>9. ~Does("write") /\ l.breaking => r = l.required
  BY <1>2 DEF SoundLease
<1>10. ~Does("write") => EffectiveState(n) = EffectiveState(l)
  BY <1>6, <1>9 DEF EffectiveState
<1>11. QED
  BY <1>4, <1>6, <1>8, <1>10

-----------------------------------------------------------------------------
(* The records of a file *)

\* A conflict is a conflict of both.
LEMMA ConflictSymmetric ==
  ASSUME NEW l, NEW m, OpLocksConflict(l, m.key, EffectiveState(m))
  PROVE  OpLocksConflict(m, l.key, EffectiveState(l))
BY DEF OpLocksConflict

\* A lease left with less conflicts with less.
LEMMA ConflictMonotone ==
  ASSUME NEW l, NEW m, NEW l1, NEW m1, l1.key = l.key, m1.key = m.key,
         EffectiveState(l1) \subseteq EffectiveState(l),
         EffectiveState(m1) \subseteq EffectiveState(m),
         OpLocksConflict(l1, m1.key, EffectiveState(m1))
  PROVE  OpLocksConflict(l, m.key, EffectiveState(m))
BY DEF OpLocksConflict

\* A step that leaves every record with no more than a record of its key had.
LEMMA NarrowedPairs ==
  ASSUME NEW ls, NEW ms, PairIn(ls), DOMAIN ms = DOMAIN ls,
         \A i \in DOMAIN ls : ms[i].key = ls[i].key,
         \A i \in DOMAIN ls : \E j \in DOMAIN ls :
            ls[j].key = ls[i].key /\ EffectiveState(ms[i]) \subseteq EffectiveState(ls[j]),
         \A i \in DOMAIN ls :
            PositionsOf(ls, ls[i].key) = {i} /\ Honest(ls[i]) => Honest(ms[i])
  PROVE  PairIn(ms)
<1>1. ASSUME NEW i \in DOMAIN ls, NEW j \in DOMAIN ls,
             OpLocksConflict(ms[i], ms[j].key, EffectiveState(ms[j]))
      PROVE  FALSE
  <2>1. PICK a \in DOMAIN ls :
          ls[a].key = ls[i].key /\ EffectiveState(ms[i]) \subseteq EffectiveState(ls[a])
    OBVIOUS
  <2>2. PICK b \in DOMAIN ls :
          ls[b].key = ls[j].key /\ EffectiveState(ms[j]) \subseteq EffectiveState(ls[b])
    OBVIOUS
  <2>3. ms[i].key = ls[a].key /\ ms[j].key = ls[b].key
    BY <2>1, <2>2
  <2>4. OpLocksConflict(ls[a], ls[b].key, EffectiveState(ls[b]))
    BY <1>1, <2>1, <2>2, <2>3, ConflictMonotone
  <2>5. QED
    BY <2>4 DEF PairIn
<1>2. ASSUME NEW i \in DOMAIN ls
      PROVE  PositionsOf(ms, ms[i].key) = PositionsOf(ls, ls[i].key)
  BY DEF PositionsOf
<1>3. QED
  BY <1>1, <1>2 DEF PairIn

\* bestGrantableState conflicts with no other key's lease.
LEMMA GrantFits ==
  ASSUME NEW ls, NEW k, NEW s \in LeaseStates
  PROVE  LET g == bestGrantableState(ls, k, s)
         IN  /\ g \in LeaseStates
             /\ g # {} => \A l \in OtherLeases(ls, k) : ~OpLocksConflict(l, k, g)
<1>1. PICK strip : strip = Stripped(ls, k)
  OBVIOUS
<1>2. PICK cs : cs = downgradeCandidates(s)
  OBVIOUS
<1>3. PICK fit : fit = {i \in DOMAIN cs :
                    \A l \in OtherLeases(ls, k) : ~OpLocksConflict(l, k, cs[i] \ strip)}
  OBVIOUS
<1>4. PICK g : g = bestGrantableState(ls, k, s)
  OBVIOUS
<1>5. g = {} \/ (fit # {} /\ g = cs[FirstOf(fit)] \ strip)
  BY <1>1, <1>2, <1>3, <1>4 DEF bestGrantableState
<1>6. /\ DOMAIN cs = 1..4 /\ cs[1] = s /\ cs[2] = s \ {"W"} /\ cs[3] = s \ {"H"} /\ cs[4] = {"R"}
  BY <1>2, SMT DEF downgradeCandidates
<1>7. /\ s \ {"W"} \in LeaseStates /\ s \ {"H"} \in LeaseStates /\ {"R"} \in LeaseStates
      /\ {} \in LeaseStates
  BY StatesClosed
<1>8. CASE fit # {}
  <2>1. fit \subseteq 1..4 /\ fit \subseteq Nat
    BY <1>3, <1>6, SMT
  <2>2. FirstOf(fit) \in fit
    BY <1>8, <2>1, LeastPosition
  <2>3. PICK f : f = FirstOf(fit)
    OBVIOUS
  <2>4. f \in 1..4
    BY <2>1, <2>2, <2>3
  <2>5. f = 1 \/ f = 2 \/ f = 3 \/ f = 4
    BY <2>4, SMT
  <2>6. cs[f] \in LeaseStates
    BY <2>5, <1>6, <1>7
  <2>7. strip \subseteq {"W", "H"}
    BY <1>1 DEF Stripped
  <2>8. PICK c : c = cs[f]
    OBVIOUS
  <2>9. c \ strip \in LeaseStates
    BY <2>6, <2>7, <2>8, SMT DEF LeaseStates, CachingBits
  <2>10. \A l \in OtherLeases(ls, k) : ~OpLocksConflict(l, k, c \ strip)
    BY <1>3, <2>2, <2>3, <2>8
  <2> QED
    <3>1. g = {} \/ g = c \ strip
      BY <1>5, <2>3, <2>8
    <3> QED
      BY <3>1, <1>4, <1>7, <2>9, <2>10
<1>9. CASE fit = {}
  BY <1>4, <1>5, <1>9, <1>7
<1>10. QED
  BY <1>8, <1>9

\* What WithGrant appends is sound and conflicts with no other key's lease.
LEMMA GrantKeeps ==
  ASSUME NEW ls, SoundIn(ls), NEW k \in LeaseKeys, NEW s \in LeaseStates
  PROVE  SoundIn(WithGrant(ls, k, s)) /\ (PairIn(ls) => PairIn(WithGrant(ls, k, s)))
<1>1. PICK g : g = bestGrantableState(ls, k, s)
  OBVIOUS
<1>2. /\ g \in LeaseStates
      /\ g # {} => \A l \in OtherLeases(ls, k) : ~OpLocksConflict(l, k, g)
  BY <1>1, GrantFits
<1>3. CASE g = {}
  <2>1. WithGrant(ls, k, s) = ls
    BY <1>1, <1>3 DEF WithGrant
  <2> QED
    BY <2>1
<1>4. CASE g # {}
  <2>1. PICK n : n = NewLease(k, g)
    OBVIOUS
  <2>2. SoundLease(n) /\ n.key = k /\ EffectiveState(n) = g /\ Honest(n)
    BY <1>2, <2>1, GrantSound
  <2>3. PICK ms : ms = WithGrant(ls, k, s)
    OBVIOUS
  <2>4. ms = Append(ls, n)
    BY <1>1, <1>4, <2>1, <2>3 DEF WithGrant
  <2>5. n \in OpLock /\ ls \in Seq(OpLock)
    BY <2>2 DEF SoundLease, SoundIn
  <2>6. /\ ms \in Seq(OpLock) /\ DOMAIN ms = DOMAIN ls \cup {Len(ls) + 1}
        /\ Len(ls) + 1 \notin DOMAIN ls /\ ms[Len(ls) + 1] = n
        /\ \A i \in DOMAIN ls : ms[i] = ls[i]
    BY <2>4, <2>5, SMT
  <2>7. PICK z : z = Len(ls) + 1
    OBVIOUS
  <2>8. SoundIn(ms)
    BY <2>2, <2>6 DEF SoundIn
  <2>9. ASSUME PairIn(ls)
        PROVE  PairIn(ms)
    <3>1. ASSUME NEW i \in DOMAIN ls
          PROVE  ~OpLocksConflict(ls[i], k, g)
      <4>1. CASE ls[i].key = k
        BY <4>1 DEF OpLocksConflict
      <4>2. CASE ls[i].key # k
        BY <4>2, <1>2, <1>4 DEF OtherLeases, Records
      <4> QED
        BY <4>1, <4>2
    <3>2. ASSUME NEW i \in DOMAIN ls
          PROVE  ~OpLocksConflict(n, ls[i].key, EffectiveState(ls[i]))
      BY <3>1, <2>2, ConflictSymmetric
    <3>3. ~OpLocksConflict(n, k, g)
      BY <2>2 DEF OpLocksConflict
    <3>4. ASSUME NEW i \in DOMAIN ls, PositionsOf(ms, ms[i].key) = {i}
          PROVE  PositionsOf(ls, ls[i].key) = {i}
      BY <3>4, <2>6 DEF PositionsOf
    <3>5. ASSUME NEW i \in DOMAIN ms, NEW j \in DOMAIN ms
          PROVE  ~OpLocksConflict(ms[i], ms[j].key, EffectiveState(ms[j]))
      <4>1. CASE i \in DOMAIN ls /\ j \in DOMAIN ls
        BY <4>1, <2>6, <2>9 DEF PairIn
      <4>2. CASE i \in DOMAIN ls /\ j = z
        BY <4>2, <2>2, <2>6, <2>7, <3>1
      <4>3. CASE i = z /\ j \in DOMAIN ls
        BY <4>3, <2>6, <2>7, <3>2
      <4>4. CASE i = z /\ j = z
        BY <4>4, <2>2, <2>6, <2>7, <3>3
      <4> QED
        BY <4>1, <4>2, <4>3, <4>4, <2>6, <2>7
    <3>6. ASSUME NEW i \in DOMAIN ms, PositionsOf(ms, ms[i].key) = {i}
          PROVE  Honest(ms[i])
      <4>1. CASE i \in DOMAIN ls
        BY <4>1, <3>4, <3>6, <2>6, <2>9 DEF PairIn
      <4>2. CASE i = z
        BY <4>2, <2>2, <2>6, <2>7
      <4> QED
        BY <4>1, <4>2, <2>6, <2>7
    <3>7. QED
      BY <3>5, <3>6 DEF PairIn
  <2> QED
    BY <2>3, <2>8, <2>9
<1>5. QED
  BY <1>3, <1>4

-----------------------------------------------------------------------------
(* The steps *)

\* One record is replaced by what it became.
LEMMA ReplaceKeeps ==
  ASSUME NEW ls, SoundIn(ls), NEW i \in DOMAIN ls, NEW n, SoundLease(n), n.key = ls[i].key,
         \/ EffectiveState(n) \subseteq EffectiveState(ls[i])
         \/ \A l \in OtherLeases(ls, n.key) : ~OpLocksConflict(l, n.key, EffectiveState(n)),
         Honest(ls[i]) => Honest(n)
  PROVE  /\ SoundIn([ls EXCEPT ![i] = n])
         /\ PairIn(ls) => PairIn([ls EXCEPT ![i] = n])
<1>1. PICK ms : ms = [ls EXCEPT ![i] = n]
  OBVIOUS
<1>2. n \in OpLock /\ ls \in Seq(OpLock)
  BY DEF SoundLease, SoundIn
<1>3. ms \in Seq(OpLock)
  BY <1>1, <1>2, SMT
<1>4. DOMAIN ms = DOMAIN ls /\ ms[i] = n /\ \A j \in DOMAIN ls : j # i => ms[j] = ls[j]
  BY <1>1
<1>5. SoundIn(ms)
  BY <1>3, <1>4 DEF SoundIn
<1>6. ASSUME PairIn(ls)
      PROVE  PairIn(ms)
  <2>1. CASE EffectiveState(n) \subseteq EffectiveState(ls[i])
    <3>1. \A j \in DOMAIN ls : ms[j].key = ls[j].key
      BY <1>4
    <3>2. \A j \in DOMAIN ls : EffectiveState(ms[j]) \subseteq EffectiveState(ls[j])
      BY <1>4, <2>1
    <3>3. \A j \in DOMAIN ls : Honest(ls[j]) => Honest(ms[j])
      BY <1>4
    <3> QED
      BY <1>4, <1>6, <3>1, <3>2, <3>3, NarrowedPairs
  <2>2. CASE \A l \in OtherLeases(ls, n.key) : ~OpLocksConflict(l, n.key, EffectiveState(n))
    <3>1. ASSUME NEW j \in DOMAIN ls
          PROVE  ~OpLocksConflict(ls[j], n.key, EffectiveState(n))
      <4>1. CASE ls[j].key = n.key
        BY <4>1 DEF OpLocksConflict
      <4>2. CASE ls[j].key # n.key
        BY <4>2, <2>2 DEF OtherLeases, Records
      <4> QED
        BY <4>1, <4>2
    <3>2. ASSUME NEW j \in DOMAIN ls
          PROVE  ~OpLocksConflict(n, ls[j].key, EffectiveState(ls[j]))
      BY <3>1, ConflictSymmetric
    <3>3. ~OpLocksConflict(n, n.key, EffectiveState(n))
      BY DEF OpLocksConflict
    <3>4. ASSUME NEW a \in DOMAIN ms, NEW b \in DOMAIN ms
          PROVE  ~OpLocksConflict(ms[a], ms[b].key, EffectiveState(ms[b]))
      <4>1. CASE a # i /\ b # i
        BY <4>1, <1>4, <1>6 DEF PairIn
      <4>2. CASE a # i /\ b = i
        BY <4>2, <1>4, <3>1
      <4>3. CASE a = i /\ b # i
        BY <4>3, <1>4, <3>2
      <4>4. CASE a = i /\ b = i
        BY <4>4, <1>4, <3>3
      <4> QED
        BY <4>1, <4>2, <4>3, <4>4
    <3>5. ASSUME NEW a \in DOMAIN ms, PositionsOf(ms, ms[a].key) = {a}
          PROVE  Honest(ms[a])
      <4>1. PositionsOf(ls, ls[a].key) = {a}
        BY <3>5, <1>4 DEF PositionsOf
      <4> QED
        BY <4>1, <1>4, <1>6 DEF PairIn
    <3> QED
      BY <3>4, <3>5 DEF PairIn
  <2>3. QED
    BY <2>1, <2>2
<1>7. QED
  BY <1>1, <1>5, <1>6

\* A list of records is a sequence, and changing the records in place leaves one.
LEMMA SeqOfRecords ==
  ASSUME NEW n \in Nat, NEW ms, ms = [i \in 1..n |-> ms[i]], \A i \in 1..n : ms[i] \in OpLock
  PROVE  ms \in Seq(OpLock)
BY SMT

LEMMA PointwiseSeq ==
  ASSUME NEW ls \in Seq(OpLock), NEW ms, ms = [i \in DOMAIN ls |-> ms[i]],
         \A i \in DOMAIN ls : ms[i] \in OpLock
  PROVE  ms \in Seq(OpLock)
<1>1. DOMAIN ls = 1..Len(ls) /\ Len(ls) \in Nat
  BY SMT
<1>2. ms = [i \in 1..Len(ls) |-> ms[i]] /\ \A i \in 1..Len(ls) : ms[i] \in OpLock
  BY <1>1
<1>3. QED
  BY <1>1, <1>2, SeqOfRecords

\* The record that a request or an acknowledgement under key k finds.
LEMMA FirstOfKey ==
  ASSUME SoundIn(leases), NEW k, LeaseAt(k) # {}
  PROVE  FirstOf(LeaseAt(k)) \in DOMAIN leases /\ leases[FirstOf(LeaseAt(k))].key = k
<1>1. LeaseAt(k) \in SUBSET Nat
  BY SMT DEF LeaseAt, SoundIn
<1>2. FirstOf(LeaseAt(k)) \in LeaseAt(k)
  BY <1>1, LeastPosition
<1>3. QED
  BY <1>2 DEF LeaseAt

\* RequestLease under a key that has a lease already raises it only to what conflicts
\* with no other key.
LEMMA UpgradeKeeps ==
  ASSUME SoundIn(leases), NEW k, NEW s \in LeaseStates, Upgrade(k, s)
  PROVE  SoundIn(leases') /\ (PairIn(leases) => PairIn(leases'))
<1>1. PICK i : i = FirstOf(LeaseAt(k))
  OBVIOUS
<1>2. /\ ~leases[i].breaking
      /\ \A l \in OtherLeases(leases, k) : ~OpLocksConflict(l, k, s)
      /\ leases' = [leases EXCEPT ![i] = [leases[i] EXCEPT !.state = s, !.asked = s]]
  BY <1>1 DEF Upgrade
<1>3. i \in DOMAIN leases /\ leases[i].key = k
  <2>1. LeaseAt(k) # {}
    BY DEF Upgrade
  <2> QED
    BY <1>1, <2>1, FirstOfKey
<1>4. leases[i] \in OpLock
  BY <1>3 DEF SoundIn, SoundLease
<1>5. PICK n : n = [leases[i] EXCEPT !.state = s, !.asked = s]
  OBVIOUS
<1>6. SoundLease(n) /\ n.key = leases[i].key /\ EffectiveState(n) = s /\ Honest(n)
  BY <1>2, <1>4, <1>5, UpgradeSound
<1>7. QED
  BY <1>2, <1>3, <1>5, <1>6, ReplaceKeeps

\* The first conflicting lease of a request that must break one.
LEMMA FirstConflict ==
  ASSUME SoundIn(leases), NEW k, NEW s, MustBreak(k, s)
  PROVE  LET i == FirstOf(Conflicts(k, s))
         IN  /\ i \in DOMAIN leases /\ leases[i].key # k
             /\ StripW(leases[i]) # EffectiveState(leases[i])
<1>1. PICK j \in Conflicts(k, s) : /\ \A m \in Conflicts(k, s) : j <= m
                                   /\ StripW(leases[j]) # EffectiveState(leases[j])
  BY DEF MustBreak
<1>2. Conflicts(k, s) \in SUBSET Nat
  BY SMT DEF Conflicts, SoundIn
<1>3. PICK i : i = FirstOf(Conflicts(k, s))
  OBVIOUS
<1>4. i \in Conflicts(k, s) /\ \A m \in Conflicts(k, s) : i <= m
  BY <1>1, <1>2, <1>3, LeastPosition
<1>5. i <= j /\ j <= i /\ i \in Nat /\ j \in Nat
  BY <1>1, <1>2, <1>4
<1>6. i = j
  BY <1>5, SMT
<1>7. QED
  BY <1>1, <1>3, <1>6 DEF Conflicts, OpLocksConflict

\* RequestLease under a new key: marking the first conflicting lease takes Write away.
LEMMA RequestBreaksKeeps ==
  ASSUME SoundIn(leases), NEW t, NEW k, NEW s, RequestBreaks(t, k, s)
  PROVE  SoundIn(leases') /\ (PairIn(leases) => PairIn(leases'))
<1>1. PICK i : i = FirstOf(Conflicts(k, s))
  OBVIOUS
<1>2. PICK l : l = leases[i]
  OBVIOUS
<1>3. PICK n : n = [l EXCEPT !.breaking = TRUE, !.breakTo = StripW(l),
                             !.required = StripW(l), !.asked = StripW(l)]
  OBVIOUS
<1>4. MustBreak(k, s) /\ ~l.breaking /\ leases' = [leases EXCEPT ![i] = n]
  BY <1>1, <1>2, <1>3 DEF RequestBreaks
<1>5. i \in DOMAIN leases /\ StripW(l) # EffectiveState(l)
  BY <1>1, <1>2, <1>4, FirstConflict
<1>6. SoundLease(l)
  BY <1>2, <1>5 DEF SoundIn
<1>7. SoundLease(n) /\ n.key = l.key /\ EffectiveState(n) \subseteq EffectiveState(l) /\ Honest(n)
  BY <1>3, <1>4, <1>5, <1>6, RequestBreakSound
<1>8. QED
  BY <1>2, <1>4, <1>5, <1>7, ReplaceKeeps

\* RequestLease that meets a lease already breaking tightens its target and grants the
\* rest at once.
LEMMA RequestMergesKeeps ==
  ASSUME SoundIn(leases), NEW t, NEW k \in LeaseKeys, NEW s \in LeaseStates, RequestMerges(t, k, s)
  PROVE  SoundIn(leases') /\ (PairIn(leases) => PairIn(leases'))
<1>1. PICK i : i = FirstOf(Conflicts(k, s))
  OBVIOUS
<1>2. PICK l : l = leases[i]
  OBVIOUS
<1>3. PICK n : n = Tighten(l, StripW(l))
  OBVIOUS
<1>4. PICK ms : ms = [leases EXCEPT ![i] = n]
  OBVIOUS
<1>5. MustBreak(k, s) /\ l.breaking /\ leases' = WithGrant(ms, k, s)
  BY <1>1, <1>2, <1>3, <1>4 DEF RequestMerges
<1>6. i \in DOMAIN leases /\ StripW(l) # EffectiveState(l)
  BY <1>1, <1>2, <1>5, FirstConflict
<1>7. SoundLease(l) /\ l \in OpLock
  BY <1>2, <1>6 DEF SoundIn, SoundLease
<1>8. StripW(l) = l.required \ {"W"} /\ EffectiveState(l) = l.required
  BY <1>5 DEF StripW, EffectiveState
<1>9. PICK q : q = l.required
  OBVIOUS
<1>10. q \in LeaseStates /\ q \ {"W"} # q
  BY <1>6, <1>7, <1>8, <1>9, LeaseFields
<1>11. q \ {"W"} \in LeaseStates
  BY <1>10, StatesClosed
<1>12. "R" \in q \ {"W"}
  BY <1>10, SMT DEF LeaseStates
<1>13. StripW(l) \in LeaseStates /\ "R" \in StripW(l)
  BY <1>8, <1>9, <1>11, <1>12
<1>14. /\ SoundLease(n) /\ n.key = l.key /\ EffectiveState(n) \subseteq EffectiveState(l)
       /\ Honest(l) => Honest(n)
  BY <1>3, <1>5, <1>7, <1>13, TightenSound
<1>15. SoundIn(ms) /\ (PairIn(leases) => PairIn(ms))
  BY <1>2, <1>4, <1>6, <1>14, ReplaceKeeps
<1>16. QED
  BY <1>5, <1>15, GrantKeeps

\* breakOpLocks: the first record of each key is broken, the others mirror it.
LEMMA BreakKeeps ==
  ASSUME SoundIn(leases), NEW kind \in BreakKinds, Does(kind), NEW k, BreakOpLocks(kind, k)
  PROVE  SoundIn(leases') /\ (PairIn(leases) => PairIn(leases'))
<1> DEFINE hit == {i \in DOMAIN leases : leases[i].key # k /\ shouldBreak(kind, leases[i])}
           same(i) == {j \in hit : leases[j].key = leases[i].key}
           first(i) == FirstOf(same(i))
<1>1. leases' = [i \in DOMAIN leases |->
             IF i \notin hit THEN leases[i]
             ELSE IF first(i) = i THEN BreakLease(kind, leases[i])
             ELSE mirrorBreakStage(leases[i], BreakLease(kind, leases[first(i)]))]
  BY DEF BreakOpLocks
<1>2. ASSUME NEW i \in hit
      PROVE  /\ SoundLease(BreakLease(kind, leases[i]))
             /\ BreakLease(kind, leases[i]).key = leases[i].key
             /\ EffectiveState(BreakLease(kind, leases[i])) \subseteq EffectiveState(leases[i])
             /\ Honest(leases[i]) => Honest(BreakLease(kind, leases[i]))
  <2>1. SoundLease(leases[i]) /\ shouldBreak(kind, leases[i])
    BY DEF SoundIn
  <2> QED
    BY <2>1, BreakSound
<1>3. ASSUME NEW i \in hit
      PROVE  first(i) \in hit /\ leases[first(i)].key = leases[i].key
  <2>1. same(i) \in SUBSET Nat /\ same(i) # {}
    <3>1. DOMAIN leases \subseteq Nat
      BY SMT DEF SoundIn
    <3> QED
      BY <3>1
  <2>2. first(i) \in same(i)
    BY <2>1, LeastPosition
  <2> QED
    BY <2>2
<1>4. ASSUME NEW i \in DOMAIN leases
      PROVE  /\ SoundLease(leases'[i]) /\ leases'[i].key = leases[i].key
             /\ \E j \in DOMAIN leases : /\ leases[j].key = leases[i].key
                     /\ EffectiveState(leases'[i]) \subseteq EffectiveState(leases[j])
             /\ PositionsOf(leases, leases[i].key) = {i} /\ Honest(leases[i])
                  => Honest(leases'[i])
  <2>1. CASE i \notin hit
    <3>1. leases'[i] = leases[i]
      BY <1>1, <2>1
    <3> QED
      BY <3>1 DEF SoundIn
  <2>2. CASE i \in hit /\ first(i) = i
    <3>1. leases'[i] = BreakLease(kind, leases[i])
      BY <1>1, <2>2
    <3> QED
      BY <3>1, <2>2, <1>2
  <2>3. CASE i \in hit /\ first(i) # i
    <3>1. PICK c : c = BreakLease(kind, leases[first(i)])
      OBVIOUS
    <3>2. leases'[i] = mirrorBreakStage(leases[i], c)
      BY <1>1, <2>3, <3>1
    <3>3. PICK j : j = first(i)
      OBVIOUS
    <3>4. j \in hit /\ j \in DOMAIN leases /\ leases[j].key = leases[i].key /\ j # i
      BY <1>3, <2>3, <3>3
    <3>5. SoundLease(c) /\ EffectiveState(c) \subseteq EffectiveState(leases[j])
      BY <1>2, <3>1, <3>3, <3>4
    <3>6. leases[i] \in OpLock
      BY DEF SoundIn, SoundLease
    <3>7. /\ SoundLease(leases'[i]) /\ leases'[i].key = leases[i].key
          /\ EffectiveState(leases'[i]) = EffectiveState(c)
      BY <3>2, <3>5, <3>6, MirrorSound
    <3>8. PositionsOf(leases, leases[i].key) # {i}
      BY <3>4 DEF PositionsOf
    <3> QED
      BY <3>4, <3>5, <3>7, <3>8
  <2> QED
    BY <2>1, <2>2, <2>3
<1>5. DOMAIN leases' = DOMAIN leases
  BY <1>1
<1> HIDE DEF hit, first, same
<1>6. leases' \in Seq(OpLock)
  <2>1. \A i \in DOMAIN leases : leases'[i] \in OpLock
    BY <1>4 DEF SoundLease
  <2>2. leases \in Seq(OpLock)
    BY DEF SoundIn
  <2>3. leases' = [i \in DOMAIN leases |-> leases'[i]]
    BY <1>1
  <2> QED
    BY <2>1, <2>2, <2>3, PointwiseSeq
<1>7. SoundIn(leases')
  BY <1>4, <1>5, <1>6 DEF SoundIn
<1>8. QED
  BY <1>4, <1>5, <1>7, NarrowedPairs

\* AcknowledgeLeaseBreak, last stage: the record and its siblings settle on what the
\* holder keeps, which is within what is required.
LEMMA AckCompletesKeeps ==
  ASSUME SoundIn(leases), NEW k, NEW s \in LeaseStates, AckCompletes(k, s)
  PROVE  SoundIn(leases') /\ (PairIn(leases) => PairIn(leases'))
<1>1. PICK i : i = FirstOf(LeaseAt(k))
  OBVIOUS
<1>2. /\ leases[i].breaking /\ s \subseteq leases[i].required
      /\ leases' = Acknowledged(i, s) /\ LeaseAt(k) # {}
  BY <1>1 DEF AckCompletes
<1>3. i \in DOMAIN leases /\ leases[i].key = k
  BY <1>1, <1>2, FirstOfKey
<1>4. EffectiveState(leases[i]) = leases[i].required
  BY <1>2 DEF EffectiveState
<1>5. ASSUME NEW j \in DOMAIN leases
      PROVE  /\ SoundLease(leases'[j]) /\ leases'[j].key = leases[j].key
             /\ \E m \in DOMAIN leases : /\ leases[m].key = leases[j].key
                     /\ EffectiveState(leases'[j]) \subseteq EffectiveState(leases[m])
             /\ PositionsOf(leases, leases[j].key) = {j} /\ Honest(leases[j])
                  => Honest(leases'[j])
  <2>1. CASE j = i \/ (leases[j].key = leases[i].key /\ leases[j].breaking)
    <3>1. leases'[j] = Settle(leases[j], s)
      BY <1>2, <2>1 DEF Acknowledged
    <3>2. leases[j] \in OpLock
      BY DEF SoundIn, SoundLease
    <3>3. /\ SoundLease(leases'[j]) /\ leases'[j].key = leases[j].key
          /\ EffectiveState(leases'[j]) = s /\ leases'[j].asked = leases[j].asked
      BY <3>1, <3>2, SettleSound
    <3>4. PositionsOf(leases, leases[j].key) = {j} => j = i
      BY <1>3, <2>1 DEF PositionsOf
    <3>5. leases[j].key = leases[i].key
      BY <2>1
    <3> QED
      BY <1>2, <1>3, <1>4, <3>3, <3>4, <3>5 DEF Honest
  <2>2. CASE ~(j = i \/ (leases[j].key = leases[i].key /\ leases[j].breaking))
    <3>1. leases'[j] = leases[j]
      BY <1>2, <2>2 DEF Acknowledged
    <3> QED
      BY <3>1 DEF SoundIn
  <2> QED
    BY <2>1, <2>2
<1>6. DOMAIN leases' = DOMAIN leases
  BY <1>2 DEF Acknowledged
<1>7. leases' \in Seq(OpLock)
  <2>1. \A j \in DOMAIN leases : leases'[j] \in OpLock
    BY <1>5 DEF SoundLease
  <2>2. leases \in Seq(OpLock)
    BY DEF SoundIn
  <2>3. leases' = [j \in DOMAIN leases |-> leases'[j]]
    BY <1>2 DEF Acknowledged
  <2> QED
    BY <2>1, <2>2, <2>3, PointwiseSeq
<1>8. SoundIn(leases')
  BY <1>5, <1>6, <1>7 DEF SoundIn
<1>9. QED
  BY <1>5, <1>6, <1>8, NarrowedPairs

\* AcknowledgeLeaseBreak, earlier stage: the next one asks for less.
LEMMA AckAdvancesKeeps ==
  ASSUME SoundIn(leases), NEW k, NEW s \in LeaseStates, AckAdvances(k, s)
  PROVE  SoundIn(leases') /\ (PairIn(leases) => PairIn(leases'))
<1>1. PICK i : i = FirstOf(LeaseAt(k))
  OBVIOUS
<1>2. PICK l : l = leases[i]
  OBVIOUS
<1>3. PICK n : n = applyBreakStage([l EXCEPT !.state = s, !.breaking = FALSE, !.breakTo = {}],
                                   nextProgressiveBreakTarget(s, l.required))
  OBVIOUS
<1>4. /\ l.breaking /\ s \subseteq l.breakTo /\ ~(s \subseteq l.required)
      /\ leases' = [leases EXCEPT ![i] = n] /\ LeaseAt(k) # {}
  BY <1>1, <1>2, <1>3 DEF AckAdvances
<1>5. i \in DOMAIN leases
  BY <1>1, <1>4, FirstOfKey
<1>6. SoundLease(l)
  BY <1>2, <1>5 DEF SoundIn
<1>7. /\ SoundLease(n) /\ n.key = l.key /\ EffectiveState(n) \subseteq EffectiveState(l)
      /\ n.asked = l.asked
  BY <1>3, <1>4, <1>6, AdvanceSound
<1>8. Honest(l) => Honest(n)
  BY <1>7 DEF Honest
<1>9. QED
  BY <1>2, <1>4, <1>5, <1>7, <1>8, ReplaceKeeps

\* The records of a key are released together.
LEMMA ReleaseKeeps ==
  ASSUME SoundIn(leases), NEW k, ReleaseLease(k)
  PROVE  SoundIn(leases') /\ (PairIn(leases) => PairIn(leases'))
<1> DEFINE kept == DOMAIN leases \ LeaseAt(k)
<1>1. PICK n \in 0..Len(leases) : \E at \in [1..n -> kept] :
         /\ \A i \in kept : \E j \in 1..n : at[j] = i
         /\ \A i, j \in 1..n : i < j => at[i] < at[j]
         /\ leases' = [j \in 1..n |-> leases[at[j]]]
  BY DEF ReleaseLease
<1>2. PICK at \in [1..n -> kept] :
         /\ \A i \in kept : \E j \in 1..n : at[j] = i
         /\ leases' = [j \in 1..n |-> leases[at[j]]]
  BY <1>1
<1>3. /\ DOMAIN leases' = 1..n
      /\ \A j \in 1..n : leases'[j] = leases[at[j]] /\ at[j] \in kept /\ at[j] \in DOMAIN leases
  BY <1>2
<1>4. leases' \in Seq(OpLock)
  <2>1. n \in Nat
    BY SMT DEF SoundIn
  <2>2. \A j \in 1..n : leases'[j] \in OpLock
    BY <1>3 DEF SoundIn, SoundLease
  <2>3. leases' = [j \in 1..n |-> leases'[j]]
    BY <1>2
  <2> QED
    BY <2>1, <2>2, <2>3, SeqOfRecords
<1>5. SoundIn(leases')
  BY <1>3, <1>4 DEF SoundIn
<1>6. ASSUME PairIn(leases)
      PROVE  PairIn(leases')
  <2>1. ASSUME NEW i \in 1..n, PositionsOf(leases', leases'[i].key) = {i}
        PROVE  PositionsOf(leases, leases[at[i]].key) = {at[i]}
    <3>1. ASSUME NEW a \in DOMAIN leases, leases[a].key = leases[at[i]].key
          PROVE  a = at[i]
      <4>1. a \in kept
        BY <3>1, <1>3 DEF LeaseAt
      <4>2. PICK j \in 1..n : at[j] = a
        BY <4>1, <1>2
      <4>3. j \in PositionsOf(leases', leases'[i].key)
        BY <4>2, <3>1, <1>3 DEF PositionsOf
      <4> QED
        BY <4>2, <4>3, <2>1
    <3> QED
      BY <3>1, <1>3 DEF PositionsOf
  <2>2. ASSUME NEW i \in 1..n, NEW j \in 1..n
        PROVE  ~OpLocksConflict(leases'[i], leases'[j].key, EffectiveState(leases'[j]))
    BY <1>3, <1>6 DEF PairIn
  <2>3. ASSUME NEW i \in 1..n, PositionsOf(leases', leases'[i].key) = {i}
        PROVE  Honest(leases'[i])
    BY <2>1, <2>3, <1>3, <1>6 DEF PairIn
  <2> QED
    BY <2>2, <2>3, <1>3 DEF PairIn
<1>7. QED
  BY <1>5, <1>6

\* forceCompleteBreaks leaves a lease with nothing.
LEMMA ForceKeeps ==
  ASSUME SoundIn(leases), forceCompleteBreaks
  PROVE  SoundIn(leases') /\ (PairIn(leases) => PairIn(leases'))
<1>1. leases' = [i \in DOMAIN leases |->
         IF leases[i].breaking
         THEN [Settle(leases[i], {}) EXCEPT !.timedOut = TRUE] ELSE leases[i]]
  BY DEF forceCompleteBreaks
<1>2. ASSUME NEW i \in DOMAIN leases
      PROVE  /\ SoundLease(leases'[i]) /\ leases'[i].key = leases[i].key
             /\ EffectiveState(leases'[i]) \subseteq EffectiveState(leases[i])
             /\ Honest(leases[i]) => Honest(leases'[i])
  <2>1. CASE leases[i].breaking
    <3>1. leases'[i] = [Settle(leases[i], {}) EXCEPT !.timedOut = TRUE]
      BY <1>1, <2>1
    <3>2. leases[i] \in OpLock
      BY DEF SoundIn, SoundLease
    <3>3. SoundLease(leases'[i]) /\ leases'[i].key = leases[i].key /\ EffectiveState(leases'[i]) = {}
      BY <3>1, <3>2, ForceSound
    <3> QED
      BY <3>3 DEF Honest
  <2>2. CASE ~leases[i].breaking
    <3>1. leases'[i] = leases[i]
      BY <1>1, <2>2
    <3> QED
      BY <3>1 DEF SoundIn
  <2> QED
    BY <2>1, <2>2
<1>3. DOMAIN leases' = DOMAIN leases
  BY <1>1
<1>4. leases' \in Seq(OpLock)
  <2>1. \A i \in DOMAIN leases : leases'[i] \in OpLock
    BY <1>2 DEF SoundLease
  <2>2. leases \in Seq(OpLock)
    BY DEF SoundIn
  <2>3. leases' = [i \in DOMAIN leases |-> leases'[i]]
    BY <1>1
  <2> QED
    BY <2>1, <2>2, <2>3, PointwiseSeq
<1>5. SoundIn(leases')
  BY <1>2, <1>3, <1>4 DEF SoundIn
<1>6. QED
  BY <1>2, <1>3, <1>5, NarrowedPairs

\* RestoreLocks brings back every record; that a lease broken to None comes back with
\* more is why NoneLost is assumed.
LEMMA RestartKeeps ==
  ASSUME SoundIn(leases), LeaseRestart
  PROVE  SoundIn(leases') /\ (NoneLost /\ PairIn(leases) => PairIn(leases'))
<1>1. Does("restart") /\ leases' = [i \in DOMAIN leases |-> FromPersistedLock(leases[i])]
  BY DEF LeaseRestart
<1>2. ASSUME NEW i \in DOMAIN leases
      PROVE  /\ SoundLease(leases'[i]) /\ leases'[i].key = leases[i].key
             /\ leases'[i].asked = leases[i].asked
             /\ ~Does("write") => EffectiveState(leases'[i]) = EffectiveState(leases[i])
  <2>1. leases'[i] = FromPersistedLock(leases[i]) /\ SoundLease(leases[i])
    BY <1>1 DEF SoundIn
  <2> QED
    BY <2>1, PersistedSound
<1>3. DOMAIN leases' = DOMAIN leases
  BY <1>1
<1>4. leases' \in Seq(OpLock)
  <2>1. \A i \in DOMAIN leases : leases'[i] \in OpLock
    BY <1>2 DEF SoundLease
  <2>2. leases \in Seq(OpLock)
    BY DEF SoundIn
  <2>3. leases' = [i \in DOMAIN leases |-> leases'[i]]
    BY <1>1
  <2> QED
    BY <2>1, <2>2, <2>3, PointwiseSeq
<1>5. SoundIn(leases')
  BY <1>2, <1>3, <1>4 DEF SoundIn
<1>6. ASSUME NoneLost, PairIn(leases)
      PROVE  PairIn(leases')
  <2>1. \A i \in DOMAIN leases :
          /\ leases'[i].key = leases[i].key
          /\ EffectiveState(leases'[i]) \subseteq EffectiveState(leases[i])
          /\ Honest(leases[i]) => Honest(leases'[i])
    BY <1>1, <1>2, <1>6 DEF NoneLost, Honest
  <2> QED
    BY <2>1, <1>3, <1>6, NarrowedPairs
<1>7. QED
  BY <1>5, <1>6

\* The invariant of the leases: every record is sound, and unless a restart may meet a
\* lease that a write broke, any two keys are compatible and what was asked is honoured.
THEOREM LeasesStaySound == LeaseSpec => []LeaseInv
<1>1. LeaseInit => LeaseInv
  <2> SUFFICES ASSUME LeaseInit
               PROVE  LeaseInv
    OBVIOUS
  <2>1. leases \in Seq(OpLock) /\ DOMAIN leases = {}
    BY SMT DEF LeaseInit
  <2>2. OpeningOK
    BY DEF LeaseInit, OpeningOK
  <2> QED
    BY <2>1, <2>2 DEF LeaseInv, SoundIn, PairIn
<1>2. LeaseInv /\ [LeaseNext]_<<leaseVars, work>> => LeaseInv'
  <2> SUFFICES ASSUME LeaseInv, [LeaseNext]_<<leaseVars, work>>
               PROVE  LeaseInv'
    OBVIOUS
  <2>1. SoundIn(leases) /\ OpeningOK /\ (NoneLost => PairIn(leases))
    BY DEF LeaseInv
  <2>2. work' = work
    BY DEF LeaseNext, leaseVars, Upgrade, RequestBreaks, RequestAtOnce, RequestMerges,
           AckCompletes, AckAdvances, BreakOpLocks, ReleaseLease, RequestGrants,
           forceCompleteBreaks, LeaseRestart
  <2>3. SoundIn(leases)' = SoundIn(leases') /\ PairIn(leases)' = PairIn(leases')
        /\ NoneLost' = NoneLost
    BY <2>2 DEF SoundIn, PairIn, NoneLost, Does, SoundLease, Honest, PositionsOf,
                EffectiveState, OpLocksConflict
  <2>4. ASSUME NEW k \in ActiveKeys
        PROVE  k \in LeaseKeys
    BY DEF ActiveKeys
  <2>5. SoundIn(leases') /\ (NoneLost /\ PairIn(leases) => PairIn(leases'))
    <3>1. CASE UNCHANGED <<leaseVars, work>>
      <4>1. leases' = leases
        BY <3>1 DEF leaseVars
      <4> QED
        BY <4>1, <2>1
    <3>2. ASSUME NEW k \in ActiveKeys, NEW s \in LeaseStates, Upgrade(k, s)
          PROVE  SoundIn(leases') /\ (PairIn(leases) => PairIn(leases'))
      BY <3>2, <2>1, UpgradeKeeps
    <3>3. ASSUME NEW k \in ActiveKeys, NEW s \in LeaseStates, NEW t \in Openers,
                 RequestBreaks(t, k, s) \/ RequestAtOnce(t, k, s) \/ RequestMerges(t, k, s)
          PROVE  SoundIn(leases') /\ (PairIn(leases) => PairIn(leases'))
      <4>1. CASE RequestBreaks(t, k, s)
        BY <4>1, <2>1, RequestBreaksKeeps
      <4>2. CASE RequestAtOnce(t, k, s)
        <5>1. leases' = WithGrant(leases, k, s)
          BY <4>2 DEF RequestAtOnce
        <5> QED
          BY <5>1, <2>1, <2>4, GrantKeeps
      <4>3. CASE RequestMerges(t, k, s)
        BY <4>3, <2>1, <2>4, RequestMergesKeeps
      <4> QED
        BY <3>3, <4>1, <4>2, <4>3
    <3>4. ASSUME NEW k \in ActiveKeys, NEW s \in LeaseStates, AckCompletes(k, s) \/ AckAdvances(k, s)
          PROVE  SoundIn(leases') /\ (PairIn(leases) => PairIn(leases'))
      BY <3>4, <2>1, AckCompletesKeeps, AckAdvancesKeeps
    <3>5. ASSUME NEW k \in ActiveKeys, NEW kind \in BreakKinds, Does(kind), BreakOpLocks(kind, k)
          PROVE  SoundIn(leases') /\ (PairIn(leases) => PairIn(leases'))
      BY <3>5, <2>1, BreakKeeps
    <3>6. ASSUME NEW k \in ActiveKeys, ReleaseLease(k)
          PROVE  SoundIn(leases') /\ (PairIn(leases) => PairIn(leases'))
      BY <3>6, <2>1, ReleaseKeeps
    <3>7. ASSUME NEW t \in Openers, RequestGrants(t)
          PROVE  SoundIn(leases') /\ (PairIn(leases) => PairIn(leases'))
      <4>1. /\ leases' = WithGrant(leases, opening[t].key, opening[t].want)
            /\ opening[t].key \in LeaseKeys /\ opening[t].want \in LeaseStates
        BY <3>7, <2>1 DEF RequestGrants, OpeningOK
      <4> QED
        BY <4>1, <2>1, GrantKeeps
    <3>8. CASE forceCompleteBreaks
      BY <3>8, <2>1, ForceKeeps
    <3>9. CASE LeaseRestart
      BY <3>9, <2>1, RestartKeeps
    <3>10. QED
      BY <3>1, <3>2, <3>3, <3>4, <3>5, <3>6, <3>7, <3>8, <3>9 DEF LeaseNext
  <2>6. OpeningOK'
    <3>1. ASSUME NEW t \in Openers, NEW k \in ActiveKeys, NEW s \in LeaseStates, RequestBreaks(t, k, s)
          PROVE  OpeningOK'
      <4>1. opening' = [opening EXCEPT ![t] = [key |-> k, want |-> s]]
        BY <3>1 DEF RequestBreaks
      <4> QED
        BY <4>1, <2>1, <2>4 DEF OpeningOK
    <3>2. ASSUME NEW t \in Openers, RequestGrants(t)
          PROVE  OpeningOK'
      BY <3>2, <2>1 DEF RequestGrants, OpeningOK
    <3>3. CASE LeaseRestart
      BY <3>3 DEF LeaseRestart, OpeningOK
    <3>4. CASE opening' = opening
      BY <3>4, <2>1 DEF OpeningOK
    <3> QED
      BY <3>1, <3>2, <3>3, <3>4 DEF LeaseNext, leaseVars, Upgrade, RequestAtOnce,
         RequestMerges, AckCompletes, AckAdvances, BreakOpLocks, ReleaseLease,
         forceCompleteBreaks
  <2>7. QED
    BY <2>1, <2>3, <2>5, <2>6 DEF LeaseInv
<1>3. QED
  BY <1>1, <1>2, PTL DEF LeaseSpec

\* Write caching is exclusive: what two lease keys hold or will be left with never
\* conflicts, whatever the order of opens, breaks, acknowledgements, closes, timeouts
\* and restarts.
THEOREM LeasesCompatible == LeaseSpec /\ []NoneLost => []Compatible
<1>1. LeaseInv /\ NoneLost => Compatible
  BY DEF LeaseInv, PairIn, Compatible, Records
<1>2. QED
  BY <1>1, LeasesStaySound, PTL

\* A lease comes out of a break with no more than every operation that broke it left it.
THEOREM BreaksHonoured == LeaseSpec /\ []NoneLost => []AskedHonoured
<1>1. LeaseInv /\ NoneLost => AskedHonoured
  BY DEF LeaseInv, PairIn, AskedHonoured, LeaseAt, PositionsOf, Honest, EffectiveState
<1>2. QED
  BY <1>1, LeasesStaySound, PTL

\* Every notification asks for something and never for more than was demanded.
THEOREM NotificationsNarrow == LeaseSpec => [](LeaseTypeOK /\ StagesNarrow)
<1>1. LeaseInv => LeaseTypeOK /\ StagesNarrow
  BY DEF LeaseInv, OpeningOK, SoundIn, SoundLease, LeaseTypeOK, StagesNarrow, Records
<1>2. QED
  BY <1>1, LeasesStaySound, PTL
=============================================================================
