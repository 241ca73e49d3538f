----------------------------- MODULE LockTable ------------------------------
(***************************************************************************)
(* The byte-range locks of one file, pkg/metadata/lock/manager.go.         *)
(*                                                                         *)
(* SMB keeps its locks in one map (Manager.locks) and NLM and NFSv4 keep   *)
(* theirs in another (Manager.unifiedLocks).  The two are cross-checked on *)
(* every acquisition, and each mutation is written to the lock store while *)
(* the mutex is held, so one call is one step here.  The store calls are   *)
(* best effort: when one fails the error is logged (alarm) and the call    *)
(* still succeeds.                                                         *)
(*                                                                         *)
(* An offset is a number in 0..Top, Top standing for 2^64-1, and range     *)
(* arithmetic wraps as uint64 does.  A length of zero means "to the end of *)
(* the file" in a unified lock and an empty range in an SMB lock.  The     *)
(* order of a map's entries is left out: where the code takes the first    *)
(* match the model takes any, which is what a restart makes of it anyway.  *)
(***************************************************************************)
EXTENDS Integers, FiniteSets, Workload

CONSTANTS Top,          \* the largest byte offset
          Opens,        \* SMB opens, the owners of the locks map
          Owners,       \* NLM and NFSv4 lock owners
          ClientOf,     \* the client id recorded with an owner's locks
          SmbRanges,    \* ranges the SMB clients ask for
          UniRanges,    \* ranges the NLM and NFSv4 clients ask for
          MaxIDs        \* bound on the live lock records

Ranges == [off : 0..Top, len : 0..Top]

ASSUME LockTableAssumption ==
  /\ Top \in Nat /\ MaxIDs \in Nat
  /\ Opens \cap Owners = {}
  /\ SmbRanges \subseteq Ranges /\ UniRanges \subseteq Ranges

\* No range runs past the last byte: rangeLast and rangeEnd wrap on one that does.
ASSUME RangesFit == \A r \in SmbRanges \cup UniRanges : r.off + r.len <= Top + 1

VARIABLES locks,        \* Manager.locks of the file
          unifiedLocks, \* Manager.unifiedLocks of the file
          lockStore,    \* the persisted records
          alarm         \* a store call has failed

lockVars == <<locks, unifiedLocks, lockStore, alarm>>

IDs == 1..MaxIDs
LockRecord == [id : IDs, owner : Opens \cup Owners, off : 0..Top, len : 0..Top,
               ex : BOOLEAN]

-----------------------------------------------------------------------------
(* Ranges and conflicts.                                                   *)

rangeLast(off, len) ==
  IF len = 0 THEN Top ELSE (off + len - 1) % (Top + 1)

rangeEnd(off, len) == IF len = 0 THEN Top ELSE (off + len) % (Top + 1)

RangesOverlap(o1, l1, o2, l2) ==
  o1 <= rangeLast(o2, l2) /\ o2 <= rangeLast(o1, l1)

IsZeroByte(fl) == fl.owner \in Opens /\ fl.len = 0

\* A zero-byte lock overlaps only a range that spans its offset strictly.
ZeroByteInside(zb, other) ==
  zb.off # 0 /\ other.off < zb.off /\ rangeEnd(other.off, other.len) > zb.off

locksOverlap(a, b) ==
  CASE IsZeroByte(a) /\ IsZeroByte(b) -> FALSE
    [] IsZeroByte(a) /\ ~IsZeroByte(b) -> ZeroByteInside(a, b)
    [] ~IsZeroByte(a) /\ IsZeroByte(b) -> ZeroByteInside(b, a)
    [] OTHER -> RangesOverlap(a.off, a.len, b.off, b.len)

\* Two SMB locks.  The same open may stack a shared lock on its own exclusive
\* one and nothing else that overlaps.
IsLockConflicting(existing, requested) ==
  /\ locksOverlap(existing, requested)
  /\ existing.ex \/ requested.ex
  /\ ~(existing.owner = requested.owner /\ existing.ex /\ ~requested.ex)

fileLockConflictsWithUnified(fl, ul) ==
  /\ ~IsZeroByte(fl)
  /\ RangesOverlap(fl.off, fl.len, ul.off, ul.len)
  /\ fl.ex \/ ul.ex

\* Two unified byte-range locks.
ConflictsWith(a, b) ==
  /\ RangesOverlap(a.off, a.len, b.off, b.len)
  /\ a.owner # b.owner
  /\ a.ex \/ b.ex

-----------------------------------------------------------------------------
(* The lock store.  A call touches the records of some ids; a failed call  *)
(* leaves the store's record of its id as it was.                          *)

Held == locks \cup unifiedLocks
UsedIDs == {l.id : l \in Held \cup lockStore}

\* The k-th id not in use: a fresh UUID.
FreshID(k) ==
  LET free == IDs \ UsedIDs IN
  CHOOSE i \in free : Cardinality({j \in free : j <= i}) = k

HasFresh(k) == Cardinality(IDs \ UsedIDs) >= k

\* After the first failure the table promises nothing that a second could break.
Lost(touched) == IF Does("fail") /\ ~alarm THEN SUBSET touched ELSE {{}}

\* Mutant: a record is written once and never replaced.
StoredOnce(touched, held) ==
  {r \in lockStore : r.id \notin touched}
    \cup {r \in held : r.id \in touched /\ r.id \notin {q.id : q \in lockStore}}
    \cup {r \in lockStore : r.id \in {h.id : h \in held}}

Stored(touched, held) ==
  {r \in lockStore : r.id \notin touched} \cup {r \in held : r.id \in touched}

\* The best-effort PutLock and DeleteLock calls of one mutation.
Persist(touched) ==
  \E lost \in Lost(touched) :
    /\ lockStore' = Stored(touched \ lost, Held')
    /\ alarm' = (alarm \/ lost # {})

-----------------------------------------------------------------------------
(* SMB operations.                                                         *)

Request(o, r, x) == [id |-> FreshID(1), owner |-> o, off |-> r.off, len |-> r.len,
                     ex |-> x]

SmbGrantable(new) ==
  /\ \A e \in locks : ~IsLockConflicting(e, new)
  /\ \A u \in unifiedLocks : ~fileLockConflictsWithUnified(new, u)

Lock(o, r, x) ==
  LET new == Request(o, r, x) IN
  /\ HasFresh(1)
  /\ SmbGrantable(new)
  /\ locks' = locks \cup {new}
  /\ unifiedLocks' = unifiedLocks
  /\ Persist({new.id})

Unlock(o, r) ==
  \E l \in locks :
    /\ l.owner = o /\ l.off = r.off /\ l.len = r.len
    /\ locks' = locks \ {l}
    /\ unifiedLocks' = unifiedLocks
    /\ Persist({l.id})

UnlockAllForOpen(o) ==
  /\ locks' = {l \in locks : l.owner # o}
  /\ locks' # locks
  /\ unifiedLocks' = unifiedLocks
  /\ Persist({l.id : l \in locks \ locks'})

-----------------------------------------------------------------------------
(* NLM and NFSv4 operations.                                               *)

\* Mutant: the SMB map is not consulted.
UniGrantableOneMap(new) == \A u \in unifiedLocks : ~ConflictsWith(new, u)

UniGrantable(new) ==
  /\ \A u \in unifiedLocks : ~ConflictsWith(new, u)
  /\ \A fl \in locks : ~fileLockConflictsWithUnified(fl, new)

SameRange(l, new) == l.owner = new.owner /\ l.off = new.off /\ l.len = new.len

\* A lock of the same owner and range is retyped in place and keeps its id.
AddUnifiedLock(o, r, x) ==
  LET new == Request(o, r, x) IN
  /\ HasFresh(1)
  /\ UniGrantable(new)
  /\ locks' = locks
  /\ \/ \E l \in unifiedLocks :
          /\ SameRange(l, new)
          /\ unifiedLocks' = (unifiedLocks \ {l}) \cup {[l EXCEPT !.ex = x]}
          /\ Persist({l.id})
     \/ /\ \A l \in unifiedLocks : ~SameRange(l, new)
        /\ unifiedLocks' = unifiedLocks \cup {new}
        /\ Persist({new.id})

\* The end of an unlock range: clamped when it is unbounded or wraps.
unlockEnd(r) ==
  IF r.len = 0 \/ r.off + r.len > Top THEN Top ELSE r.off + r.len

lockEnd(l) == rangeEnd(l.off, l.len)

\* What SplitLock leaves of l: the part before the range and the part after.
SplitSides(l, r) ==
  IF r.off <= l.off /\ unlockEnd(r) >= lockEnd(l) THEN {}
  ELSE (IF r.off > l.off THEN {"before"} ELSE {})
         \cup (IF unlockEnd(r) < lockEnd(l) THEN {"after"} ELSE {})

\* Mutant: the part after the unlocked range starts one byte late.
FragmentLate(l, r, side) ==
  IF side = "before" THEN [l EXCEPT !.len = r.off - l.off]
  ELSE [l EXCEPT !.off = unlockEnd(r) + 1,
                 !.len = IF l.len = 0 THEN 0 ELSE lockEnd(l) - unlockEnd(r) - 1]

Fragment(l, r, side) ==
  IF side = "before" THEN [l EXCEPT !.len = r.off - l.off]
  ELSE [l EXCEPT !.off = unlockEnd(r),
                 !.len = IF l.len = 0 THEN 0 ELSE lockEnd(l) - unlockEnd(r)]

Overlapped(o, r) ==
  {l \in unifiedLocks : l.owner = o /\ RangesOverlap(l.off, l.len, r.off, r.len)}

Pieces(o, r) ==
  UNION {{<<l, side>> : side \in SplitSides(l, r)} : l \in Overlapped(o, r)}

\* Each fragment is a lock of its own, with an id of its own.
PieceRank(p) == 2 * p[1].id + (IF p[2] = "after" THEN 1 ELSE 0)
PieceID(p, pieces) ==
  FreshID(Cardinality({q \in pieces : PieceRank(q) <= PieceRank(p)}))
Fragments(o, r) ==
  LET pieces == Pieces(o, r) IN
  {[Fragment(p[1], r, p[2]) EXCEPT !.id = PieceID(p, pieces)] : p \in pieces}

RemoveUnifiedLock(o, r) ==
  LET gone == Overlapped(o, r) IN
  /\ gone # {}
  /\ HasFresh(Cardinality(Pieces(o, r)))
  /\ locks' = locks
  /\ unifiedLocks' = (unifiedLocks \ gone) \cup Fragments(o, r)
  /\ Persist({l.id : l \in gone \cup Fragments(o, r)})

ReleaseByOwnerPrefix(c) ==
  /\ locks' = locks
  /\ unifiedLocks' = {l \in unifiedLocks : ClientOf[l.owner] # c}
  /\ Persist({l.id : l \in unifiedLocks \ unifiedLocks'})

\* Only the unified map is scanned, while the store drops every record of the
\* client; the one bulk delete fails or succeeds as a whole.
RemoveClientLocks(c) ==
  /\ locks' = locks
  /\ unifiedLocks' = {l \in unifiedLocks : ClientOf[l.owner] # c}
  /\ \/ /\ lockStore' = {l \in lockStore : ClientOf[l.owner] # c}
        /\ alarm' = alarm
     \/ /\ Does("fail")
        /\ lockStore' = lockStore
        /\ alarm' = TRUE

-----------------------------------------------------------------------------
(* Restart: RestoreLocks routes each record to its map, with no conflict   *)
(* check.                                                                  *)

\* Mutant: the unified locks are left out of the restore.
RestoreLocksSmbOnly(records) ==
  /\ locks' = {l \in records : l.owner \in Opens}
  /\ unifiedLocks' = {} /\ lockStore' = records

RestoreLocks(records) ==
  /\ locks' = {l \in records : l.owner \in Opens}
  /\ unifiedLocks' = {l \in records : l.owner \in Owners}
  /\ lockStore' = records

Restart == RestoreLocks(lockStore) /\ alarm' = alarm

\* The server dies inside RemoveUnifiedLock: the original records are deleted
\* first, and any number of the fragments may have been written.
CrashInRemove(o, r) ==
  /\ HasFresh(Cardinality(Pieces(o, r)))
  /\ Overlapped(o, r) # {}
  /\ \E written \in SUBSET Fragments(o, r) :
       RestoreLocks({l \in lockStore : l.id \notin {g.id : g \in Overlapped(o, r)}}
                      \cup written)
  /\ alarm' = alarm

-----------------------------------------------------------------------------

LockInit ==
  /\ work \in Workloads
  /\ locks = {} /\ unifiedLocks = {} /\ lockStore = {}
  /\ alarm = FALSE

\* Calls on behalf of the given unified owners.
LockNext(callers) ==
  /\ UNCHANGED work
  /\ \/ /\ Does("smb")
        /\ \/ \E o \in Opens, r \in SmbRanges :
                (\E x \in BOOLEAN : Lock(o, r, x)) \/ Unlock(o, r)
           \/ \E o \in Opens : UnlockAllForOpen(o)
     \/ /\ Does("unified")
        /\ \E o \in callers, r \in UniRanges :
             (\E x \in BOOLEAN : AddUnifiedLock(o, r, x)) \/ RemoveUnifiedLock(o, r)
     \/ /\ Does("release")
        /\ \E o \in callers : ReleaseByOwnerPrefix(ClientOf[o])
     \/ /\ Does("sweep")
        /\ \E o \in Opens \cup callers : RemoveClientLocks(ClientOf[o])
     \/ /\ Does("restart")
        /\ \/ Restart
           \/ \E o \in callers, r \in UniRanges : CrashInRemove(o, r)

LockSpec == LockInit /\ [][LockNext(Owners)]_<<lockVars, work>>

-----------------------------------------------------------------------------
(* Properties.                                                             *)

LockTypeOK ==
  /\ locks \subseteq {l \in LockRecord : l.owner \in Opens}
  /\ unifiedLocks \subseteq {l \in LockRecord : l.owner \in Owners}
  /\ lockStore \subseteq LockRecord
  /\ alarm \in BOOLEAN

\* The bytes a lock covers.  A range that runs past the last byte covers the
\* rest of the file, as SplitLock's comment says of an unlock range.
Bytes(l) ==
  IF IsZeroByte(l) THEN {}
  ELSE IF l.len = 0 \/ l.off + l.len - 1 > Top THEN l.off..Top
       ELSE l.off..(l.off + l.len - 1)

\* No byte is held by an exclusive lock of one owner and by any lock of
\* another, whatever the two protocols, across unlocks that split a lock and
\* across restarts that reload the persisted records unchecked -- as long as
\* no store call has failed.
Exclusive ==
  ~alarm => \A a, b \in Held :
              a.owner # b.owner /\ Bytes(a) \cap Bytes(b) # {} => ~a.ex /\ ~b.ex

\* The table implements ByteLocks: seen byte by byte, an operation of one
\* protocol changes the holdings of its own owner only, an unlock that splits a
\* lock keeps every byte outside its range, and RestoreLocks brings back no byte
\* that was not held.
Holds == UNION {{<<l.owner, b, l.ex>> : b \in Bytes(l)} : l \in Held}

Abstract == INSTANCE ByteLocks
              WITH Principals <- Opens \cup Owners, holds <- Holds, degraded <- alarm

ByteSpec == Abstract!Spec

\* The persisted records are the locks held, one record each: a stacked SMB
\* lock, each fragment of a split lock and a retyped lock have a record of
\* their own, so a restart brings back exactly what was held.  The one
\* exception is the sweep at the end of grace, which deletes the records of an
\* SMB client and leaves its locks in the table.
Recorded ==
  ~alarm => /\ lockStore \subseteq Held
            /\ unifiedLocks \subseteq lockStore
            /\ locks \subseteq lockStore \/ Does("sweep") \/ Does("reboot")
            /\ \A a, b \in Held : a.id = b.id => a = b
=============================================================================
