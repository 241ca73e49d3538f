------------------------ MODULE BlockLifecycleProofs ------------------------
(***************************************************************************)
(* Theorems about BlockLifecycle, for any numbers of files, slots, contents, *)
(* blocks, grace periods and crashes:                                      *)
(*   - SnapshotStaysOnRemote: the chunks of a verified snapshot stay;      *)
(*   - RowsStayBacked, EvictableStaysRecoverable, CountsCoverLinked: when  *)
(*     files have contents of their own, a manifest row of a linked file   *)
(*     always resolves, what the journal may evict can be read back, and   *)
(*     the counts of the block records cover the chunks in use.            *)
(* All are about reconcile passes shorter than a grace period (Timely).    *)
(***************************************************************************)
EXTENDS BlockRemoteProofs, FiniteSetTheorems

\* Zenon proves the steps that name no other prover.
USE ZenonT(20)

\* The sets of chunks and of slots are finite, so their sizes are numbers.
LEMMA SizesHold == Sizes
  <1>1. /\ IsFiniteSet(Slots) /\ Slots # {}
        /\ IsFiniteSet(Hashes)
    BY LifecycleConstants, FS_Interval, SMTT(20) DEF Hashes
  <1>2. Cardinality(Slots) \in Nat /\ 1 <= Cardinality(Slots)
    BY <1>1, FS_CardinalityType, FS_EmptySet, SMTT(20)
  <1>3. ASSUME NEW T \in SUBSET Hashes
        PROVE  /\ Cardinality(T) \in Nat /\ (Cardinality(T) = 0 <=> T = {})
               /\ \A S \in SUBSET T : Cardinality(S) <= Cardinality(T)
               /\ \A x \in T : Cardinality(T \ {x}) = Cardinality(T) - 1
    BY <1>1, FS_Subset, FS_CardinalityType, FS_EmptySet, FS_RemoveElement
  <1>4. ASSUME NEW S \in SUBSET Slots
        PROVE  /\ Cardinality(S) \in 0..Cardinality(Slots) /\ (Cardinality(S) = 0 <=> S = {})
               /\ \A f \in [S -> Hashes] : Cardinality({f[s] : s \in S}) <= Cardinality(S)
    <2>1. IsFiniteSet(S) /\ Cardinality(S) <= Cardinality(Slots)
      BY <1>1, FS_Subset
    <2>2. ASSUME NEW f \in [S -> Hashes]
          PROVE  Cardinality({f[s] : s \in S}) <= Cardinality(S)
      <3>1. f \in Surjection(S, {f[s] : s \in S})
        BY DEF Surjection
      <3> QED
        BY <2>1, <3>1, FS_Surjection
    <2> QED
      BY <1>2, <2>1, <2>2, FS_CardinalityType, FS_EmptySet, SMTT(20)
  <1> QED
    BY <1>2, <1>3, <1>4 DEF Sizes

\* The invariant of the chunk lifecycle, over every action of every pass.
THEOREM LifecycleInvariant == LifecycleSpec => []LifecycleInv
  <1>1. LifecycleInit => LifecycleInv
    BY SizesHold, RemoteInit, FilesInit DEF LifecycleInv
  <1>2. LifecycleInv /\ [LifecycleNext /\ UNCHANGED work]_<<lifecycleVars, work>> => LifecycleInv'
    BY SizesHold, RemoteStep, RemoteStutter, FilesStep, FilesStutter
    DEF Timely, Distinct, Does, LifecycleInv
  <1> QED
    BY <1>1, <1>2, PTL DEF LifecycleSpec

\* The hold of a snapshot works: whatever is written, unlinked, swept, compacted, reclaimed and
\* interrupted meanwhile, every chunk of a verified snapshot whose manifest was written with no
\* collection under way stays on the remote until the snapshot is deleted.
THEOREM SnapshotStaysOnRemote == LifecycleSpec => [](Timely => SnapshotKept)
  <1>1. LifecycleInv => (Timely => SnapshotKept)
    BY DEF LifecycleInv, RemoteInv
  <1> QED
    BY <1>1, LifecycleInvariant, PTL

\* The collectors never take away what a linked file needs: a manifest row always resolves.
THEOREM RowsStayBacked == LifecycleSpec => [](Timely /\ Distinct => RowsBacked)
  <1>1. LifecycleInv => (Timely /\ Distinct => RowsBacked)
    BY DEF LifecycleInv, FilesInv
  <1> QED
    BY <1>1, LifecycleInvariant, PTL

\* What the journal may evict can be read back from the remote, whatever was overwritten while
\* the carver worked.
THEOREM EvictableStaysRecoverable ==
    LifecycleSpec => [](Timely /\ Distinct => SyncedRecoverable)
  <1>1. LifecycleInv => (Timely /\ Distinct => SyncedRecoverable)
    BY DEF LifecycleInv, FilesInv
  <1> QED
    BY <1>1, LifecycleInvariant, PTL

\* LiveChunkCount of a block record never falls below the chunks that linked files have in the
\* block, across crashes and failed calls; and the stores keep their types.
THEOREM CountsCoverLinked ==
    LifecycleSpec => [](Timely /\ Distinct => LifecycleTypeOK /\ CountCovers)
  <1>1. RemoteInv /\ FilesInv => LifecycleTypeOK /\ CountCovers
    <2>1. SUFFICES ASSUME RemoteInv, FilesInv, NEW b \in Recorded
                   PROVE  liveCount[b] >= Cardinality(LiveIn(b) \cap LinkedHashes)
      BY DEF CountCovers, RemoteInv, CoreInv
    <2> DEFINE linked == LiveIn(b) \cap LinkedHashes
    <2>2. liveCount[b] \in Nat /\ Covered(b)
      BY <2>1, SizesHold, Constants, SMTT(20)
      DEF RemoteInv, CoreInv, LifecycleTypeOK, Recorded, Counts
    <2>3. CASE linked = {}
      BY <2>2, <2>3, FS_EmptySet, SMTT(20)
    <2>4. CASE linked # {}
      BY <2>1, <2>2, <2>4, SizesHold, Constants, LiveFinite, SubsetSmaller, SMTT(20)
      DEF LinkedHashes, LiveIn, At, Recorded, FilesInv, Spared, Covered, linked
    <2> QED
      BY <2>3, <2>4
  <1>2. LifecycleInv => (Timely /\ Distinct => LifecycleTypeOK /\ CountCovers)
    BY <1>1 DEF LifecycleInv
  <1> QED
    BY <1>2, LifecycleInvariant, PTL
=============================================================================
