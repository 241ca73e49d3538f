----------------------------- MODULE MC_Journal -----------------------------
(* A shard of the local journal, and the rebuilding of its index.  A run     *)
(* explores its workloads side by side.                                      *)
EXTENDS Journal, IndexReplay

\* The local tier as a cache of the remote, with and without removals.
CacheLoads == {{"journal", "write", "carve", "evict", "hydrate"},
               {"journal", "write", "delete", "truncate", "carve", "evict"}}

\* Repacking against everything that moves intervals, against crashes, and under a
\* pin; crashes during removals and during carve.
RecoveryLoads == {{"journal", "write", "truncate", "carve", "repack", "fsyncfail"},
                  {"journal", "write", "commit", "truncate", "repack", "crash"},
                  {"journal", "write", "delete", "repack", "pin"},
                  {"journal", "write", "commit", "delete", "truncate", "crash"},
                  {"journal", "write", "commit", "carve", "crash"}}

AllLoads == CacheLoads \cup RecoveryLoads \cup {{"replay"}}
RepackThenEvict == {{"journal", "write", "repack", "evict"}}
EvictThenCrash == {{"journal", "write", "commit", "carve", "evict", "crash"}}

Versions == [w \in Workloads |->
               IF "hydrate" \in w THEN 4 ELSE IF w \in EvictThenCrash THEN 1 ELSE 3]

MCVars == <<vars, replayVars>>

MCInit == Init /\ ReplayInit

MCNext ==
    /\ \/ Does("journal") /\ Next /\ UNCHANGED replayVars
       \/ Does("replay") /\ ReplayNext /\ UNCHANGED vars
    /\ UNCHANGED work

MCSpec == MCInit /\ [][MCNext]_MCVars

\* The redundant state of the journal agrees with what it is derived from: every interval
\* of the index lies in a record of an attached segment, a sealed segment has records, and
\* the dirty-byte counter behind backpressure equals the dirty bytes indexed; a file's
\* intervals never overlap, and an interval that straddled an overwrite is dirty.
JournalWellFormed ==
    /\ TypeOK /\ Located /\ SealedHasRecords /\ UnsyncedAccounting
    /\ ReplayTypeOK /\ Disjoint /\ StraddlersAreDirty
=============================================================================
