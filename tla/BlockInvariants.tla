--------------------------- MODULE BlockInvariants ---------------------------
(***************************************************************************)
(* The inductive invariant of BlockLifecycle, in two layers.               *)
(*                                                                         *)
(* RemoteInv is about blocks alone: which locators name a block, what its  *)
(* record counts, and what each running pass may assume of the blocks it   *)
(* holds.  FilesInv is about the files that use them: a content belongs to *)
(* one slot, and one that a sweep has condemned is not, and will never     *)
(* again be, the content of a linked file.                                 *)
(***************************************************************************)
EXTENDS BlockLifecycle

core == <<loc, syncedAt, liveCount, object, putAt, minted>>

Carving == upload.pc # "idle"
SweepPcs == {"unmark", "decr", "delete", "drop", "lastunmark", "clear"}
CompactPcs == {"newput", "newcommit", "olddelete", "olddrop"}

-----------------------------------------------------------------------------
(* What the passes hold, by where they are *)

UploadShape ==
    /\ upload.pc \in {"idle", "dedup", "put", "commit", "flip"}
    /\ Carving => /\ upload.file \in Payloads
                  /\ DOMAIN upload.run \subseteq Slots
                  /\ \A s \in DOMAIN upload.run : upload.run[s] \in Hashes
                  /\ upload.todo \subseteq DOMAIN upload.run
                  /\ upload.novel \subseteq DOMAIN upload.run
                  /\ upload.current \subseteq DOMAIN upload.run
    /\ upload.pc = "dedup" => upload.todo # {}
    /\ upload.pc \in {"put", "commit", "flip"} => upload.todo = {}
    /\ upload.pc \in {"put", "commit"} => upload.novel # {}

UnlinkShape ==
    /\ unlink.pc \in {"idle", "reap"}
    /\ unlink.pc = "reap" => unlink.file \in Payloads /\ unlink.todo \subseteq Slots

CollectShape ==
    /\ collect.pc \in {"idle", "hold", "sweep", "next", "compact"} \cup SweepPcs \cup CompactPcs
    /\ collect.pc \in {"hold", "sweep"} => collect.cutoff \in 0..now /\ collect.live \subseteq Hashes
    /\ collect.pc \in {"next"} \cup SweepPcs => collect.todo \subseteq Hashes
    /\ collect.pc \in SweepPcs => collect.h \in Hashes /\ collect.block \in Blocks
    /\ collect.pc \in {"compact"} \cup CompactPcs => collect.todo \subseteq Blocks
    /\ collect.pc \in CompactPcs => collect.old \in Blocks /\ collect.moved \subseteq Hashes

ReconShape ==
    /\ recon.pc \in {"idle", "walked", "live", "records", "recorddrop", "orphans"}
    /\ recon.pc \in {"live", "records", "recorddrop", "orphans"} => recon.todo \subseteq Blocks
    /\ recon.pc = "recorddrop" => recon.block \in Blocks \ recon.todo

SnapShape ==
    /\ snapshot.pc \in {"idle", "drained", "dumped", "manifest", "ready", "failed", "gone"}
    /\ snapshot.pc \in {"dumped", "manifest", "ready", "failed"} => snapshot.hashes \subseteq Hashes

\* What is local has content, and what the carver takes for current is local.
Filled ==
    /\ \A f \in Payloads, s \in Slots : local[f][s] # "none" => content[f][s] \in Hashes
    /\ Carving => \A s \in upload.current : local[upload.file][s] # "none"

-----------------------------------------------------------------------------
(* The blocks *)

\* Stamps lie in the past.
Stamped == /\ \A h \in Hashes : syncedAt[h] <= now
           /\ \A b \in Blocks : putAt[b] <= now

\* A block id is used once.
Unused(b) == object[b] = {} /\ liveCount[b] = NoRecord /\ LiveIn(b) = {}
Minting == \A b \in Blocks : b > minted => Unused(b)

\* LiveChunkCount covers the locators, save for the last one of a block.
Covered(b) == Cardinality(LiveIn(b)) <= liveCount[b] \/ Cardinality(LiveIn(b)) <= 1
Counts == \A b \in Recorded : Covered(b)

\* No locator names b for a chunk that b holds.
Spent(b) == \A h \in object[b] : loc[h] # b

\* A chunk that can be read is in a block with a record.
BackedRecorded == \A b \in Blocks : liveCount[b] = NoRecord => Spent(b)

CoreInv == LifecycleTypeOK /\ Stamped /\ Minting /\ Counts /\ BackedRecorded

-----------------------------------------------------------------------------
(* The passes *)

\* A block whose upload is done and whose commit is to come.
Pending(b, hs) ==
    /\ b \in 1..minted /\ liveCount[b] = NoRecord /\ object[b] = hs /\ putAt[b] = now
    /\ LiveIn(b) = {}

CarveInv ==
    /\ upload.pc \in {"dedup", "put", "commit"} =>
         \A s \in upload.novel : loc[upload.run[s]] = None
    /\ upload.pc = "commit" => Pending(upload.block, Novel)

\* A chunk is unmarked and counted once: either its locator is gone before the
\* decrement, or it is the last of its block.
SweepInv ==
    /\ collect.pc \in {"unmark", "decr", "delete", "drop"} => collect.block \in Recorded
    /\ collect.pc = "unmark" => loc[collect.h] = collect.block /\ liveCount[collect.block] > 1
    /\ collect.pc = "decr" =>
         \/ /\ liveCount[collect.block] > 1
            /\ Cardinality(LiveIn(collect.block)) < liveCount[collect.block]
         \/ LiveIn(collect.block) \subseteq {collect.h} /\ liveCount[collect.block] <= 1
    /\ collect.pc \in {"delete", "drop"} => LiveIn(collect.block) \subseteq {collect.h}
    /\ collect.pc = "drop" => object[collect.block] = {}

\* What compaction moves is all that can be read of the old block.
CompactInv ==
    /\ collect.pc \in CompactPcs => collect.old \in Recorded
    /\ collect.pc \in {"newput", "newcommit"} =>
         /\ collect.moved = {h \in object[collect.old] : loc[h] = collect.old}
         /\ collect.moved # {}
    /\ collect.pc = "newcommit" => Pending(collect.block, collect.moved)
    /\ collect.pc = "olddelete" => Spent(collect.old)
    /\ collect.pc = "olddrop" => object[collect.old] = {}

\* Reconcile deletes no object with a chunk that can be read.
ReconInv ==
    /\ recon.pc \in {"walked", "live", "records", "recorddrop"} =>
         \A b \in Recorded : b \notin recon.known /\ object[b] # {} => putAt[b] = now
    /\ recon.pc \in {"live", "records", "recorddrop"} => recon.todo \subseteq Recorded
    /\ recon.pc \in {"records", "recorddrop"} => \A b \in recon.todo : LiveIn(b) = {}
    /\ recon.pc = "recorddrop" =>
         recon.block \in Recorded /\ LiveIn(recon.block) = {} /\ object[recon.block] = {}
    /\ recon.pc = "orphans" =>
         \A b \in recon.todo : b <= minted /\ putAt[b] < now /\ Spent(b)

\* The hashes that a running sweep takes for dead.
IsCondemned(h) ==
    \/ collect.pc \in {"next"} \cup SweepPcs /\ h \in collect.todo
    \/ collect.pc \in SweepPcs /\ h = collect.h

\* A manifest written while nothing was collected holds its hashes.
Holding ==
    HasManifest /\ snapshot.quiet =>
      \A h \in snapshot.hashes : /\ collect.pc = "sweep" => h \in collect.live
                                 /\ ~IsCondemned(h)

\* remoteGCLock excludes the two collectors of the remote, and no block is minted twice.
Apart ==
    /\ collect.pc # "idle" => recon.pc \in {"idle", "walked"}
    /\ upload.pc = "commit" /\ collect.pc = "newcommit" => upload.block # collect.block

\* Chunks on the remote: what holds whatever the files contain.
RemoteInv ==
    /\ CoreInv /\ Apart
    /\ UploadShape /\ CarveInv /\ UnlinkShape /\ Filled
    /\ CollectShape /\ SweepInv /\ CompactInv
    /\ ReconShape /\ ReconInv
    /\ SnapShape /\ Holding /\ SnapshotKept

-----------------------------------------------------------------------------
(* The files *)

\* h is, or is about to be, the content of slot s of file f.
At(h, f, s) ==
    \/ h = content[f][s] \/ h = rows[f][s]
    \/ Carving /\ upload.file = f /\ s \in DOMAIN upload.run /\ h = upload.run[s]

\* Contents are distinct: a hash belongs to one slot.
Owned ==
    /\ \A f, g \in Payloads, s, t \in Slots, h \in Hashes :
         At(h, f, s) /\ At(h, g, t) => f = g /\ s = t
    /\ \A f \in Payloads, s \in Slots, h \in Hashes : At(h, f, s) => h <= written
    /\ \A h \in Hashes : loc[h] # None \/ IsCondemned(h) => h <= written

\* Nothing of an unlinked file is local, and only its rows are reaped.
Unlinked ==
    /\ \A f \in deleted, s \in Slots : local[f][s] = "none"
    /\ unlink.pc = "reap" => unlink.file \in deleted

\* Of a linked file: a content with a locator has its manifest row.
Manifested ==
    \A f \in Payloads \ deleted, s \in Slots, h \in Hashes :
        At(h, f, s) /\ loc[h] # None => rows[f][s] = h

\* What the carver has in hand is current, or has been overwritten by something
\* that no pass has seen.
InHandCurrent ==
    Carving =>
      /\ \A s \in DOMAIN upload.run : local[upload.file][s] # "synced"
      /\ upload.file \in deleted => upload.current = {}
      /\ upload.file \notin deleted => \A s \in DOMAIN upload.run :
           /\ s \in upload.current => content[upload.file][s] = upload.run[s]
           /\ s \notin upload.current => /\ content[upload.file][s] \in Hashes
                                         /\ content[upload.file][s] # upload.run[s]
                                         /\ loc[content[upload.file][s]] = None
           /\ upload.pc = "flip" \/ s \notin upload.todo \cup upload.novel =>
                rows[upload.file][s] = upload.run[s]

\* No linked content is condemned, now or by the sweep to come, nor is it in a block
\* counted as empty.
Spared ==
    /\ collect.pc \in {"hold", "sweep"} =>
         \A f \in Payloads \ deleted, s \in Slots :
            rows[f][s] # None => \/ rows[f][s] \in collect.live
                                 \/ syncedAt[rows[f][s]] >= collect.cutoff
    /\ \A f \in Payloads \ deleted, s \in Slots, h \in Hashes :
         At(h, f, s) => /\ ~IsCondemned(h)
                        /\ loc[h] # None => liveCount[loc[h]] # 0

FilesInv ==
    /\ Owned /\ Unlinked /\ Manifested /\ InHandCurrent /\ Spared /\ RowsBacked
    /\ SyncedRecoverable

\* A reconcile pass takes less than a grace period, and no two slots share a content.
Timely == ~Does("slow")
Distinct == ~Does("dup")
LifecycleInv == (Timely => RemoteInv) /\ (Timely /\ Distinct => FilesInv)

\* No step takes away a chunk that no sweep has condemned.
KeepsBacked == \A h \in Hashes : Backed(h) /\ ~IsCondemned(h) => Backed(h)'

\* What the cardinalities below are: sets of chunks and of slots are finite.
Sizes ==
    /\ Cardinality(Slots) \in Nat /\ 1 <= Cardinality(Slots)
    /\ \A T \in SUBSET Hashes :
         /\ Cardinality(T) \in Nat /\ (Cardinality(T) = 0 <=> T = {})
         /\ \A S \in SUBSET T : Cardinality(S) <= Cardinality(T)
         /\ \A x \in T : Cardinality(T \ {x}) = Cardinality(T) - 1
    /\ \A S \in SUBSET Slots :
         /\ Cardinality(S) \in 0..Cardinality(Slots) /\ (Cardinality(S) = 0 <=> S = {})
         /\ \A f \in [S -> Hashes] : Cardinality({f[s] : s \in S}) <= Cardinality(S)
=============================================================================
