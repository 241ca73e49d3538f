-------------------------- MODULE MC_GroupCommit --------------------------
(* Instances of GroupCommit for TLC: three concurrent Commits on one shard   *)
(* whose segments hold so few records that rotation races with them.         *)
EXTENDS GroupCommit

CONSTANTS c1, c2, c3

MCCommits == {c1, c2, c3}
=============================================================================
