----------------------------- MODULE MC_Blocks ------------------------------
(* The life of the chunks that the journal uploads.                          *)
EXTENDS BlockLifecycle

\* Distinct contents: the three background passes, each against overwrites, unlinks,
\* failures and a crash, and snapshots against the sweep.
CollectorLoads ==
    {{"write", "gc", "compact", "crash", "fail"},
     {"write", "unlink", "gc"},
     {"write", "unlink", "reconcile", "crash"},
     {"write", "gc", "compact", "reconcile", "fail"},
     {"write", "snapshot", "gc", "crash"}}

\* Files may share content.
SharedContent == {{"write", "dup"}}

\* The records of the blocks agree with the locators: a record's LiveChunkCount covers
\* the chunks whose locator names the block.
BlocksWellFormed == LifecycleTypeOK /\ CountCovers
=============================================================================
