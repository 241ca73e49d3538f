SPECIFICATION LifecycleSpec
CONSTANTS
    Workloads <- CollectorLoads
    Payloads = {"a"}
    Slots = {1, 2}
    MaxHashes = 3
    MaxBlocks = 3
    MaxNow = 1
    MaxRestarts = 1
INVARIANTS BlocksWellFormed RowsBacked SyncedRecoverable SnapshotKept
\* Blocks and hashes are bounded and run out.
CHECK_DEADLOCK FALSE
