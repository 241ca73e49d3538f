SPECIFICATION LifecycleSpec
CONSTANTS
    Workloads <- SharedContent
    Payloads = {"a", "b"}
    Slots = {1}
    MaxHashes = 2
    MaxBlocks = 3
    MaxNow = 0
    MaxRestarts = 0
INVARIANT SyncedRecoverable
CHECK_DEADLOCK FALSE
