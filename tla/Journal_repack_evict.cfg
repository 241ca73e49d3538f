SPECIFICATION MCSpec
CONSTANTS
    Workloads <- RepackThenEvict
    Files = {"a"}
    FileSize = 2
    SegmentRecords = 2
    MaxVersion <- Versions
    MaxSegments = 6
    MaxCrashes = 0
    ReplaySize = 1
    ReplayVersions = 1
INVARIANT NoDirtyLoss
CHECK_DEADLOCK FALSE
