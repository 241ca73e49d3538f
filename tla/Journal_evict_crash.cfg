SPECIFICATION MCSpec
CONSTANTS
    Workloads <- EvictThenCrash
    Files = {"a"}
    FileSize = 1
    SegmentRecords = 1
    MaxVersion <- Versions
    MaxSegments = 6
    MaxCrashes = 1
    ReplaySize = 1
    ReplayVersions = 1
PROPERTIES AckedSurvives
CHECK_DEADLOCK FALSE
