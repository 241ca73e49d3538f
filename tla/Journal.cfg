SPECIFICATION MCSpec
CONSTANTS
    Workloads <- AllLoads
    Files = {"a"}
    FileSize = 2
    SegmentRecords = 2
    MaxVersion <- Versions
    MaxSegments = 6
    MaxCrashes = 1
    ReplaySize = 4
    ReplayVersions = 3
INVARIANTS
    JournalWellFormed LiveView NoDirtyLoss SyncedWasCommitted NewestWins
PROPERTIES CommittedSurvives PinFreezes 
\* Versions and segments are bounded and run out.
CHECK_DEADLOCK FALSE
