\* A failed fsync may leave its pages clean and lost.
SPECIFICATION Spec
CONSTANTS
    c1 = c1
    c2 = c2
    c3 = c3
    Commits <- MCCommits
    SegmentRecords = 3
    FsyncFails = TRUE
    DropsOnError = TRUE
INVARIANT CommitDurable
