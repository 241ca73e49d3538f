SPECIFICATION MCSpec
CONSTANTS
    c1 = c1
    c2 = c2
    c3 = c3
    Workloads <- MCWorkloads
    Holders = {"c1", "c2"}
    DelegFiles = {"f"}
    MaxDelegs = 2
    MaxDelegations = 2
    Conns = {"k1", "k2"}
    BackSessions = {"s1", "s2"}
    Requests = {"t1", "t2"}
    MaxConns = 1
    MaxQueue = 1
    MaxAttempts = 2
    MaxPending = 2
    Commits <- MCCommits
    SegmentRecords = 2
    FsyncFails = TRUE
    DropsOnError = FALSE
INVARIANTS
    CallbacksWellFormed OneGrantee BindingsAgree NoOrphanSender
    CommitDurable FailureIsSticky
PROPERTIES  SessionsSettle EveryCommitReturns
\* Delegations and connections are bounded and run out; Commits return.
CHECK_DEADLOCK FALSE
