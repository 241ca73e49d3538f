SPECIFICATION MCSpec
CONSTANTS
    Workloads <- MCWorkloads
    Sessions = {s1, s2}
    Slots = {0}
    Threads = {t1, t2}
    Digests = {"open", "close"}
    Cacheable = {"open"}
    MaxSeqID = 2
    V41Owners = {o1}
    Verifiers = {va, vb}
    MaxClientIDs = 2
    MaxSessionsPerClient = 1
    Names = {"n1", "n2"}
    Files = {f1, f2}
    MaxRecords = 4
    MaxBoot = 2
    LeaseTicks = 2
    OpenOwners = {"o1", "o2", "o3"}
    LockOwners = {"l1", "l2", "l3"}
    OwnerClient <- MCClient
    OpenFiles = {"f"}
    MaxOwners = 2
    MaxOpens = 2
    MaxLockStates = 2
    MaxSeqid = 3
    Starts = {2}
SYMMETRY MCSymmetry
INVARIANTS
     ExactlyOnce TruthfulReply CreateOnce  RepliesCurrent
PROPERTIES ConfirmsLatest  
\* Client ids, records, owners and seqids are bounded and run out.
CHECK_DEADLOCK FALSE
