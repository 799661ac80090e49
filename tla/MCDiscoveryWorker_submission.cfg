SPECIFICATION Spec
CONSTANTS
    c1 = c1
    c2 = c2
    site = site
    topic = topic
    Call = {c1, c2}
    Url = {site}
    Query = {topic}
    Faults = {"kafka", "send", "ambiguous", "database", "crash", "pause", "timeout"}
    MaxFaults = 2
    MaxJobs = 2
    MaxSeeds = 1
INVARIANT RunningWasSent
INVARIANT RefusedUnblocks
INVARIANT RetryIsFresh
INVARIANT DuplicateSuppressed
PROPERTY LedgerSpec
SYMMETRY CallSymmetry
CHECK_DEADLOCK FALSE
