SPECIFICATION FairSpec
CONSTANTS
    home = home
    child = child
    clip = clip
    Page = {home, child}
    seed_url = home
    Links <- MCLinks
    Audio = {}
    assign_worker <- MCDark
    Group = {"dark"}
    Host <- MCHost
    NoHost = "no host"
    Segment <- MCSegment
    Param <- MCParam
    registrable_domain <- MCDomain
    host_finds <- MCHostFinds
    finds <- MCFinds
    canonical <- MCCanonical
    JUNK_PARAMS <- MCJunk
    MAX_PATH_SEGMENTS = 12
    MAX_SEGMENT_REPEAT = 4
    MAX_QUERY_PARAMS = 3
    MaxTasks = 12
    max_depth = 1
    Faults = {"raise", "send", "crash", "pause", "timeout", "lag", "ambiguous", "retry"}
    MaxFaults = 1
PROPERTY FinishedIsFinal
PROPERTY NeverStuck
CHECK_DEADLOCK FALSE
