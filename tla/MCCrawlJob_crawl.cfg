SPECIFICATION FairSpec
CONSTANTS
    home = home
    child = child
    clip = clip
    Page = {home, child, clip}
    seed_url = home
    Links <- MCLinks
    Audio = {clip}
    assign_worker <- MCDeep
    Group = {"deep", "transcribe"}
    Host <- MCHost
    NoHost = "no host"
    Segment <- MCSegment
    Param <- MCParam
    registrable_domain <- MCDomain
    host_finds <- MCHostFinds
    finds <- MCFinds
    canonical <- MCCanonical
    JUNK_PARAMS <- MCJunk
    MAX_PATH_SEGMENTS = 12
    MAX_SEGMENT_REPEAT = 4
    MAX_QUERY_PARAMS = 3
    MaxTasks = 12
    max_depth = 2
    Faults = {}
    MaxFaults = 0
INVARIANT ExactCounter
INVARIANT RunningHasWork
INVARIANT LinksFollowed
PROPERTY EventuallyFinished
CHECK_DEADLOCK FALSE
