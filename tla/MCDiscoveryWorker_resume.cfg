SPECIFICATION Spec
CONSTANTS
    c1 = c1
    c2 = c2
    site = site
    topic = topic
    Call = {c1, c2}
    Url = {site}
    Query = {topic}
    Faults = {"pause"}
    MaxFaults = 1
    MaxJobs = 1
    MaxSeeds = 2
PROPERTY ResumeContinues
CHECK_DEADLOCK FALSE
