SPECIFICATION PipelineFair
CONSTANTS
    page = page
    mirror = mirror
    j1 = j1
    u1 = u1
    u2 = u2
    s1 = s1
    s2 = s2
    text = text
    misread = misread
    None = None
    Item = {page, mirror}
    Job = {j1}
    Url = {u1, u2}
    Site = {s1, s2}
    Content = {text, misread}
    job <- MCJob
    url <- MCUrl
    site <- MCSite
    Sorted <- MCSorted
    crawled <- MCCrawled
    extracted <- MCExtracted
    Deep = {mirror}
    Distance <- MCDistance
    DEDUP_SIMHASH_THRESHOLD = 1
    Faults = {"redeliver", "lose", "crash", "fingerprint"}
    MaxFaults = 1
    MaxStale = 1
    export_batch_size = 2
    ExporterFaults = {"sink", "export", "stop", "kill"}
    MaxExporterFaults = 1
    MaxRequests = 1
    MaxEvents = 1
CHECK_DEADLOCK FALSE
INVARIANT DropsAccounted
INVARIANT BatchAccounted
INVARIANT CompletedIsWhole
PROPERTY CopyDropped
PROPERTY EventuallyExported
