SPECIFICATION FairAlertSpec
CONSTANTS
    Item = {i1}
    Process = {p1, p2}
    LLM_BATCH_SIZE = 2
    MAX_CONCURRENT_TASKS = 1
    LLM_QUEUE_MAX_ATTEMPTS = 3
    Severity = {3, 4, 5}
    ALERT_EMAILS_ENABLED = TRUE
    Faults = {"crash", "slow", "enqueue", "settle", "mark", "clickhouse", "alert", "mail"}
    MaxFaults = 2
INVARIANT OneHolder
INVARIANT NothingDropped
INVARIANT AttemptsBounded
INVARIANT FlaggedLanded
INVARIANT AlertMirrors
INVARIANT OwnerTold
PROPERTY ParkedStays
PROPERTY EventuallySettled
CHECK_DEADLOCK FALSE
