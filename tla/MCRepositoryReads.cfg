SPECIFICATION Spec
CONSTANTS
    r1 = r1
    r2 = r2
    r3 = r3
    b1 = b1
    b2 = b2
    Request = {r1, r2}
    Retries = 2
    Timeout = 1
    Slack = 1
    MinDelay = 1
    MaxDelay = 2
    Step = 1
    MaxBusyWait = 3
    RetryAfter = {0, 3, 4}
    Reader = {r1, r2, r3}
    Bytes = {b1, b2}
    Settings <- ModelCases
    HeldMax = 1
    MaxGeneration = 1
    None = None
    Task = {r1, r2, r3}
    Blob = {b1, b2}
    Plans <- ArtifactPlans
    NoBlob = NoBlob
INVARIANTS ModelReadsSound FetchesSound DownloadsShared
PROPERTIES RetryRuleKept DropOnlyDamaged ReadsEnd
