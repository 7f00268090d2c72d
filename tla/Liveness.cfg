SPECIFICATION AllSpec
CONSTANTS
    Requests = {r}
    Targets = {t, u}
    Workers = {p}
    Clients = {c}
    MaxAttempts = 2
    MaxPending = 2
    Lease = 1
    MaxRetryDelay = 1
    QuotaDelays = {}
    MaxTime = 1
    NoJob = NoJob
    NoWorker = NoWorker
    NoInstant = NoInstant
    early = early
    late = late
    w1 = w1
    v1 = v1
    v2 = v2
    r1 = r1
    r2 = r2
    None = None
CHECK_DEADLOCK FALSE
PROPERTIES
    EveryJobEnds
    EveryScanEnds
    EveryAssessmentEnds
