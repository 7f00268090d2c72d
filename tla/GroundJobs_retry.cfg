SPECIFICATION Spec
CONSTANTS
    Requests = {r}
    Targets = {t}
    Workers = {p}
    Clients = {c}
    MaxAttempts = 2
    MaxPending = 1
    Lease = 2
    MaxRetryDelay = 1
    QuotaDelays = {}
    MaxTime = 3
    NoJob = NoJob
    NoWorker = NoWorker
    NoInstant = NoInstant
INVARIANTS
    RetriesKnowTheirTarget
