SPECIFICATION AllSpec
CONSTANTS
    v = v
    Requests = {r}
    Targets = {t, u, v}
    Workers = {p, q}
    Clients = {c, d}
    MaxAttempts = 2
    MaxPending = 2
    Lease = 2
    MaxRetryDelay = 1
    QuotaDelays = {}
    MaxTime = 3
    NoJob = NoJob
    NoWorker = NoWorker
    NoInstant = NoInstant
SYMMETRY Symmetry
INVARIANTS
    TypeOK
    OneHolderPerFence
    RowsAreConsistent
    PendingBounded
PROPERTIES
    LeaseRespected
    SettledIsFinal
