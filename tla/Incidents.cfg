SPECIFICATION AllSpec
CONSTANTS
    w1 = w1
    w2 = w2
    v1 = v1
    v2 = v2
    c1 = c1
    c2 = c2
    r1 = r1
    r2 = r2
    r3 = r3
    event = event
    A = A
    B = B
    NoJob = NoJob
    NoObservation = NoObservation
    None = None
    Watches = {v1}
    Events = {event}
    Workers = {w1, w2}
    MaxAttempts = 2
    MaxInstants = 3
    Answers <- MCAnswers
    Scans = {v1, v2}
    Users = {c1, c2}
    Works = 1
    MaxRequests = 2
    MaxMishaps = 2
    Originals = {v1}
    Assessments = {r1, r2, r3}
    Browsers = {c1, c2}
    MaxTasks = 2
    MaxFailures = 1
    MaxFaults = 2
    Jobs = {1, 2, 3, 4, 5}
    Class <- MCClass
    From <- MCFrom
    Sources = {A, B}
    Before <- MCBefore
    Budget = 4
    MaxClaims = 12
    Count = 2
    Lifetime = 1
    MaxRecords = 4
    LastDay = 2
    NoIdentity = NoIdentity
    Incidents = {1, 2}
    HazardOf <- MCHazardOf
    Queries <- MCQueries
    Shown <- MCShown
    KeyOf <- MCKeyOf
    Historical <- MCHistorical
    Readers = {c1}
    PageSize = 1
    MaxKeys = 1
    FreshFor = 1
    CursorLife = 2
    CacheLife = 3
    LastTick = 3
    MaxRevision = 2
    Unset = Unset
SYMMETRY WorkerSymmetry
CHECK_DEADLOCK FALSE
INVARIANTS
    TypesOK
    TimelineIsTrue
    DeletedLeavesNothing
    SuccessMovesWatchOn
    ScansAreOwed
    AssessmentsAreSound
    LinksResolve
    WalksAreComplete
    NoChangeIsMissed
PROPERTIES
    RotationIsFair
