SPECIFICATION AllSpec
CONSTANTS
    early = early
    late = late
    turn1 = turn1
    turn2 = turn2
    turn3 = turn3
    reportA = reportA
    reportB = reportB
    reportC = reportC
    pictureA = pictureA
    pictureB = pictureB
    Jobs = {early, late}
    Workers = {w1, w2}
    ScheduledAt <- MCScheduledAt
    MaxAttempts = 2
    Lease = 2
    MaxRetryDelay = 1
    MaxTime = 4
    NoJob = NoJob
    NoWorker = NoWorker
    Calls = {c1, c2, c3}
    Limits = {1, 2}
    MaxHour = 1
    Turns = {turn1, turn2, turn3}
    Creator = turn1
    Versions = {calm, storm}
    NoVersion = NoVersion
    Life = 1
    LastMoment = 2
    Reports = {reportA, reportB, reportC}
    Media = {pictureA, pictureB}
    Pictures <- MCPictures
    Batches <- MCBatches
    Reviewers = {reviewerA, reviewerB}
    Retention = 2
    MaxBytes = 2
    MaxReports = 2
    LastDay = 3
    MaxRevision = 3
SYMMETRY Symmetry
INVARIANTS
    TypeOK
    OneHolderPerFence
    RowsAreConsistent
    SuccessIsEarned
    LedgerBalances
    NeverOverspent
    ConversationIsSound
    FieldReportsAgree
PROPERTIES
    TerminalIsFinal
    LeaseRespected
    ImplementsAtLeastOnce
