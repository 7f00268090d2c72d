SPECIFICATION Spec
CONSTANTS
    Watches = {v}
    Events = {a}
    Workers = {p}
    MaxAttempts = 2
    MaxInstants = 3
    Answers <- AllAnswers
    NoJob = NoJob
    NoObservation = NoObservation
INVARIANTS
    EnabledWatchHasRefreshAhead
