SPECIFICATION Spec
CONSTANTS
    Watches = {v}
    Events = {a}
    Workers = {p, q}
    MaxAttempts = 2
    MaxInstants = 3
    Answers <- PlainAnswers
    NoJob = NoJob
    NoObservation = NoObservation
INVARIANTS
    TimelineMatchesEvidence
