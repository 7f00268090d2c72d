SPECIFICATION Spec
CONSTANTS
    Targets = {t}
    Default = t
    Commands = {"prepare"}
    Clients = {c}
    Workers = {p}
    Mortal = {}
    MaxAttempts = 2
    MaxVersion = 1
    NoJob = NoJob
INVARIANTS
    QueuedHasPreparationAhead
CHECK_DEADLOCK FALSE
