SPECIFICATION Spec
CONSTANTS
    Targets = {t}
    Default = t
    Commands = {"prepare", "cancel", "refresh", "select", "watch"}
    Clients = {c}
    Workers = {p, q}
    Mortal = {p, q, c}
    MaxAttempts = 2
    MaxVersion = 2
    NoJob = NoJob
SYMMETRY WorkerSymmetry
INVARIANTS
    TypeOK
    FailureIsGrounded
PROPERTIES
    VersionNeverGoesBack
    ObsoleteJobsStayOut
