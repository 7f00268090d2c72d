SPECIFICATION CollectionSpec
CONSTANTS
    Scans = {v1, v2}
    Users = {c1}
    Works = 1
    MaxRequests = 2
    MaxMishaps = 2
CHECK_DEADLOCK FALSE
INVARIANTS
    NoScanIsStranded
