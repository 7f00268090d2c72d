SPECIFICATION SnapshotsSpec
CONSTANTS
    Incidents = {1, 2}
    HazardOf <- MCHazardOf
    Queries <- MCQueries
    Shown <- MCShown
    KeyOf <- MCKeyOf
    Historical <- MCHistorical
    Readers = {r}
    PageSize = 2
    MaxKeys = 1
    FreshFor = 1
    CursorLife = 2
    CacheLife = 3
    LastTick = 4
    MaxRevision = 1
    Unset = Unset
CHECK_DEADLOCK FALSE
INVARIANTS
    RecencyIsCarriedForward
