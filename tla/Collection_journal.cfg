SPECIFICATION MCSpec
CONSTANTS
    first = first
    second = second
    deep = deep
    later = later
    old = old
    new = new
    v1 = v1
    v2 = v2
    v3 = v3
    v4 = v4
    h1 = h1
    h2 = h2
    NoHolder = NoHolder
    Scans = {v1, v2, v3, v4}
    Searches = {first, second, deep, later}
    Articles = {old, new}
    Holders = {h1, h2}
    Source <- MCSource
    Url <- MCUrl
    Host <- MCHost
    Plans <- MCPlans
    Finds <- MCFinds
    Offspring <- MCOffspring
    Followups <- MCFollowups
    PageBudget = 2
    MetadataLimit = 2
    MaxLeads = 1
    Bulk = {"archive"}
    Reserved = 1
    AttemptLimit = 2
    Lease = 1
    PassSeconds = 2
    Delays = {1}
    MaxTime = 2
    Lag = 1
    MaxPasses = 2
    MaxPages = 2
    MaxDeferrals = 1
SYMMETRY Symmetry
CHECK_DEADLOCK FALSE
INVARIANTS
    TypeOK
    ViewersSeeDescendants
    DoneHasCapture
    RequestsAreInOrder
    ReadersAreTold
PROPERTIES
    RequestsAreInTime
