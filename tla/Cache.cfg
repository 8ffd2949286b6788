SPECIFICATION FairSpec
CONSTANTS
    k1 = k1
    l1 = l1
    l2 = l2
    Keys = {k1}
    Loads = {l1, l2}
    CacheControls <- FewControls
    RetryAfters = {0}
    EvictableKeys = {k1}
    WallClocks = {1}
    OutboundFetches = 1
    Deadline = 1
    MaxFreshness = 2
    DefaultFreshness = 1
    CoalescedTtl = 1
    MinBackoff = 0
    MaxBackoff = 4
    OpenFor = 2
    MaxTime = 1
    MaxVersion = 1
    NoRep = NoRep
    NoOutcome = NoOutcome
    NoLoad = NoLoad
INVARIANT TypeOK
INVARIANT NoRegression
INVARIANT CachesHoldNewest
INVARIANT SingleFlight
INVARIANT WaitersHaveLeader
INVARIANT CircuitHonoured
INVARIANT PermitsConserved
PROPERTY RefinesDirectory
PROPERTY LoadTerminates
CHECK_DEADLOCK FALSE
