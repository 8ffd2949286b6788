SPECIFICATION Spec
CONSTANTS
    k1 = k1
    l1 = l1
    l2 = l2
    Keys = {k1}
    Loads = {l1, l2}
    CacheControls <- FewControls
    RetryAfters = {0}
    EvictableKeys = {}
    WallClocks = {}
    OutboundFetches = 1
    Deadline = 1
    MaxFreshness = 2
    DefaultFreshness = 1
    CoalescedTtl = 1
    MinBackoff = 2
    MaxBackoff = 4
    OpenFor = 3
    MaxTime = 4
    MaxVersion = 0
    NoRep = NoRep
    NoOutcome = NoOutcome
    NoLoad = NoLoad
SYMMETRY LoadSymmetry
PROPERTY ConcurrentLoadsShareRefresh
CHECK_DEADLOCK FALSE
