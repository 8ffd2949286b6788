SPECIFICATION Spec
CONSTANTS
    t1 = t1
    t2 = t2
    t3 = t3
    o1 = o1
    o2 = o2
    Tasks = {t1, t2, t3}
    Origins = {o1, o2}
    Urls <- MCUrls
    Addresses = {1, 2}
    NotGlobal4 = {1}
    NotGlobal6 = {}
    Exceptions6 = {}
    Mapped <- MCMapped
    Version4 = {1, 2}
    AllowedPorts = {443}
    Direct = TRUE
    Proxy = proxy
    Responses <- MCResponses
    MaxResponse = 1
    OutboundFetches = 2
    NewOrigins = 1
    StateEntries = 1
    Burst <- MCBurst
    Rate <- MCRate
    Window = 3
    IdleTtl = 2
    Deadline = 1
    Global = global
    None = None
SYMMETRY Symmetry
INVARIANT NewOriginsPerMinute
