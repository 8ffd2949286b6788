\* Restarts of the resolver at one path, one process after the other.
CONSTANTS
    Processes = {p1, p2}
    Clients = {c1}
    Configs <- MCConfigs
    Overlap = FALSE
    Nobody = Nobody
SPECIFICATION FairSpec
INVARIANT TypeOK
INVARIANT ServingIsReachable
INVARIANT ShutdownRemovesSocket
PROPERTY StaleSocketNeverBlocks
PROPERTY AcceptedAreAnswered
PROPERTY StartupSettles
PROPERTY ShutdownCompletes
