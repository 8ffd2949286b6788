\* A second process is started while the first one serves.
CONSTANTS
    Processes = {p1, p2}
    Clients = {c1}
    Configs <- MCConfigs
    Overlap = TRUE
    Nobody = Nobody
SPECIFICATION Spec
PROPERTY OnlyStaleSocketRemoved
