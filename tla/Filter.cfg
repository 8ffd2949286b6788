SPECIFICATION FairSpec
CONSTANTS
    MaxLifetime = 2
    ClockSkew = 1
    I64Max = 6
    NoTime = NoTime
    RequiredComponents = {"@method"}
    AcceptLegacy = TRUE
    Modes = {"observe", "optional", "required"}
    Forwarding = {TRUE, FALSE}
    Requests <- MCRequests
    Responses <- MCResponses
    CalloutIds = {1, 2}
    Thumbprint <- MCThumbprint
    ImportableKeys <- MCImportable
    CalloutTimeout = 2
    MaxTime = 6
    NoRequest = NoRequest
    NoPending = NoPending
    NoDenial = NoDenial
INVARIANT TypeOK
INVARIANT VerifiedMeansProved
INVARIANT AssertionsAreOurs
INVARIANT ModeEnforced
INVARIANT HeldIffPending
PROPERTY FreshAtDecision
PROPERTY DecidedOnce
PROPERTY HeldIsDecided
CHECK_DEADLOCK FALSE
