SPECIFICATION System
CONSTANTS
    MaxLifetime = 1
    ClockSkew = 0
    I64Max = 1
    NoTime = NoTime
    RequiredComponents = {}
    AcceptLegacy = FALSE
    Modes = {"required"}
    Forwarding = {TRUE}
    Requests <- MCRequests
    Responses = {}
    CalloutIds = {1, 2}
    Thumbprint <- MCThumbprint
    ImportableKeys <- MCValid
    CalloutTimeout = 1
    MaxTime = 1
    NoRequest = NoRequest
    NoPending = NoPending
    NoDenial = NoDenial
    c1 = c1
    c2 = c2
    Callers = {c1, c2}
    Mine = c1
    Content <- MCContent
    ValidKeys <- MCValid
    TestKeys <- MCTestKeys
    AllowTestKeys = FALSE
    MaxKeys = 2
    ActiveHandlers = 1
    ResolutionTimeout = 1
    NoAnswer = NoAnswer
    NoResponse = NoResponse
    NoKid = NoKid
    NoKey = NoKey
INVARIANT SignerIsPublished
INVARIANT TestKeysVerifyNothing
INVARIANT RulesAgree
CHECK_DEADLOCK FALSE
