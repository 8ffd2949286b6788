SPECIFICATION FairSpec
CONSTANTS
    c1 = c1
    c2 = c2
    Callers = {c1, c2}
    Requests <- MCRequests
    Content <- MCContent
    Thumbprint <- MCThumbprint
    ValidKeys <- MCValid
    TestKeys <- MCTestKeys
    AllowTestKeys = FALSE
    MaxKeys = 2
    ActiveHandlers = 1
    ResolutionTimeout = 1
    MaxTime = 2
    NoAnswer = NoAnswer
    NoRequest = NoRequest
    NoResponse = NoResponse
    NoKid = NoKid
    NoKey = NoKey
INVARIANT TypeOK
INVARIANT HandlersConserved
INVARIANT AnswerIsAuthoritative
PROPERTY AnsweredInTime
PROPERTY ResolutionEnds
CHECK_DEADLOCK FALSE
