\* Everything fails that may fail; an operator sets a number.
SPECIFICATION FairSpec
CONSTANTS
    c1 = c1
    c2 = c2
    c3 = c3
    Job = {"unit"}
    Client = {c1, c2}
    JobOf <- MCJobOf
    Fallback <- MCFallback
    PostValues = {3}
    SavesFail = TRUE
    FallbackFails = TRUE
    MaxTries = 2
    MaxPosts = 1
    MaxCrashes = 1
INVARIANT IInv
INVARIANT Incrementing
INVARIANT AfterFallback
PROPERTY CallsEnd
