\* Two attempts, two accounts, one caller, one thing that goes wrong.
SPECIFICATION Spec
CONSTANTS
    Users        = {u1, u2}
    NoUser       = NoUser
    Callers      = {c1}
    MaxAttempts  = 2
    MaxCodes     = 2
    MaxExchanges = 2
    PendingTTL   = 2
    CodeTTL      = 1
    Policies     = {TRUE, FALSE}
    MaxIncidents = 1
SYMMETRY UserSymmetry
INVARIANTS
    CodeBuysOneSession
    CachedJwtIsCurrent
PROPERTIES
    AcceptsOnlyTheLatest
\* Attempts and codes are used up.
CHECK_DEADLOCK FALSE
