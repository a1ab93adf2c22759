\* One credit and one tutorial turn.  A streamed question races its own fallback, with
\* two of: a move of the subscription, a failed statement, a crash; or a second
\* question.
SPECIFICATION FairSpec
CONSTANTS
    q1 = q1
    q2 = q2
    Questions = {q1, q2}
    Streamed    = {q1}
    FreeLimit   = 1
    TutorialCap = 1
    MaxDisturbances = 2
CONSTRAINT RacesByTwo
INVARIANTS
    WithinBudgets
    TutorialLedger
    CreditLedger
PROPERTIES
    ImplementsCreditAccount
    FailedTurnIsReturned
\* A request that has ended stays ended.
CHECK_DEADLOCK FALSE
