\* Turns that supersede one another at every await.
SPECIFICATION FairNotchSpec
CONSTANTS
    MaxTurns = 3
    MaxHolds = 3
INVARIANTS
    PointerIsCurrent
    IdleCloseSparesTurns
PROPERTIES
    ThinkingEnds
\* The turns and the holds are bounded.
CHECK_DEADLOCK FALSE
