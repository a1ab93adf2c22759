\* Four kinds of surroundings, two of them with a second subscription.
SPECIFICATION Spec
CONSTANTS
    NoSub = 0
    c1 = c1
    SubIds  = {1, 2}
    Callers = {c1}
    Period  = 2
    Grace   = 1
    MaxTime = 7
    MaxSessions = 2
    Worlds <- AllWorlds
INVARIANTS
    QuietRecordIsTrue
    AccessIsPaidFor
    NoSecondCheckout
PROPERTIES
    SerialEventsMonotone
CHECK_DEADLOCK FALSE
