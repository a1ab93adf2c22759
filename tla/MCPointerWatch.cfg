\* Two screens, polls faster than the idle fade, up to four watches.
SPECIFICATION FairSpec
CONSTANTS
    Screens  = {"here", "there"}
    Poll     = 1
    Idle     = 3
    MaxToken = 4
INVARIANTS
    HandedOnce
PROPERTIES
    VerdictsAreFresh
    WatchEnds
