\* Four recordings, two polls in flight, three things that go wrong.
SPECIFICATION FlowSpec
CONSTANTS
    MaxTakes     = 4
    MaxPolls     = 2
    MaxIncidents = 3
INVARIANTS
    ActsInOrder
PROPERTIES
    ResumesWhereItStopped
\* The first run ends, and the recordings are used up.
CHECK_DEADLOCK FALSE
