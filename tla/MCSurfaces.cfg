SPECIFICATION FairSpec
CONSTANTS
  MaxTurns = 1
  MaxSteps = 2
  MaxHolds = 2
  MaxStirs = 1
  MaxBeats = 2
  MaxQueue = 2
  MaxAsleep = 2
  SlowBounds = FALSE
CONSTRAINT StirsApart
CHECK_DEADLOCK FALSE
INVARIANTS
  PayloadIsOnScreen
  OverlayCatchesUp
  ArmedArrivalHasTarget
PROPERTIES
  KeptBoxesStay
  TrailEnds
