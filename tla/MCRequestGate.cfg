\* Two requests of one account over three clients; one rotation, one failed statement.
\* The windows are shortened to one and two ticks, so that both end within the run.
SPECIFICATION GateFairSpec
CONSTANTS
    q1 = q1  q2 = q2 
    Reserves <- MCReserves
    Readers  <- MCReaders
    PoolSize = 3
    Cooldown = 1
    BurstWindow = 1
    DailyWindow = 2
    BurstMax = 1
    DailyMax = 1
    SweepInterval = 3
    MaxNow = 2
    MaxKeys = 2
    MaxFaults = 1
INVARIANTS
    AllowanceIsKept
PROPERTIES
    RotationHeals
    RequestsAreAnswered
\* Every request may have ended.
CHECK_DEADLOCK FALSE
