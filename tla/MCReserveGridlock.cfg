\* As many reserves as clients.
SPECIFICATION FairSpec
CONSTANTS
    r1 = r1  r2 = r2
    Reserves = {r1, r2}
    Readers  = {}
    PoolSize = 2
PROPERTIES
    ReserveReturns
\* Every request may have ended.
CHECK_DEADLOCK FALSE
