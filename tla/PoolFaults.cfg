\* Three tasks, one of which waits as long as it takes, room for one connection
\* above the minimum, every way an open can fail.
CONSTANTS
    Tasks = {t1, t2, t3}
    Patient = {t1}
    Handles = {h1, h2, h3, h4}
    NULL = NULL
    MinConn = 2
    MaxConn = 3
    HoldLimit = 1
    OpenFaults = {"no_handle", "closed_handle", "open_handle"}
SPECIFICATION FairSpec
CHECK_DEADLOCK FALSE
INVARIANTS
    PoolInv
    TokensMatchConnections
    NeverAboveMinimum
    StatsMatchSlots
PROPERTIES
    TimeOutMeansBusy
    KeepsServing
