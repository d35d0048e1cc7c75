\* Two tasks on the default configuration's single connection, which may not open
\* at first; three loans, any of which may have statements that fail, and a queue that
\* a batch fills.
CONSTANTS
    Tasks = {t1, t2}
    Patient = {}
    Handles = {h1, h2}
    NULL = NULL
    MinConn = 1
    MaxConn = 2
    HoldLimit = 1
    OpenFaults = {"no_handle"}
    Scripts <- MCScripts
    QueueSize = 4
    MaxLoans = 3
    MaxFaulty = 3
SPECIFICATION PoolAsyncSpec
SYMMETRY Interchangeable
VIEW Relevant
CHECK_DEADLOCK FALSE
INVARIANTS
    RequestsOutliveLoansOnly
    LoansDoNotMix
    BatchesAreWhole
    DirtyOnlyIfLate
