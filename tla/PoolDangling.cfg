\* The default configuration's single connection, and a storage on which
\* sqlite3_open fails now and then.
CONSTANTS
    Tasks = {t1, t2}
    Patient = {}
    Handles = {h1, h2}
    NULL = NULL
    MinConn = 1
    MaxConn = 2
    HoldLimit = 1
    OpenFaults = {"closed_handle"}
SPECIFICATION Spec
CHECK_DEADLOCK FALSE
INVARIANTS
    HeldIsPooled
