\* Three tasks that hold up to two connections each, and storage that fails to
\* mount now and then.
CONSTANTS
    Tasks = {t1, t2, t3}
    Patient = {}
    Handles = {h1, h2, h3, h4, h5}
    NULL = NULL
    MinConn = 4
    MaxConn = 5
    HoldLimit = 2
    OpenFaults = {"no_handle"}
SPECIFICATION Spec
SYMMETRY Symmetry
CHECK_DEADLOCK FALSE
INVARIANTS
    HeldIsPooled
    CleanHandover
    DestroyClosesAll
    NeverAllWait
PROPERTIES
    ImplementsLease
