\* One task, which uses the cache as it is meant to be used.
CONSTANTS
    Tasks = {t1}
    Sqls = {q1, q2, q3, q4}
    Stmts = {s1, s2, s3, s4}
    NULL = NULL
    MaxEntries = 2
    MaxTick = 2
    MaxInUse = 1
    ClearBusy = FALSE
SPECIFICATION Spec
SYMMETRY Symmetry
CHECK_DEADLOCK FALSE
INVARIANTS
    DestroyFinalizesAll
