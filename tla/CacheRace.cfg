\* Two tasks, which hold at most two statements together, and a cache of three.
CONSTANTS
    Tasks = {t1, t2}
    Sqls = {q1, q2, q3}
    Stmts = {s1, s2, s3, s4, s5}
    NULL = NULL
    MaxEntries = 3
    MaxTick = 1
    MaxInUse = 2
    ClearBusy = FALSE
SPECIFICATION Spec
SYMMETRY Symmetry
CHECK_DEADLOCK FALSE
INVARIANTS
    HeldIsRight
