\* One task that has the cache for itself, and two that share it, hold more
\* statements than it has entries and clear it at any time.
CONSTANTS
    Tasks = {t1, t2}
    Sqls = {q1, q2, q3}
    Stmts = {s1, s2, s3}
    NULL = NULL
    MaxEntries = 2
    MaxTick = 2
    MaxInUse = 3
    ClearBusy = TRUE
SPECIFICATION Spec
SYMMETRY Symmetry
CHECK_DEADLOCK FALSE
INVARIANTS
    TypeOK
    EntriesAreLive
    OwnerHoldsRight
PROPERTIES
    ImplementsLease
