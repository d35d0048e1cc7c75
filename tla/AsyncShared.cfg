\* Two clients submit at the same time.
CONSTANTS
    Clients = {c1, c2}
    MaxResults = 2
    QueueSize = 2
    WordSize = 4
    MaxRequests = 4
SPECIFICATION Spec
SYMMETRY Symmetry
CHECK_DEADLOCK FALSE
INVARIANTS
    SlotsAreExclusive
