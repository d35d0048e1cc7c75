\* Two clients, two result slots and a queue of two, so that slots run out, the
\* queue fills up and counters wrap within a handful of calls.
CONSTANTS
    Clients = {c1, c2}
    MaxResults = 2
    QueueSize = 2
    WordSize = 4
    MaxRequests = 4
SPECIFICATION FairSpec
CHECK_DEADLOCK FALSE
INVARIANTS
    TypeOK
    PendingIsOffBySkew
    ResultWrongOnlyIfShared
PROPERTIES
    ExhaustionIsPermanent
    ImplementsService
    QueuedIsDone
