\* More requests than result slots.
CONSTANTS
    Clients = {c1, c2}
    MaxResults = 1
    QueueSize = 2
    WordSize = 4
    MaxRequests = 4
SPECIFICATION Spec
SYMMETRY Symmetry
CHECK_DEADLOCK FALSE
PROPERTIES
    DoneMeansNotified
