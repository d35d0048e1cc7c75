\* Two connections on a database of two pages beside the first, whose writes and
\* syncs fail now and then, on a board that loses power at any moment.
CONSTANTS
    DataPages = {2, 3}
    Targets <- MCTargets
    Conns = {c1, c2}
    MaxCommits = 3
    Faults = TRUE
SPECIFICATION Spec
SYMMETRY Symmetry
CONSTRAINT Followed
INVARIANTS
    TypeOK
    CommittedIntact
    ReadersSeeCommitted
    DriverCreatesNothing
    DriverRegisteredThisTime
PROPERTIES
    ImplementsStore
