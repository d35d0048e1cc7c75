\* The documented order of calls on an ESP32 and on an RP2040 with LittleFS, whose
\* database is there already or is to be created.
CONSTANTS
    DataPages = {2}
    Targets <- LittleFsBoards
    Conns = {c1}
    MaxCommits = 1
    Faults = FALSE
SPECIFICATION Spec
CONSTRAINT Followed
INVARIANTS
    ExampleOpens
