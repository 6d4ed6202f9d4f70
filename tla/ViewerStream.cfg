CONSTANTS
    MaxBurst = 2
    MaxEvents = 7
    MaxBreaks = 3
    MaxReconnects = 4
    WireSize = 2
SPECIFICATION FairSpec
INVARIANTS SeenInOrder CompleteSawAll
PROPERTIES EventsArrive
CHECK_DEADLOCK FALSE
