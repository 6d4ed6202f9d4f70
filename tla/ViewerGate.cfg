CONSTANTS
    DecisionTimeout = 1
    PipelineTimeout = 2
    SessionTTL = 2
    MaxFailures = 2
    MaxBurst = 2
SPECIFICATION FairSpec
INVARIANTS ViewMatches GateHolds NoEditIsLost
PROPERTIES ImplementsEventSource EvictionSparesRunning EverySessionCloses
CHECK_DEADLOCK FALSE
