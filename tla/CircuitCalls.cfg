CONSTANTS
    Calls = {c1, c2, c3}
    failure_threshold = 2
    success_threshold = 3
    half_open_max_calls = 1
    timeout = 1
    MaxAttempts = 2
    MaxConcurrent = 2
SPECIFICATION FairSpec
\* a half-open breaker whose only slot was lost admits no call any more
CHECK_DEADLOCK FALSE
INVARIANTS ProbesAreBounded SlotsAreAccounted
PROPERTIES RecoversUnlessLost
