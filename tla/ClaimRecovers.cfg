CONSTANTS
    Calls = {c1, c2}
    failure_threshold = 2
    success_threshold = 2
    half_open_max_calls = 1
    timeout = 1
    MaxAttempts = 2
    MaxConcurrent = 1
SPECIFICATION FairSpec
CHECK_DEADLOCK FALSE
PROPERTIES Recovers
