CONSTANTS
    Requests = {q1, q2, q3}
    Ips = {a, b}
    IpLimit = 1
    IpWindow = 2
    GlobalLimit = 2
    GlobalWindow = 3
    TicksPerSecond = 2
    MaxLatency = 1
    MaxTime = 5
    MaxFaults = 1
SPECIFICATION Spec
INVARIANTS OvershootIsLate AdmittedIsCounted RefusalIsFree RetryFreesASlot
SYMMETRY Symmetry
CHECK_DEADLOCK FALSE
