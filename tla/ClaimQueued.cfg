CONSTANTS
    j1 = j1
    Jobs = {j1}
    PiiDocs = {j1}
    Requests <- OneApproval
    StuckAge = 1
    ApprovalWindow = 1
    TempRetention = 1
    MaxCrashes = 0
    MaxFaults = 1
SPECIFICATION SettlesSpec
PROPERTIES QueuedIsCleanedUp
CHECK_DEADLOCK FALSE
