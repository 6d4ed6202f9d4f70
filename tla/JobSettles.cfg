CONSTANTS
    j1 = j1
    Jobs = {j1}
    PiiDocs = {j1}
    Requests <- Decisions
    StuckAge = 1
    ApprovalWindow = 1
    TempRetention = 1
    MaxCrashes = 1
    MaxFaults = 1
SPECIFICATION SettlesSpec
PROPERTIES EveryJobSettles NoWorkForever UploadsAreDeleted
CHECK_DEADLOCK FALSE
