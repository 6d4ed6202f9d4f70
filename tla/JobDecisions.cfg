CONSTANTS
    j1 = j1
    Jobs = {j1}
    PiiDocs = {j1}
    Requests <- Decisions
    StuckAge = 1
    ApprovalWindow = 1
    TempRetention = 2
    MaxCrashes = 1
    MaxFaults = 1
SPECIFICATION DecisionsSpec
INVARIANTS OnlyClearedIsConverted AwaitingIsTracked SourceIsKept StartsAreLicensed CompletedHasResult
PROPERTIES ImplementsPiiGate DecisionStands
CHECK_DEADLOCK FALSE
