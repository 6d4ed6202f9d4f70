CONSTANTS
    Runs = {r1, r2}
    Features = {}
    MaxWait = 1
    MaxTokens = 1
    MaxFaults = 1
    NoRun = NoRun
SPECIFICATION FairSpec
INVARIANTS StreamShowsBus ProgressAddsUp RunIsFound GaugeAccounts
PROPERTIES StreamEnds
CHECK_DEADLOCK FALSE
