SPECIFICATION MCFairSpec
CONSTANTS
    w1 = w1
    Worker = {w1, w2}
    MaxAttempts = 2
    Lease = 1
    CallCap = 2
    MaxPhases = 1
    MaxCrashes = 1
INVARIANTS TypeOK Fenced AccountedSuccess
PROPERTIES TerminalIsFinal EveryJobEnds
