SPECIFICATION Spec
CONSTANTS
    w1 = w1
    Worker = {w1, w2}
    MaxAttempts = 2
    Lease = 1
    CallCap = 2
    MaxPhases = 0
    MaxCrashes = 0
INVARIANT
    StaleNeverCommits
