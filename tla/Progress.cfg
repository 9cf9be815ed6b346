SPECIFICATION MCFairSpec
CONSTANTS
    w1 = w1
    w2 = w2
    r1 = r1
    k1 = k1
    h1 = h1
    NoValue = NoValue
    c1 = c1
    c2 = c2
    c3 = c3
    c4 = c4
    Call = {c1, c2, c3, c4}
    Threshold <- MCThreshold
    Cooldown <- MCCooldown
    Highest = 3
    Lease = 3
INVARIANTS TypeOK CircuitSafety
PROPERTIES NeverBanned WorkEnds
CHECK_DEADLOCK FALSE
