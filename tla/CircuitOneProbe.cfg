SPECIFICATION Spec
CONSTANTS
    Call = {c1, c2, c3, c4}
    c1 = c1
    c2 = c2
    c3 = c3
    c4 = c4
    Threshold <- MCThreshold
    Cooldown <- MCCooldown
    Highest = 3
    Lease = 3
INVARIANT OneProbe
