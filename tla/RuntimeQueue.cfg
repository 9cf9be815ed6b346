SPECIFICATION Spec
CONSTANTS
    Run = {r1, r2}
    Worker = {w1, w2}
    Key = {k1, k2}
    Content = {h1, h2}
    Ttl = 1
    Lease = 2
    MaxTime = 4
    MaxSubmit = 0
    MaxCrashes = 1
INVARIANTS TypeOK OneOwner AtMostOneLateWave LedgerAgrees
PROPERTY SettledIsFinal
SYMMETRY Symmetry
