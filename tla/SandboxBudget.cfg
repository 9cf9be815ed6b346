SPECIFICATION Spec
CONSTANTS
    Caller = {c1, c2}
    Attempt = {a1, a2}
    CallCap = 2
    KeyCap = 3
    PerMinute = 1
    MaxCost = 2
    MaxActual = 3
    MaxMinute = 1
INVARIANTS TypeOK LimitsHold HoldsCoverSpend DispatchedOnce LedgersAgree
PROPERTY SpentStaysSpent
SYMMETRY Symmetry
