SPECIFICATION FairSpec
CONSTANTS
    Call = {c1, c2}
    c1 = c1
    c2 = c2
    b1 = b1
    b2 = b2
    Body = {b1, b2}
    Plans <- MCPlans
INVARIANTS AttemptsAreBounded AtMostOneLateSend RequestsAreAccounted
PROPERTIES ImplementsLifecycle EveryRequestSettles
CHECK_DEADLOCK FALSE
