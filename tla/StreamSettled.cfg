SPECIFICATION Spec
CONSTANTS
    Candidates = {1, 2}
    FallbackLists = {{}}
    Orderly = TRUE
INVARIANT
    EndedIsSettled
CHECK_DEADLOCK FALSE
