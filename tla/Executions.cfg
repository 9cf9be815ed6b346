SPECIFICATION MCFairSpec
CONSTANTS
    Candidates = {1, 2}
    FallbackLists = {{}, {"timeout", "provider_failure"}}
    Orderly = FALSE
    RunStages = 2
    MaxAttempts = 1
    Cancellers = {"canceller"}
    PageSize = 1000
INVARIANTS StreamSafety DecodingIsExact RecordsAgree
PROPERTIES ImplementsLifecycle RecordsEndure
CHECK_DEADLOCK FALSE
