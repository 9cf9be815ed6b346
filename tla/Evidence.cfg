SPECIFICATION MCSpec
CONSTANTS
    a = a
    b = b
    k1 = k1
    k2 = k2
    None = None
    Repos = {r1}
    Capabilities = {r1}
    Deployments = {r1}
    MaxCalls = 4
    MaxRetries = 1
    MaxVersion = 2
    MaxChanges = 1
    MaxRuns = 2
    Configs = {1, 2, 3}
    Stages = 2
    Shapes <- MCShapes
    Workflows <- MCWorkflows
    MaxCandidates = 2
    MaxMappings = 2
    MaxClock = 2
    Callers = {a, b}
    Keys = {k1, k2}
    Listed = {1, 2}
    Catalogs <- MCCatalogs
    Terms <- MCTerms
    Offers <- MCOffers
    Asks <- MCAsks
    Ttl = 2
    Capacity = 1
    Scale = 4
    MaxTime = 3
INVARIANTS ResearchSafety SearchSafety AuthoritySafety
PROPERTY DraftIsAdmissible
SYMMETRY MCSymmetry
CHECK_DEADLOCK FALSE
