SPECIFICATION MCSpec
CONSTANTS
    a = a
    b = b
    c1 = c1
    c2 = c2
    None = None
    Versions = {1, 2}
    Contents = {c1, c2}
    Covered = {c1, c2}
    Sessions = {a, b}
    Requests = {r1}
    Admissions <- MCAdmissions
    MaxSequence = 3
    MaxTime = 1
    Keys = {"x", "y"}
    Aliases = {"m", "n"}
    Nodes = {1, 2}
    Configs = {1, 2, 3}
    Source <- MCSource
    Originals <- MCOriginals
    Changes <- MCChanges
    MaxRevisions = 2
    PlanKeys = {"k", "l"}
    Plans = {"p", "q"}
    Inputs = {"x"}
    Quota = 1
    MaxVersion = 2
    Compared = {1, 2}
    Samples = {"s"}
    Cost <- MCCost
    Caps = {2, 3}
    Stages <- MCStages
    MaxAttempts = 2
    MaxReads = 2
    MaxChanges = 5
INVARIANTS PolicySafety KeySafety EditSafety SubmissionSafety ComparisonSafety
PROPERTY RecordsStay
SYMMETRY MCSymmetry
CHECK_DEADLOCK FALSE
