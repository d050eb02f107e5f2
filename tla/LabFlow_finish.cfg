SPECIFICATION Spec
CONSTANTS
    a1 = a1
    a2 = a2
    Ids = {a1, a2}
    MaxSteps = 1
    MaxGateRuns = 2
    MaxRevisions = 1
    MaxPlans = 0
INVARIANTS
    FinishIsEarned
CHECK_DEADLOCK FALSE
