SPECIFICATION Spec
CONSTANTS
    a1 = a1
    a2 = a2
    Ids = {a1, a2}
    MaxSteps = 1
    MaxGateRuns = 2
    MaxRevisions = 1
    MaxPlans = 1
SYMMETRY Symmetry
INVARIANTS
    JudgedStepIsComplete
    VerdictIsTheWorstGate
    FinishIsEarnedAtOnce
PROPERTIES
    BriefsAreFinal
CHECK_DEADLOCK FALSE
