SPECIFICATION FairSpec
CONSTANTS
    a1 = a1
    Ids = {a1}
    MaxSteps = 2
    MaxGateRuns = 2
    MaxRevisions = 1
    MaxPlans = 1
INVARIANTS
    ProjectionIsDurable
    SpecIsCurrent
    NoWorkAfterTheEnd
PROPERTIES
    RunsEnd
    NoPolishing
    SubmitsAreReused
    StartsOnIntactProducts
    KeepsItsPromises
CHECK_DEADLOCK FALSE
