SPECIFICATION FairSpec
CONSTANTS
    l1 = l1
    l2 = l2
    d1 = d1
    d2 = d2
    Labs = {l1, l2}
    Dones = {d1, d2}
INVARIANTS
    OneOpenLab
    CardsFirst
    StopReachesLab
PROPERTIES
    ResumeFindsItsLab
    RequestsEnd
CHECK_DEADLOCK FALSE
