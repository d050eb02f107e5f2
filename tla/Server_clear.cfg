SPECIFICATION Spec
CONSTANTS
    l1 = l1
    l2 = l2
    d1 = d1
    d2 = d2
    Labs = {l1, l2}
    Dones = {d1}
PROPERTIES
    ClearedOnlyIdle
CHECK_DEADLOCK FALSE
