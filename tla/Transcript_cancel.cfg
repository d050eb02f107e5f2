SPECIFICATION Spec
CONSTANTS
    KeepTurns = 2
    MaxLen = 6
    CancelInTools = TRUE
    ModelNamesCalls = TRUE
INVARIANTS
    RestoredIsSendable
CHECK_DEADLOCK FALSE
