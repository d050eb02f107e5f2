SPECIFICATION Spec
CONSTANTS
    KeepTurns = 2
    MaxLen = 7
    CancelInTools = FALSE
    ModelNamesCalls = TRUE
INVARIANTS
    RestoredIsSendable
    RequestIsSendable
    JournalFollowsThread
PROPERTIES
    DurableIsKept
    PinnedAreKept
CHECK_DEADLOCK FALSE
