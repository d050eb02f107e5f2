SPECIFICATION Spec
CONSTANTS
    look = look
    Tools = {look}
    Readonly = {look}
    Variants = {1}
    ToolErrors = {"ok", "logic", "fatal"}
    Flash = FALSE
    HaltAllowed = TRUE
    Budget = 2
    RetryMax = 1
    LogicMax = 1
    ValidationMax = 2
    Threshold = 2
    Grace = 1
    HistoryMax = 4
    MaxCalls = 2
INVARIANTS
    TurnsAreBounded
    NoTurnAfterFatal
    LoopIsWarned
CHECK_DEADLOCK FALSE
