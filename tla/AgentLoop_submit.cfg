SPECIFICATION Spec
CONSTANTS
    look = look
    Tools = {look}
    Readonly = {look}
    Variants = {1}
    ToolErrors = {"ok", "logic", "fatal"}
    Flash = FALSE
    HaltAllowed = TRUE
    Budget = 3
    RetryMax = 1
    LogicMax = 2
    ValidationMax = 2
    Threshold = 2
    Grace = 1
    HistoryMax = 1
    MaxCalls = 2
INVARIANTS
    SubmitIsTaken
CHECK_DEADLOCK FALSE
