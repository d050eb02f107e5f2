SPECIFICATION FairSpec
CONSTANTS
    w1 = w1
    w2 = w2
    Workers = {w1, w2}
    MaxWave = 2
    MaxAtOnce = 2
    Phases = {"worker", "summary"}
    Asked = {"write_file", "sandbox_convert_to_markdown"}
    MaxFailures = 2
    MaxStarts = 2
    MarkInFiles = FALSE
INVARIANTS
    WritesRunAlone
PROPERTIES
    HealthyBoxAnswers
    EditsEnd
CHECK_DEADLOCK FALSE
