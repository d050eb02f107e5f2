SPECIFICATION FairWaveSpec
CONSTANTS
    w1 = w1
    w2 = w2
    w3 = w3
    Workers = {w1, w2, w3}
    Callers = {w1, w2, w3}
    Permits = 2
    Requests = 1
    BreakerMax = 2
    Budget = 1
INVARIANTS
    GatewayTypeOK
    NobodyOutlivesTheWave
    DeadGatewayIsLeft
PROPERTIES
    KeepsWavePromises
    WaveEnds
CHECK_DEADLOCK FALSE
