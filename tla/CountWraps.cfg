\* One CPU, no numbered round.
SPECIFICATION PerfSpec
CONSTANTS
    Cpus = {0}
    CountWidth = 3
    FirstRound = 0
    MaxChunks = 0
    MaxCount = 4
    MaxSamples = 2
INVARIANTS
    ReturnsDeltas
CHECK_DEADLOCK FALSE
