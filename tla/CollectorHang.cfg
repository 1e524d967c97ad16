\* A stop request while benchmark.run() has no process yet.
SPECIFICATION FairSpec
CONSTANTS
    NHooks = 2
    Rows = {r1}
    Benches = {"none"}
    RunFails = FALSE
    HookFails = FALSE
    WriteFails = FALSE
    RaiseWhenEmpty = {}
    StopAt <- AnyTime
    MaxRounds = 0
PROPERTIES
    FinishHonoured
CHECK_DEADLOCK FALSE
