\* Two hooks, two numbered rounds, every error the code can meet, stop
\* requests at any time.
SPECIFICATION Spec
CONSTANTS
    NHooks = 2
    Rows = {r1}
    Benches = {"none", "faux"}
    RunFails = TRUE
    HookFails = TRUE
    WriteFails = TRUE
    RaiseWhenEmpty = {2}
    StopAt <- AnyTime
    MaxRounds = 2
INVARIANTS
    RowsOnce
    PlacementInv
    NoPollAfterClose
    NoEndWhileRunning
    ZeroMeansComplete

    
\* A run that lost its poll thread hangs in queue.get().
CHECK_DEADLOCK FALSE
