\* A benchmark that starts, or none; stop requests once run() has returned.
SPECIFICATION FairSpec
CONSTANTS
    NHooks = 2
    Rows = {r1}
    Benches = {"none", "faux"}
    RunFails = FALSE
    HookFails = FALSE
    WriteFails = FALSE
    RaiseWhenEmpty = {}
    StopAt <- AfterRun
    MaxRounds = 2
INVARIANTS
    ShortRunFilesDue

    
    
