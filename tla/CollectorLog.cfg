\* One hook that captures two rows, two numbered rounds, every error.
SPECIFICATION Spec
CONSTANTS
    NHooks = 1
    r1 = r1
    r2 = r2
    Rows = {r1, r2}
    Benches = {"none"}
    RunFails = TRUE
    HookFails = TRUE
    WriteFails = TRUE
    RaiseWhenEmpty = {}
    StopAt <- AnyTime
    MaxRounds = 2
SYMMETRY MCSymmetry
PROPERTIES
    ImplementsLog
\* A run that lost its poll thread hangs in queue.get().
CHECK_DEADLOCK FALSE
