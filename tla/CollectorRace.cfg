\* The output thread pops a hook while the poll thread appends to it.
SPECIFICATION Spec
CONSTANTS
    NHooks = 2
    Rows = {r1}
    Benches = {"none"}
    RunFails = FALSE
    HookFails = FALSE
    WriteFails = FALSE
    RaiseWhenEmpty = {}
    StopAt <- NotYet
    MaxRounds = 1
INVARIANTS
    DueRowsFiled
