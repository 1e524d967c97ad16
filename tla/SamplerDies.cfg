SPECIFICATION SamplersSpec
CONSTANTS
    Kinds = {"redis"}
    Rounds = 2
CHECK_DEADLOCK FALSE
INVARIANTS
    PollUntilFinished
