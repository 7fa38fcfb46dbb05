CONSTANTS
    Word = {"a", "b", "c", "m", "x", "y", "z", "w"}
    Inputs <- MCLongInputs
    MinLength = 1
    StreakCutoff = 1
SPECIFICATION Spec
INVARIANT
    BacktrackIsShortest
