CONSTANTS
    Word = {"a", "b", "c", "m", "x", "y", "z", "w"}
    Inputs <- MCInputs
    MinLength = 1
    StreakCutoff = 1
SPECIFICATION Spec
INVARIANT
    UsedMapHasNoStreak
