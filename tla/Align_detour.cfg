CONSTANTS
    Word = {1, 2, 3, 4}
    Inputs <- DetourInputs
    MinLength = 1
    StreakCutoff = 1
    RuleSets <- DetourRules
    SynonymOptions <- NoSynonymOptions
    StemOf <- NoHyphens
    PartsOf <- NoHyphens
    StandardInputs = {}
    FirstPassModes = {FALSE}
    EpsModes = {FALSE}
    State <- MCState
    Label <- MCLabel
    SynonymLabel <- MCSynonymLabel
    InsLabel = 7
    DelLabel = 10
    EntityLabel <- NoLabels
    Candidates <- NoCandidates
    NumBests = 20
    LoopsBeforePruning = 50
    PruneTarget = 20
    ErrorOffset = 20
SPECIFICATION AlignSpec
INVARIANT
    SynonymsNeverHurt
