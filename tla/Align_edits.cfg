CONSTANTS
    Word = {1, 2}
    Inputs <- MCInputs
    MinLength = 1
    StreakCutoff = 1
    RuleSets <- NoRules
    SynonymOptions <- NoSynonymOptions
    StemOf <- NoHyphens
    PartsOf <- NoHyphens
    StandardInputs = {}
    FirstPassModes = {FALSE}
    EpsModes = {TRUE}
    State <- MCState
    Label <- MCLabel
    SynonymLabel <- MCSynonymLabel
    InsLabel = 7
    DelLabel = 10
    EntityLabel <- NoLabels
    Candidates <- NoCandidates
    NumBests = 20
    LoopsBeforePruning = 50
    PruneTarget = 20
    ErrorOffset = 20
SPECIFICATION AlignSpec
INVARIANT
    ReturnedIsEditDistance
