CONSTANTS
    Word = {1, 2, 3, 4, 5, 8, 9}
    Inputs <- LabelInputs
    MinLength = 1
    StreakCutoff = 1
    RuleSets <- MCRules
    SynonymOptions <- MCSynonymOptions
    StemOf <- MCStemOf
    PartsOf <- MCPartsOf
    StandardInputs = {}
    FirstPassModes = {TRUE, FALSE}
    EpsModes = {FALSE}
    State <- MCState
    Label <- MCLabel
    SynonymLabel <- MCSynonymLabel
    InsLabel = 7
    DelLabel = 10
    EntityLabel <- MCEntityLabel
    Candidates <- MCCandidates
    NumBests = 20
    LoopsBeforePruning = 1
    PruneTarget = 1
    ErrorOffset = 2
SPECIFICATION AlignSpec
INVARIANTS
    AlignmentProduced
    ReadsTexts
    SynonymsAreFree
