CONSTANTS
    State <- MCState
    Label <- MCLabel
    Compositions <- MCCompositions
    NumBests = 2
    LoopsBeforePruning = 1
    PruneTarget = 1
    ErrorOffset = 0
SPECIFICATION Spec
INVARIANTS
    LevelDiscipline
    ReportOrder
PROPERTY
    PruneSpares
    WalkRelaxes
