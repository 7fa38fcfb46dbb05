CONSTANTS
    State <- MCState
    Label <- MCLabel
    Compositions <- MCCompositions
    NumBests = 100
    LoopsBeforePruning = 50
    PruneTarget = 20
    ErrorOffset = 20
SPECIFICATION FairSpec
INVARIANTS
    TypeOK
    ChainsAreWalks
    Settled
    FinalsReported
    ExhaustiveWalkIsOptimal
    FirstHasFewestArcs
PROPERTY
    WalkRelaxes
    Terminates
