CONSTANTS
    Inputs <- CommaInputs
    EntityLabel <- MCEntityLabel
    SynonymLabel <- MCSynonymLabel
    FallbackLabel = {6}
    InsLabel = 7
    DelLabel = 10
    LabelName <- MCLabelName
    Speaker = {1, 2}
    Tag = {1}
    EosPunctuation = {5}
    ContextSize = 1
SPECIFICATION Spec
INVARIANT
    PunctuationIsToken
