SPECIFICATION Spec
CONSTANTS
    NF = 5
    Rounds = 2
    MaxErrors = 1
    PromptStart = TRUE
INVARIANTS
    TypeOK
    ForksInv
PROPERTY
    DinnerEnds
