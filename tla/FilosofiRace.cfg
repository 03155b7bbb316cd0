SPECIFICATION Spec
CONSTANTS
    NF = 5
    Rounds = 1
    MaxErrors = 0
    PromptStart = FALSE
PROPERTY
    DinnerEnds
CHECK_DEADLOCK FALSE
