SPECIFICATION Spec
CONSTANTS
    N = 5
    ITER = 6
INVARIANTS
    TypeOK
    ForksInv
    SomeoneCanMove
    MealsAccounting
PROPERTY
    DinnerEnds
