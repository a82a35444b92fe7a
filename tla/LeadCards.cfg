SPECIFICATION Spec
CONSTANTS
    NoCard = NoCard
    MaxSyncs = 3
CONSTRAINT Bounded
INVARIANTS
    Inv
    SerialCardInPlace
    SomeSyncGoesOn
CHECK_DEADLOCK FALSE
