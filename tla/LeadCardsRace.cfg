SPECIFICATION Spec
CONSTANTS
    NoCard = NoCard
    MaxSyncs = 2
INVARIANTS
    CardFollowsStatus
CHECK_DEADLOCK FALSE
