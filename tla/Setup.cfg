SPECIFICATION Spec
CONSTANTS
    Tenants = {t1, t2}
    Groups = {g1, g2}
    Runs = {r1, r2}
    Topics <- MCTopics
    Panel = "MANAGERS"
    MenuTopics <- MCMenuTopics
    Cabinet = "CABINET"
    Unbound = Unbound
    Absent = Absent
    NoMap = NoMap
    MaxThreads = 6
    MaxFaults = 1
SYMMETRY Symmetry
CONSTRAINT Bounded
INVARIANTS
    Inv
    NoDuplicateTopics
    SetupRepairs
    CacheFollowsRows
PROPERTIES
    BoundOnce
CHECK_DEADLOCK FALSE
