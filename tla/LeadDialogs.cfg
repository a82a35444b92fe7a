SPECIFICATION Spec
CONSTANTS
    Leads = {a, b}
    h1 = h1
    h2 = h2
    Handlers = {h1, h2}
    Kinds = {"amount", "note", "time", "reason"}
    MaxFails = 1
    MaxPrompts = 2
    MaxMenus = 2
    None = None
SYMMETRY Symmetry
CONSTRAINT Bounded
INVARIANTS
    Inv
    TypedReplyReachesItsLead
    AwaitedIsAsked
PROPERTIES
    CancelledIsForgotten
CHECK_DEADLOCK FALSE
