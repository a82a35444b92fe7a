SPECIFICATION Spec
CONSTANTS
    Leads = {a, b}
    Handlers = {h1}
    Kinds = {"reason"}
    MaxFails = 0
    MaxPrompts = 1
    MaxMenus = 2
    None = None
INVARIANTS
    ReplyReachesItsLead
CHECK_DEADLOCK FALSE
