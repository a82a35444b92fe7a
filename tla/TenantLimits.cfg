SPECIFICATION MCSpec
CONSTANTS
    Users = {ann, bob, eve}
    Handlers = {h1, h2}
    Limits <- MCLimits
    Requests = {r1, r2}
    LeadLimits <- MCLimits
    MaxMonth = 3
    MaxLeads = 3
    Plans <- MCPlans
SYMMETRY Symmetry
INVARIANTS
    Inv
    LimitBounded
    QuotaInv
PROPERTIES
    EnteredIsManager
    QuotaHolds
    NoFalseRefusal
