SPECIFICATION FormSpec
CONSTANTS
    h1 = h1
    h2 = h2
    Handlers = {h1, h2}
    MaxForms = 2
    MaxFails = 1
SYMMETRY Symmetry
CONSTRAINT Bounded
INVARIANTS
    FormInv
    OneLeadPerForm
    AwaitedIsAsked
