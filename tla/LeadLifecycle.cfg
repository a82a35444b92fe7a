SPECIFICATION Spec
CONSTANTS
    Leads = {l1, l2}
    Managers = {m1, m2}
    Admins = {boss}
    NoOne = NoOne
    Sessions = {s1, s2}
    Unlocked = Unlocked
    NoArchive = NoArchive
SYMMETRY Symmetry
CONSTRAINT Bounded
INVARIANTS
    IInv
    HistoryIsAPath
    ArchiveIsOfClosedLead
    NoLostUpdate
PROPERTIES
    OwnerIsLastActor
    ImplementsPipeline
