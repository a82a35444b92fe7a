SPECIFICATION Spec
CONSTANTS
    Leads = {l1}
    Managers = {m1}
    Admins = {boss}
    NoOne = NoOne
    Sessions = {s1}
    Unlocked = Unlocked
    NoArchive = NoArchive
INVARIANTS
    ArchiveHistoryEndsWithFinalStatus
