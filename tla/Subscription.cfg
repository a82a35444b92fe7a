SPECIFICATION SerialSpec
CONSTANTS
    host = host
    guest = guest
    hostPays = hostPays
    guestPays = guestPays
    Tenants = {host, guest}
    Payments = {hostPays, guestPays}
    Payer <- MCPayer
    Referrer <- MCReferrer
    NoTenant = NoTenant
    NoPayment = NoPayment
    Sessions = {s1, s2}
    Period = 2
    TrialDays = 1
    BonusDays = 1
    WarnDays = 0
    Horizon = 3
    MaxExtends = 1
    Faults = {"error", "crash"}
    MaxFaults = 1
SYMMETRY Symmetry
CONSTRAINT Bounded
INVARIANTS
    Inv
    SerialNoFreeDays
PROPERTIES
    SerialNeverShortened
CHECK_DEADLOCK FALSE
