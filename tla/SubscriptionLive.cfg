SPECIFICATION SerialLive
CONSTANTS
    host = host
    guest = guest
    hostPays = hostPays
    guestPays = guestPays
    Tenants = {host, guest}
    Payments = {guestPays}
    Payer <- MCPayer
    Referrer <- MCReferrer
    NoTenant = NoTenant
    NoPayment = NoPayment
    Sessions = {s1}
    Period = 2
    TrialDays = 1
    BonusDays = 1
    WarnDays = 1
    Horizon = 3
    MaxExtends = 0
    Faults = {"crash"}
    MaxFaults = 1
PROPERTIES
    ExpiredLosesAccess
    PaidIsCredited
CHECK_DEADLOCK FALSE
