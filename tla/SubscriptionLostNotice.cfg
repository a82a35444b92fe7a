SPECIFICATION SerialLive
CONSTANTS
    host = host
    guest = guest
    hostPays = hostPays
    guestPays = guestPays
    Tenants = {host, guest}
    Payments = {hostPays, guestPays}
    Payer <- MCPayer
    Referrer <- MCReferrer
    NoTenant = NoTenant
    NoPayment = NoPayment
    Sessions = {s1}
    Period = 2
    TrialDays = 1
    BonusDays = 1
    WarnDays = 0
    Horizon = 2
    MaxExtends = 0
    Faults = {"error"}
    MaxFaults = 1
PROPERTIES
    PaidIsCredited
CHECK_DEADLOCK FALSE
