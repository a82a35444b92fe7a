SPECIFICATION LiveSpec
CONSTANTS
    Reminders = {r1, r2}
    None = None
    NoJob = NoJob
    Delays = {1, 2}
    Lease = 2
    Backoff <- MCBackoff
    MaxAttempts = 3
    MaxCrashes = 2
    Environments <- MCEnvironments
CONSTRAINT Bounded
INVARIANTS
    Inv
    NoNeedlessDuplicate
PROPERTIES
    CancelledIsNotSent
    EventuallySettled
