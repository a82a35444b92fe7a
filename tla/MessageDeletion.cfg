SPECIFICATION Spec
CONSTANTS
    m1 = m1
    m2 = m2
    Other = m2
    Messages = {m1, m2}
    Worker = Worker
    Callers <- MCCallers
    Never = Never
    MinDelay = 2
    MaxAttempts = 2
    RetryAfter = {0}
    Ttls = {1}
    PollInterval = 1
    RestartDelay = 1
    MaxFaults = 1
CONSTRAINT Bounded
INVARIANTS
    Inv
PROPERTIES
    SpacedCalls
    EveryCallEnds
    OwedIsTried
