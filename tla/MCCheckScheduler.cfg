SPECIFICATION FairSpec
CONSTANTS
    Check = {a, b}
    Worker = {w1}
    Caller = {h1}
    QueueCapacity = 1
    MaxRestarts = 1
INVARIANTS
    ReservationInv
PROPERTY DueChecksRun
CHECK_DEADLOCK FALSE
