SPECIFICATION Spec
CONSTANTS
    Check = {a, b, c}
    Worker = {w1}
    Caller = {}
    QueueCapacity = 2
    MaxRestarts = 0
INVARIANT SchedulingContinues
CHECK_DEADLOCK FALSE
