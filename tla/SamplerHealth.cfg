SPECIFICATION SamplerSpec
CONSTANTS
    Subscriber = {}
    RingSize = 2
    LiveCapacity = 1
    MaxBurst = 2
    MaxMessages = 3
    Container = {k1, k2}
    ResourceOf <- MCResourceOf
    PendingCap = 1
    ArchiveAfter = 0
    DegradedAt = 1
    DownAt = 2
    MaxSteps = 5
    MaxOutages = 1
INVARIANTS
    HealthRefreshed
CHECK_DEADLOCK FALSE
