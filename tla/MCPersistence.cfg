SPECIFICATION Spec
CONSTANTS
    Subscriber = {}
    RingSize = 1
    LiveCapacity = 1
    MaxBurst = 2
    MaxMessages = 3
    Collector = {c1}
    Health = {"ok", "down"}
    QueueLimit = 1
    MaxAttempts = 2
    Size = {97, 98}
    Target = 100
    MaxBatches = 3
    MaxFaults = 2
    MaxBoots = 2
INVARIANTS
    QueueInv
    EventsStored
    TransitionsChain
CHECK_DEADLOCK FALSE
