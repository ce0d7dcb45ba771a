SPECIFICATION WorkerSpec
CONSTANTS
    Key <- MCOneKey
    ChannelConfig <- MCOn
    Channel = {c1}
    NoGroup = NoGroup
    RetryLimit = 1
    MaxChannels = 1
    MaxAlerts = 1
    MaxDeliveries = 2
    MaxAttempts = 1
    Worker = {w1, w2}
    QueueCapacity = 1
    MaxFaults = 1
    MaxRestarts = 2
INVARIANTS
    WorkerInv
PROPERTIES
    Spec
    CancelledStaysCancelled
SYMMETRY Symmetry
CHECK_DEADLOCK FALSE
