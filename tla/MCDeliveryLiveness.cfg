SPECIFICATION FairWorkerSpec
CONSTANTS
    Key <- MCOneKey
    ChannelConfig <- MCOn
    Channel = {c1}
    NoGroup = NoGroup
    RetryLimit = 1
    MaxChannels = 1
    MaxAlerts = 1
    MaxDeliveries = 2
    MaxAttempts = 1
    Worker = {w1}
    QueueCapacity = 1
    MaxFaults = 0
    MaxRestarts = 2
PROPERTIES
    EventuallyCompleted
CHECK_DEADLOCK FALSE
