SPECIFICATION Spec
CONSTANTS
    Key <- MCKey
    ChannelConfig <- MCChannelConfig
    Channel = {c1}
    NoGroup = NoGroup
    RetryLimit = 1
    MaxChannels = 1
    MaxAlerts = 2
    MaxDeliveries = 2
    MaxAttempts = 1
INVARIANTS
    TypeOK
    OpenIffFiring
    SeverityExact
    OneResolution
    SerialClaims
    RetryBudget
CHECK_DEADLOCK FALSE
