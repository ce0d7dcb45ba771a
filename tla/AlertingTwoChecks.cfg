SPECIFICATION FairAlertingSpec
CONSTANTS
    Key <- MCCheckKey
    ChannelConfig <- MCChannelConfig
    Channel = {}
    NoGroup = NoGroup
    RetryLimit = 1
    MaxChannels = 1
    MaxAlerts = 2
    MaxDeliveries = 1
    MaxAttempts = 1
    Horizon = 1
    Slot <- MCTwoChecks
    Rule <- MCRule
    Observation <- MCSimple
    SilenceTime = {0, 1}
    MaxAborts = 1
PROPERTY FailingCheckFires
CHECK_DEADLOCK FALSE
