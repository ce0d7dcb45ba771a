SPECIFICATION FairAlertingSpec
CONSTANTS
    Key <- MCCheckKey
    ChannelConfig <- MCChannelConfig
    Channel = {}
    NoGroup = NoGroup
    RetryLimit = 1
    MaxChannels = 1
    MaxAlerts = 2
    MaxDeliveries = 1
    MaxAttempts = 1
    Horizon = 2
    Slot <- MCTwoChecks
    Rule <- MCRule
    Observation <- MCObservation
    SilenceTime = {0, 1}
    MaxAborts = 1
INVARIANTS
    AlertingInv
PROPERTIES
    Spec
    CooldownHolds
    PersistentFailureFires
    RecoveryResolves
CHECK_DEADLOCK FALSE
