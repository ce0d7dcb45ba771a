SPECIFICATION Spec
CONSTANTS
    Client = {c1, c2}
    Admin = {a1, a2}
    Preset <- MCPreset
    Base <- MCBase
    Change <- MCChange
    ServerOf <- MCServerOf
    Https = {"https://one", "https://two"}
    Http = {"http://three"}
    AllowInsecureHTTP = FALSE
    Token = {k1, k2}
    Deployment = {d1}
    MaxTries = 2
    MaxRequests = 3
    MaxFaults = 1
    MaxRestarts = 1
INVARIANTS
    SettingsInv
    AuditTellsAll
    IntegrationInv
PROPERTIES
    IsRegister
SYMMETRY Symmetry
CHECK_DEADLOCK FALSE
