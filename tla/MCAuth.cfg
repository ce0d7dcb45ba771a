SPECIFICATION Spec
CONSTANTS
    Token = {t1}
    Request = {r1, r2}
    Code = {k1}
    Config <- MCConfig
    SetupTTL = 1
    MaxTime = 2
    MaxSeeds = 2
    MaxFaults = 1
    MaxRestarts = 1
INVARIANTS
    AccountInv
    SessionInv
    FactorInv
SYMMETRY Symmetry
CHECK_DEADLOCK FALSE
