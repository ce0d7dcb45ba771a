SPECIFICATION Spec
CONSTANTS
    Resource = {r1}
    Container = {c1}
    Home <- MCHome
    Checked = {r1}
    Job = {j1}
    Kind = {"all"}
    BatchSize = 1
    MaxTime = 0
    MaxWrites = 1
    MaxFaults = 0
    MaxRestarts = 0
PROPERTY CancelledNeedsRetry
CHECK_DEADLOCK FALSE
