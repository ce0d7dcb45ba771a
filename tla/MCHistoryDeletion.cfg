SPECIFICATION FairSpec
CONSTANTS
    Resource = {r1, r2}
    Container = {c1}
    Home <- MCHome
    Checked = {r1}
    Job = {j1}
    Kind = {"resource", "before", "all", "archived_resource"}
    BatchSize = 1
    MaxTime = 1
    MaxWrites = 1
    MaxFaults = 1
    MaxRestarts = 1
INVARIANTS
    JobInv
    CompletedDeletedAll
PROPERTIES
    FenceHolds
    JobsFinish
CHECK_DEADLOCK FALSE
