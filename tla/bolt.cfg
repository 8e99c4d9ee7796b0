CONSTANTS
    Handles = {1, 2, 3}
    None = 0
    Configs <- Settings
    MaxRuns = 1
    ReapedCap = 1
    Attempts = 2
SPECIFICATION FairSpec
CHECK_DEADLOCK FALSE
INVARIANT WindowIsExclusive
INVARIANT ToldIsApplied
PROPERTY WaiterAnswered
