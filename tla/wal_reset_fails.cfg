\* A reset whose file operations fail, and a commit after it.
CONSTANTS
    Modes = {"Barrier"}
    Faults = {}
    Losses = {}
    MaxFrames = 3
    MaxLosses = 0
    MaxFolds = 1
SPECIFICATION FailingResetSpec
CHECK_DEADLOCK FALSE
INVARIANT PromisedIsServed
