\* Both sync modes, every failing operation but reset's, every kind of stop.
CONSTANTS
    Modes = {"Barrier", "PageCache"}
    Faults = {"write", "barrier", "cut", "open"}
    Losses = {"process", "power", "damage"}
    MaxFrames = 3
    MaxLosses = 2
    MaxFolds = 1
SPECIFICATION Spec
CHECK_DEADLOCK FALSE
INVARIANT TypeOK
INVARIANT PromisedIsServed
INVARIANT ServedIsPrefix
INVARIANT IntactIsKept
INVARIANT HeaderNamesFrames
INVARIANT AppendsAtFrames
