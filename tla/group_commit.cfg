\* Three calls, batches of two, one commit that does not group; every fault.
CONSTANTS
    s1 = s1
    s2 = s2
    s3 = s3
    o1 = o1
    NoOne = NoOne
    Statements = {s1, s2, s3}
    Others = {o1}
    MaxBatch = 2
    Faults = {"append", "barrier", "fork", "panic", "retire"}
SPECIFICATION FairSpec
CHECK_DEADLOCK FALSE
INVARIANT OneBaton
INVARIANT PublishedIsDurable
INVARIANT LogIsGraph
INVARIANT FailedIsNowhere
INVARIANT WaitsTwoBatches
PROPERTY EveryWriterAnswered
