\* Both levels; failing file operations, process crashes and power losses.
CONSTANTS
    Scenarios <- AllScenarios
    MaxCommits = 4
    MaxRewrites = 2
    MaxCrashes = 2
SPECIFICATION Spec
CHECK_DEADLOCK FALSE
INVARIANT PromisedSurvives
INVARIANT RefusedIsForgotten
INVARIANT AckedSurvivesCrash
INVARIANT RecoveredIsPrefix
INVARIANT LogDescribesGraph
