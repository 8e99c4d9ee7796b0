\* Three threads; every call that moves the version, every commit checking it.
CONSTANTS
    Clients = {c1, c2, c3}
    Cells = {1, 2, 3, 4, 5}
    Writes = {w1, w2, w3}
    Attempts = 2
    Level = "normal"
    Calls = {"tx", "auto", "closure", "direct", "transact", "retire", "checkpoint"}
    NoClient = NoClient
    NoCell = NoCell
    NoView = NoView
SPECIFICATION Spec
SYMMETRY ThreadSymmetry
CHECK_DEADLOCK FALSE
INVARIANT NoLostUpdate
INVARIANT SkippedCheckpointIsCurrent
PROPERTY RetiredEndsCommits
PROPERTY ImplementsSnapshotStore
