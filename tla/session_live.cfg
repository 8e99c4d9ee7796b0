\* Two threads, every call there is, last-writer-wins commits included: what a call
\* may change, and that every call returns.
CONSTANTS
    Clients = {c1, c2}
    Cells = {1, 2, 3, 4}
    Writes = {w1, w2}
    Attempts = 2
    Level = "normal"
    Calls = {"tx", "lww", "auto", "closure", "config", "direct", "transact", "lock", "retire", "checkpoint"}
    NoClient = NoClient
    NoCell = NoCell
    NoView = NoView
SPECIFICATION FairSpec
CHECK_DEADLOCK FALSE
INVARIANT FailedIsInvisible
PROPERTY SnapshotIsStable
PROPERTY VersionNeverFalls
PROPERTY CallsReturn
