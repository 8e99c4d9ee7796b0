\* Two handles of one process and one of another; every failure, crash and revocation.
CONSTANTS
    Handles = {1, 2, 3}
    Processes = {{1, 2}, {3}}
    Creators = {1}
    CreatesAlone = TRUE
    Lineages = {1, 2, 3, 4}
    KeepPrevious = 1
    Faults = {"begin", "rename", "list", "select", "root", "finish"}
    Budgets <- SmallBudgets
SPECIFICATION Spec
CHECK_DEADLOCK FALSE
INVARIANT SavedStays
INVARIANT SelectedResolves
INVARIANT PublishesAlone
PROPERTY ReadersKeepFiles
