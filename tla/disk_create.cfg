\* Another process loads and saves while the create is still returning.
CONSTANTS
    Handles = {1, 2}
    Processes = {{1}, {2}}
    Creators = {1}
    CreatesAlone = FALSE
    Lineages = {1, 2}
    KeepPrevious = 1
    Faults = {}
    Budgets <- CalmBudgets
SPECIFICATION Spec
CHECK_DEADLOCK FALSE
INVARIANT SavedStays
