SPECIFICATION Spec
CONSTANTS
    Malloc <- LeastFree
    NULL = NULL
    Jobs = {"1S", "SPD"}
    Trees = {1, 2, 3, 4, 5, 6}
    MayFail = FALSE
INVARIANTS NoLostWakeup ToolbarHidden ExitServesAll
PROPERTY ImplementsQueue
