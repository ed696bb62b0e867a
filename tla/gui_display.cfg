SPECIFICATION Spec
CONSTANTS
    Malloc <- LeastFree
    NULL = NULL
    Jobs = {"1M", "DISPLAY"}
    Trees = {1, 2, 3, 4, 5}
    MayFail = TRUE
INVARIANTS HeapOwned LockedMenuSafe
PROPERTY DrawSeesStableTrees
