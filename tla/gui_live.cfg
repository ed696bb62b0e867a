SPECIFICATION FairSpec
CONSTANTS
    Malloc <- LeastFree
    NULL = NULL
    Jobs = {"DISK", "SMB"}
    Trees = {1, 2, 3, 4}
    MayFail = FALSE
PROPERTIES RequestServed LoadingEnds ExitTerminates
