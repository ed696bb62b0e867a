SPECIFICATION Spec
CONSTANTS
    Procs = {1}
    Free = Free
    Ops <- BothOps
    LastSlot = 1
    Module <- AllDDR5
    Byte11 <- Zero
    Byte130 = "other"
    HubPages = {0, 1, 4, 5, 6}
    MaxTimeouts = 0
    MaxCrashes = 0
    MaxFaults = 0
INVARIANT RightPage
