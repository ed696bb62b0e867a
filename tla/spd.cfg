SPECIFICATION MCSpec
CONSTANTS
    Procs = {p1, p2}
    Free = Free
    Ops <- BothOps
    LastSlot = 2
    Module <- TwoDDR4
    Byte11 <- Three
    Byte130 = "other"
    HubPages = {0, 1}
    MaxTimeouts = 2
    MaxCrashes = 2
    MaxFaults = 1
SYMMETRY Alike
INVARIANTS RightPage Recognised HubsRecognised PagesRestored
PROPERTY OnlyHubsWritten
