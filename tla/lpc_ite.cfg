SPECIFICATION Spec
CONSTANTS
    Procs = {p1, p2}
    Chips <- MCChips
    MaxCrashes = 1
PROPERTY LeftAlone
