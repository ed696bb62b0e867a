SPECIFICATION Spec
CONSTANTS
    Disks = {d1, d2}
    SensorFlags = {"SMART"}
    OutOfMemory = FALSE
    MaxChanges = 1
SYMMETRY DiskSymmetry
INVARIANT SmartInBounds
