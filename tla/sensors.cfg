SPECIFICATION Spec
CONSTANTS
    Disks = {d1, d2}
    SensorFlags <- SomeSensors
    OutOfMemory = TRUE
    MaxChanges = 2
SYMMETRY DiskSymmetry
INVARIANTS IoInBounds OneOfEach EnabledHasContext CrashExplained
