SPECIFICATION MCSpec
CONSTANTS
    Procs = {p1, p2, p3}
    None = None
    Timeouts = FALSE
    MaxCrashes = 2
INVARIANTS OwnAnswer OwnCommand OwnTransaction
PROPERTY BusesRecover
