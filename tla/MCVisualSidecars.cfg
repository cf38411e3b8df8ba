CONSTANTS
    Procs = {p1}
    Good = {g1}
    Sloppy = {}
    Bad = {b1}
    NoFile = NoFile
    MaxEdits = 0
    MaxFaults = 1
    Views = 2
SPECIFICATION Spec
INVARIANT BrokenRunLeavesNoShots
CHECK_DEADLOCK FALSE
