CONSTANTS
    Procs = {p1, p2}
    Good = {g1}
    Sloppy = {s1}
    Bad = {b1}
    NoFile = NoFile
    MaxEdits = 1
    MaxFaults = 3
    Views = 2
SYMMETRY Sym
SPECIFICATION Spec
INVARIANTS TypeOK PairConsistent SidecarsBelong
PROPERTIES EndsClean
CHECK_DEADLOCK FALSE
CONSTRAINT OneBeside
