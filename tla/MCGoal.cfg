SPECIFICATION Spec
CONSTANTS
    Procs = {p1, p2}
    NoProc = NoProc
    Commands = {c1}
    NoBridge = NoBridge
    Natives = {}
    NoNative = NoNative
    Ops = {"start", "verify", "resume", "clear"}
    Starts = {"explicit"}
    Unsteady = {c1}
    AttemptLimit = 2
    MaxSaves = 4
    MaxRuns = 2
    MaxDamage = 1
SYMMETRY ProcSymmetry
INVARIANTS
    TypeOK
    StoredStateValid
    Exclusion
    EvidenceIsOwn
PROPERTIES
    EvidenceGrows
    NoStaleVerdict
    UnreadablePreserved
    ImplementsLifecycle
CONSTRAINT OneUpset
