SPECIFICATION FairSpec
CONSTANTS
    Procs = {p1, p2}
    NoProc = NoProc
    Commands = {c1, c2}
    NoBridge = NoBridge
    Natives = {n1}
    NoNative = NoNative
    Ops = {"start", "verify", "clear", "bind"}
    Starts = {"spec"}
    Unsteady = {}
    AttemptLimit = 1
    MaxSaves = 3
    MaxRuns = 2
    MaxDamage = 0
PROPERTIES
    RecordedOnSnapshot
    BridgeCreateOnly
    CommandsEnd
