SPECIFICATION FairSpec
CONSTANTS
    Procs = {p1, p2}
    Sources = {s1}
    Repositories = {r1}
    RepoOf <- SharedRepo
    NoFile = NoFile
    Closed = Closed
    MaxRev = 2
    MaxEdits = 0
    MaxCrashes = 2
PROPERTIES
    RecoveryCompletes
