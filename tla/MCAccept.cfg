SPECIFICATION Spec
CONSTANTS
    Procs = {p1, p2}
    Sources = {s1, s2}
    Repositories = {r1}
    RepoOf <- SharedRepo
    NoFile = NoFile
    Closed = Closed
    MaxRev = 2
    MaxEdits = 1
    MaxCrashes = 2
SYMMETRY AcceptSymmetry
INVARIANTS
    TypeOK
    MixedIsJournaled
PROPERTIES
    JournalBound
    EditsKept
    ImplementsHistory
