SPECIFICATION Spec
CONSTANTS
    Procs = {p1, p2}
    Slugs = {f1, f2}
    Bodies = {b1, b2}
    Hand = Hand
    None = None
    MaxUpsets = 1
SYMMETRY FeatureSymmetry
INVARIANTS
    TypeOK
PROPERTIES
    NothingLost
    ReadyIsProven
    BatchWhole
