CONSTANTS
    Good <- MCGood
    Bad <- MCBad
    Rendering <- MCRendering
    Foreign = "foreign"
    None = "none"
    MaxEdits = 2
    MaxFaults = 1
SPECIFICATION Spec
INVARIANTS
    TypeOK
    QuietIsSettled
PROPERTIES
    ImplementsLiveView
    Settles
    StopEnds
