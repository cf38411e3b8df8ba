SPECIFICATION Spec
CONSTANTS
    Sources <- MCSources
    Contents <- MCContents
    None = None
    MaxRejections = 2
    Capacity = 2
    Requests <- MCNoRetry
    MaxRuns = 2
    MaxSha = 1
    MaxReruns = 1
INVARIANTS OneCandidate CountIsHonest
PROPERTIES LedgerForward RejectionsKept ActiveNotClosed
