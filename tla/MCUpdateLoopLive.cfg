SPECIFICATION FairSpec
CONSTANTS
    Sources <- MCOneSource
    Contents <- MCContents
    None = None
    MaxRejections = 1
    Capacity = 2
    Requests <- MCRetries
    MaxRuns = 2
    MaxSha = 1
    MaxReruns = 1
INVARIANTS
    TypeOK
PROPERTIES
    CandidatesSettle
