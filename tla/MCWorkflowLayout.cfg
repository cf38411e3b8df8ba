SPECIFICATION FairSpec
CONSTANTS
    Diagrams <- MCDiagrams
    MaxRounds = 3
INVARIANT RequestsAreNew
PROPERTIES GrantsLast CompileEnds
CHECK_DEADLOCK FALSE
