SPECIFICATION FairSpec
CONSTANTS
    Queries = 3
    Statements = 2
INVARIANTS TypeOK StrayOnlyIfLate QueryWatched
PROPERTY RoundsEnd
CHECK_DEADLOCK FALSE
