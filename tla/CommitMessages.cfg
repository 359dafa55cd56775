SPECIFICATION CommitSpec
CONSTANTS
    MaxAsks = 5
INVARIANTS
    RequestIsCurrent
    LoadingHasWork
PROPERTIES
    LoadingEnds
CHECK_DEADLOCK FALSE
