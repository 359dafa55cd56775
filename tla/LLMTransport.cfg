SPECIFICATION Spec
CONSTANTS
    Requests = {r1, r2}
    MaxText = 2
    MaxQueue = 1
    MaxAborts = 1
INVARIANTS
    HooksOfOpen
PROPERTIES
    KeepsPromise
    AbortedIsForgotten
CHECK_DEADLOCK FALSE
