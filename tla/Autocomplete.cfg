SPECIFICATION AutoSpec
CONSTANTS
    Documents = {d1, d2}
    MaxRequests = 4
    MAX_CACHE_SIZE = 3
    MAX_PENDING_REQUESTS = 2
    MaxWaiting = 2
INVARIANTS
    PendingBounded
    NoOrphanRequest
PROPERTIES
    EveryCallReturns
CHECK_DEADLOCK FALSE
