SPECIFICATION FairSpec
CONSTANTS
    Windows = {w1}
    Servers = {s1, s2}
    None = None
    MaxActions = 2
INVARIANTS
    LockHasOwner
    StoredIsOpen
    OfferedIsStored
PROPERTIES
    LocksFreed
CHECK_DEADLOCK FALSE
