SPECIFICATION Spec
CONSTANTS
    Files = {f1, f2}
    Opened = {f1}
    None = None
    MaxMessages = 7
    MaxChanges = 2
INVARIANTS
    StandsExactly
    RoundTrip
CHECK_DEADLOCK FALSE
