SPECIFICATION Spec
CONSTANTS
    c1 = c1
    c2 = c2
    c3 = c3
    Calls = {c1, c2, c3}
    None = None
    May <- KindsOfCalls
    Renamed = {c1}
    Relaunched = {c1}
INVARIANTS
    FirstUntilExit
    NoHiddenLeft
PROPERTIES
    CallsSettle
CHECK_DEADLOCK FALSE
