SPECIFICATION Spec
CONSTANTS
    Files = {f1}
    Opened = {f1}
    Edits = {e1}
    NoEdit = NoEdit
    Typing = Typing
    NoZone = NoZone
    NoSnap = NoSnap
    NoJob = NoJob
    Modes <- OnlyFast
    AutoAccept <- Off
    N_RETRIES = 3
    MaxHistory = 2
INVARIANTS
    SweepHasRequest
CHECK_DEADLOCK FALSE
