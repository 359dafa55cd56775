SPECIFICATION Spec
CONSTANTS
    Files = {f1, f2}
    Opened = {f1}
    Edits = {e1, e2}
    NoEdit = NoEdit
    Typing = Typing
    NoZone = NoZone
    NoSnap = NoSnap
    NoJob = NoJob
    Modes <- AllModes
    AutoAccept <- Either
    N_RETRIES = 3
    MaxHistory = 2
SYMMETRY Symmetry
INVARIANTS
    TypeOK
    SpinnerIsLive
    UndoReachesStream
PROPERTIES
    StopRestores
    StopWorks
CHECK_DEADLOCK FALSE
