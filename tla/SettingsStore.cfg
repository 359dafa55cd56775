SPECIFICATION Spec
CONSTANTS
    Models = {1, 2, 3}
    FIMModels = {2}
    Managed = {1, 3}
    DefaultModels = {1}
    Autodetected = {2}
    DefaultModel = 1
    None = None
    MaxChanges = 3
INVARIANTS
    TypeOK
    StoredIsShown
    SyncedIsSame
PROPERTIES
    ChangesSettle
CHECK_DEADLOCK FALSE
