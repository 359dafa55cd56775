SPECIFICATION Spec
CONSTANTS
    Agents = {a1, a2}
    NoAgent = NoAgent
    Calls = {c1, c2}
    NoCall = NoCall
    Tools <- AllTools
    NoTool = NoTool
    Ops <- AllOps
    CHAT_RETRIES = 2
    MaxLen = 7
    MaxPending = 1
SYMMETRY Symmetry
INVARIANTS
    TypeOK
    NoDeadSpinner
    EveryMessageHasCheckpoint
    NoAbortForgotten
    RunsAtMostOnce
PROPERTIES
    InterruptedIsSilent
    DeniedNeverRuns
CHECK_DEADLOCK FALSE
