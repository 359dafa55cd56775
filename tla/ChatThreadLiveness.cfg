SPECIFICATION Spec
CONSTANTS
    Agents = {a1, a2}
    NoAgent = NoAgent
    Calls = {c1}
    NoCall = NoCall
    Tools <- LivenessTools
    NoTool = NoTool
    Ops <- AllOps
    CHAT_RETRIES = 2
    MaxLen = 5
    MaxPending = 1
PROPERTIES
    BusyEnds
    AbortsComplete
CHECK_DEADLOCK FALSE
