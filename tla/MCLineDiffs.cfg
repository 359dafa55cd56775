SPECIFICATION Spec
CONSTANTS
    Chars = {a, b}
    a = a
    b = b
    MaxLines = 4
    MaxCode = 2
    MaxTyping = 1
INVARIANTS
    ZoneTracks
    LiveWhileDifferent
PROPERTIES
    RejectRestores
    AcceptSettlesOne

SYMMETRY Symmetry
