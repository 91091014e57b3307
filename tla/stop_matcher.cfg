SPECIFICATION Spec
CONSTANTS
    a = a
    b = b
    MaxText = 7
    Chars <- MCChars
    Pieces <- MCPieces
    PatternLists <- MCPatternLists
INVARIANTS
    StopTypeOK
    NoStopLeaks
    NoStopMissed
    HeldTextComesOut
CHECK_DEADLOCK FALSE
