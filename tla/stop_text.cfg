SPECIFICATION Spec
CONSTANTS
    a = a
    b = b
    MaxText = 7
    Chars <- MCChars
    Pieces <- MCPieces
    PatternLists <- MCPatternLists
INVARIANTS
    TextUpToStop
CHECK_DEADLOCK FALSE
