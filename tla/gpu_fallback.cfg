SPECIFICATION Spec
CONSTANTS
    NumLayers = 2
    Capacity = 5
    GpuCap = 3
    MaxRequests = 2
INVARIANT AttendsToOwnTokens
CHECK_DEADLOCK FALSE
