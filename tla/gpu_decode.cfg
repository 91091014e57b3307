SPECIFICATION Spec
CONSTANTS
    NumLayers = 2
    Capacity = 5
    GpuCap = 3
    MaxRequests = 2
INVARIANTS
    DecodeTypeOK
    ForeignOnlyAfterFallback
CHECK_DEADLOCK FALSE
