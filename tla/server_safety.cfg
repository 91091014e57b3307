SPECIFICATION Spec
CONSTANTS
    Handlers = {h1, h2}
    NoThread = NoThread
    Cap = 1
    MaxSeqLen = 3
    Requests <- AllRequests
SYMMETRY Symmetry
INVARIANTS
    TypeOK
    ModelExclusion
    OwnKV
    HandOver
    NoFragmentLost
    ResponseComplete
    CancelBoundsWork
PROPERTIES
    AnswerIsFinal
    IsSerialService
CHECK_DEADLOCK FALSE
