SPECIFICATION FairSpec
CONSTANTS
    Handlers = {h1, h2}
    NoThread = NoThread
    Cap = 1
    MaxSeqLen = 2
    Requests <- FewRequests
PROPERTIES
    EveryRequestEnds
    WorkerComesBack
    ShutdownJoins
CHECK_DEADLOCK FALSE
