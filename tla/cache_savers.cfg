SPECIFICATION Spec
CONSTANTS
    Procs = {p1, p2, p3}
    NoInode = NoInode
    Base = base
    l1 = l1
    l2 = l2
    Loras = {l1}
    ArgLists <- OneLora
    N = 2
    MaxVersion = 0
    Changing = {l1}
INVARIANT ServesItsFiles
CHECK_DEADLOCK FALSE
