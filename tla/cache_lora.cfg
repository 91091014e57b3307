SPECIFICATION Spec
CONSTANTS
    Procs = {p1, p2}
    NoInode = NoInode
    Base = base
    l1 = l1
    l2 = l2
    Loras = {l1, l2}
    ArgLists <- UpToTwo
    N = 2
    MaxVersion = 1
    Changing = {base, l1, l2}
INVARIANT ServesItsFiles
CHECK_DEADLOCK FALSE
