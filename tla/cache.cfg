SPECIFICATION Spec
CONSTANTS
    Procs = {p1, p2, p3}
    NoInode = NoInode
    Base = base
    l1 = l1
    l2 = l2
    Loras = {l1}
    ArgLists <- NoneOrOne
    N = 2
    MaxVersion = 1
    Changing = {l1}
SYMMETRY Symmetry
INVARIANTS
    CacheTypeOK
    
    
    PublishedFromOneMerge
PROPERTY PublishedIsFrozen
CHECK_DEADLOCK FALSE
