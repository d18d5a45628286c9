CONSTANTS
    a1 = a1
    a2 = a2
    a3 = a3
    QHs <- MCQHs
    Dummy = Dummy
    NULL = NULL
    MaxQhPool = 1
    MaxPipeOps = 6
    MaxTrans = 2
SPECIFICATION Spec
INVARIANT TypeOK
INVARIANT QhOwnership
INVARIANT HwRingClosed
PROPERTY AsyncRefined
PROPERTY QhVisited
