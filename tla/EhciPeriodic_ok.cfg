CONSTANTS
    p1 = p1
    p2 = p2
    p3 = p3
    QHs <- MCQHs
    Intervals <- MCIntervals
    N = 4
    NULL = NULL
SYMMETRY MCSymmetry
SPECIFICATION Spec
INVARIANT TypeOK
INVARIANT HwChainIsDriverPrefix
INVARIANT ChainsHoldOnlyLinked
INVARIANT ChainOrdered
INVARIANT PeriodHonoursInterval
