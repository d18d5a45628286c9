CONSTANTS
    p1 = p1
    p2 = p2
    p3 = p3
    QHs <- MCQHs
    Intervals <- MCIntervals
    N = 4
    NULL = NULL
SYMMETRY MCSymmetry
SPECIFICATION Spec
INVARIANT HwServesEveryPeriod
