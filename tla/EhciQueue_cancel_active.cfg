CONSTANTS
  t1 = t1  t2 = t2  t3 = t3  q1 = q1  q2 = q2  q3 = q3  q4 = q4
  Trans <- MCTrans
  Qtds <- MCQtds
  QtdCount <- MCQtdCount
  MaxQtdPool = 2
  MaxSubmit = 1
  MaxCancel = 1
  MaxHcErrors = 0
  INVALID = INVALID
  NONE = NONE
SPECIFICATION Spec
INVARIANT HwRefsLive
CHECK_DEADLOCK FALSE
