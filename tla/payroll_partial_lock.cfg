SPECIFICATION Suite
CONSTANTS
  Employee = {e1, e2}
  Period = {p1, p2, p3}
  Flight = {f1}
  Days <- ThreePeriods
  Opening <- Advances
  Installment <- Installments
  MaxRuns = 2
  CoordinatorSerializes = TRUE
  MayStop = TRUE
  Copy = {c1, c2, c3}
  MaxRetries = 1
  ConsumersMayStop = TRUE
  e1 = e1
  e2 = e2
  p1 = p1
  p2 = p2
  p3 = p3
  a1 = a1
  a2 = a2
  u1 = u1
  u2 = u2
  f1 = f1
  f2 = f2
INVARIANT RefusedLocksAreUndone
CHECK_DEADLOCK FALSE
