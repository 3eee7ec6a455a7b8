SPECIFICATION Suite
CONSTANTS
  Flight = {f1, f2}
  MaxDate = 3
  CoordinatorSerializes = TRUE
  MayStop = TRUE
  f1 = f1
  f2 = f2
  dev = dev
  a1 = a1
  m1 = m1
  m2 = m2
  e1 = e1
  e2 = e2
  e3 = e3
  none = none
  o1 = o1
  o2 = o2
  Name = {n1, n2}
  Number = {k1}
  w1 = w1
  s1 = s1
  s2 = s2
  any = any
  d1 = d1
  u1 = u1
  binding = binding
  nobinding = nobinding
SYMMETRY Symmetry
INVARIANTS
  OneInForce
  AdministrationHoldsTogether
PROPERTIES
  HistoryIsFixed
  ReadersAgree
CHECK_DEADLOCK FALSE
