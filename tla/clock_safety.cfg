SPECIFICATION Spec
CONSTANTS
  MaxDay = 2
  MaxTime = 4
  PeriodEnd = 1
  Key = {k1, k2, k3, k4}
  Handler = {h1, h2}
  CoordinatorSerializes = TRUE
  MeasuredCodes = {}
SYMMETRY Symmetry
INVARIANTS
  NoEventLost
  TablesAgree
PROPERTY EventsAreShifts
CHECK_DEADLOCK FALSE
