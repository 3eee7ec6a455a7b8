SPECIFICATION Spec
CONSTANTS
  MaxDay = 1
  MaxTime = 3
  PeriodEnd = 1
  Key = {k1, k2, k3}
  Handler = {h1, h2}
  CoordinatorSerializes = FALSE
  MeasuredCodes = {}
PROPERTY EventsAreShifts
CHECK_DEADLOCK FALSE
