SPECIFICATION FairSpec
CONSTANTS
  MaxDay = 1
  MaxTime = 3
  PeriodEnd = 1
  Key = {k1, k2}
  Handler = {h1, h2}
  CoordinatorSerializes = FALSE
  MeasuredCodes = {}
INVARIANTS
  OneEventPerKey
  PayableDaysAreClean
PROPERTY OpenDaysEnd
CHECK_DEADLOCK FALSE
