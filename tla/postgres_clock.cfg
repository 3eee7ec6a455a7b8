SPECIFICATION SuiteSpec
CONSTANTS
  MaxDay = 2
  MaxTime = 2
  PeriodEnd = 1
  Key = {k1, k2}
  Handler = {h1, h2}
  NoHandler = none
  MeasuredCodes = {}
INVARIANT NoEventLost
PROPERTIES
  OnlyRacesChangeLocked
  EveryRequestIsAnswered
CHECK_DEADLOCK FALSE
