SPECIFICATION Suite
CONSTANTS
  Session = {s1, s2, s3}
  ResetToken = {k1, k2}
  Flight = {r1, r2}
  NoSession = NoSession
  MaxVersion = 2
  CoordinatorSerializes = FALSE
  MayStop = TRUE
  Tab = {t1, t2}
  MayLose = TRUE
  k2 = k2
  t1 = t1
  LockoutAttempts = 3
  MaxFailed = 6
  Secret = {g1, g2}
  Code = {c1, c2, c3}
  NoSecret = NoSecret
SYMMETRY Symmetry
INVARIANTS
  ExchangedOnce
  OneUsablePerFamily
  SessionsAreSound
  SignInsAreGuarded
PROPERTIES
  FamilyEndsForGood
  OneTabStaysSignedIn
CHECK_DEADLOCK FALSE
