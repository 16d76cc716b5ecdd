SPECIFICATION Spec
CONSTANTS
  Tabs = {t1, t2}
  MAX_LOGIN_FAILURES = 2
  MAX_FAILURES = 2
  Lockout = 2
  ChallengeTtl = 2
  MaxTime = 3
  MaxRequests = 6
  MaxSecrets = 2
INVARIANTS SecondFactorFirst CodesWorkOnce LocksForCause
CHECK_DEADLOCK FALSE
