\* One login after the other, of one key.
SPECIFICATION LoginLimiterSpec
CONSTANTS
  LimitKeys = {1}
  LoginCount = 1
  LoginWindow = 2
  LoginMaxFailures = 3
  LoginBlockDuration = 3
  LoginMaxEntries = 1
  LoginDuration = 0
  MaxLoginClock = 3
  MaxLogins = 6
INVARIANTS
  FailuresPerWindow
\* The number of logins is bounded.
CHECK_DEADLOCK FALSE
