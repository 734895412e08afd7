SPECIFICATION Spec
CONSTANTS
  Browsers = {b1}
  States = {st1}
  SessionIds = {s1}
  None = none
  Requests = {r1, r2}
  MaxTokens = 3
  MaxTries = 2
  MaxCrashes = 1
INVARIANT LogoutEndsSession
CHECK_DEADLOCK FALSE
