SPECIFICATION Spec
CONSTANTS
  Session = {s1, s2, s3}
  Request = {r1, r2}
  Group = {}
  Sweeper = sweeper
  None = none
  MaxSessions = 2
  Timeout = 1
  MaxTime = 2
  MaxRestarts = 0
PROPERTY ExpiryHonoursTouch
