SPECIFICATION FairSpec
CONSTANTS
  Session = {s1, s2}
  Request = {r1, r2}
  Group = {}
  Sweeper = sweeper
  None = none
  MaxSessions = 1
  Timeout = 1
  MaxTime = 2
  MaxRestarts = 1
PROPERTY ExpiredIsReclaimed
