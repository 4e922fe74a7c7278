\* One session slot, two ids, two handlers with commands, two process ids.  The clock
\* stands still, so that sessions leave by eviction only.
SPECIFICATION FairSpec
CONSTANTS
  Session = {s1, s2}
  Request = {r1, r2}
  Group = {g1, g2}
  Sweeper = sweeper
  None = none
  MaxSessions = 1
  Timeout = 1
  MaxTime = 0
  MaxRestarts = 0
INVARIANTS
  
  TrackedGroupHasOwner
PROPERTY HandlersReturn
