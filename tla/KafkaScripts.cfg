SPECIFICATION FairSpec
CONSTANTS
  Workers = 2
  Capacity = 2
  MaxFaults = 1
  Queries <- MCQueries
  Rows = 1
  MaxCopies = 2
  MaxRounds = 2
  MaxLives = 2
  MaxDevices = 2
  LastTick = 1
  TicksPerDay = 2
  Timezone <- MCTimezone
  Versions = 3
  Initial <- MCInitial
  Release <- MCRelease
  Enforced <- MCEnforced
  MaxAssigns = 2
INVARIANTS
  TypeOK
  EventsAccounted
  ConsumerSeesState
  
PROPERTY ScriptsEnd
CHECK_DEADLOCK FALSE
