SPECIFICATION FairSpec
CONSTANTS
  Deployments <- MCDeployments
  BackoffLimit <- MCBackoffLimit
  Polls = 2
  Roles = 2
  MaxKills = 2
  MaxSyncs = 1
  MaxSource = 3
  Charts = 2
  OldRefs <- MCOldRefs
  Exported <- MCExported
  MaxEdits = 1
INVARIANTS
  TypeOK
  PublishedKeyWorks
  CompleteMeansReady
  SkipIsSafe
  ImportTypes
  ImportedOnce
  DashboardComplete
  ChartsBound
PROPERTIES
  CredentialsStable
  Converges
  ImportConverges
CHECK_DEADLOCK FALSE
