\* Two runs of labctl or the script beside each other.
CONSTANTS
  None = None
  Labs <- MCLabs
  Hosts <- MCHosts
  Runners = {night, day}
  Requests <- MCRequests
  MaxRuns = 2
  MaxTime = 1
SPECIFICATION FairSpec
INVARIANTS
  TypeOK
  OnlyEnabledJobs
  ZeroMeansBackedUp
PROPERTY BackupsEnd
CHECK_DEADLOCK FALSE
