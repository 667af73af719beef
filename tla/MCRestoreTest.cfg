\* Two testers, whose tests may be of the same VM.  Dry runs are of cron.
CONSTANTS
  None = None
  Vmids <- MCVmids
  LabVms <- MCLabVms
  Backups <- MCBackups
  Testers = {night, day}
  Requests <- BothRequests
  MaxPolls = 2
  MaxTests = 2
  MaxFaults = 1
SPECIFICATION Spec
SYMMETRY TesterSymmetry
INVARIANTS
  TypeOK
  LabVmsAsWanted
  NoLeftover
  ZeroMeansBooted
PROPERTY TestsAdvance
CHECK_DEADLOCK FALSE
