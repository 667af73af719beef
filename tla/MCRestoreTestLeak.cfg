\* A test started with labctl, nothing failing and nobody killing it.
CONSTANTS
  None = None
  Vmids <- MCVmids
  LabVms <- MCLabVms
  Backups <- MCBackups
  Testers = {day}
  Requests <- LabctlRequests
  MaxPolls = 2
  MaxTests = 1
  MaxFaults = 0
SPECIFICATION Spec
INVARIANT NoLeak
CHECK_DEADLOCK FALSE
