\* pbs-backup.sh for one VM.
CONSTANTS
  None = None
  Labs <- MCLabs
  Hosts <- MCHosts
  Runners = {night}
  Requests <- VmRequests
  MaxRuns = 1
  MaxTime = 1
SPECIFICATION Spec
INVARIANT ScriptBacksUpVm
CHECK_DEADLOCK FALSE
