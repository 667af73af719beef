\* Four runs on four days, two times a day but one on the last, which is not one of
\* full exports; checkpoints are retained for a day.
CONSTANTS
  None = None
  Vms = {1, 2}
  Family <- MCFamily
  Hours = 2
  ExportDays = {0, 1, 2}
  RetainDays = 1
  KeepExports = 2
  MaxTime = 6
  MaxRuns = 4
  MaxFaults = 1
SPECIFICATION Spec
INVARIANTS
  TypeOK
  NeverWithout
  YoungCheckpointsKept
  NewestExportKept
CHECK_DEADLOCK FALSE
