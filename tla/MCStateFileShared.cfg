\* Overlapping processes on a file the entry point made.
CONSTANTS
  create1 = create1
  create2 = create2
  start1 = start1
  destroy1 = destroy1
  list = list
  None = None
  Missing = Missing
  Empty = Empty
  Procs = {create1, create2, start1, destroy1}
  Writers <- MCWriters
  Contents <- MCContents
  Initial <- NoVms
  Edit <- MCEdit
  Start <- NoVms
  Entrypoint = "reset"
  Alone = FALSE
  MaxRestarts = 1
SPECIFICATION Spec
INVARIANTS
  StaysValid
  SerialWithoutRivals
CHECK_DEADLOCK FALSE
