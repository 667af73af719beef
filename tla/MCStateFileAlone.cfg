\* Processes one at a time, from a file that is not there.
CONSTANTS
  create1 = create1
  create2 = create2
  start1 = start1
  destroy1 = destroy1
  list = list
  None = None
  Missing = Missing
  Empty = Empty
  Procs = {create1, create2, start1, destroy1, list}
  Writers <- MCWriters
  Contents <- MCContents
  Initial <- NoVms
  Edit <- MCEdit
  Start = Missing
  Entrypoint = "leave"
  Alone = TRUE
  MaxRestarts = 2
SPECIFICATION Spec
INVARIANT AloneInv
PROPERTY ActsAtomically
CHECK_DEADLOCK FALSE
