\* Two administrators, both tools, commands that fail or come late.
CONSTANTS
  None = None
  pbs01 = pbs01
  main = main
  tape = tape
  disk1 = disk1
  disk2 = disk2
  few = few
  many = many
  Servers = {pbs01}
  Names = {main, tape}
  Paths = {disk1, disk2}
  Policies = {few, many}
  Admins = {alice, bob}
  Requests <- MCRequests
  MaxCalls = 3
SPECIFICATION Spec
SYMMETRY AdminSymmetry
INVARIANTS
  TypeOK
  JobHasDatastore
  ZeroMeansConfigured
CHECK_DEADLOCK FALSE
