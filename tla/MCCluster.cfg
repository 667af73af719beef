\* Two operators, somebody at the consoles, restarts and late commands.
CONSTANTS
  None = None
  Manifest <- Four
  Nodes <- MCNodes
  Fallback = 1
  Operators = {alice, bob}
  Requests <- MCRequests
  Console <- MCConsole
  MaxCalls = 4
SPECIFICATION Spec
INVARIANTS
  TypeOK
  MovesWithinCluster
  FencedOnFencedNode
PROPERTY FencedByItselfAtConsole
CHECK_DEADLOCK FALSE
