\* Three runs that stop at the first failure, on every manifest.
CONSTANTS
  None = None
  Labs <- MCLabs
  Hosts <- MCHosts
  Labels <- MCLabels
  Invocations <- StrictInvocations
  NodeOf <- MCNodeOf
  MaxRuns = 3
SPECIFICATION FairSpec
INVARIANTS
  TypeOK
  HaResourceHasVm
  StartOrderPrefix
  VmidNamesOneVm
  HaOnlyInCluster
  CompleteMeansProvisioned
  PlanShowsApply
PROPERTY ApplyEnds
CHECK_DEADLOCK FALSE
