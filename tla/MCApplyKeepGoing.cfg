\* Two runs of a small manifest, with and without --keep-going.
CONSTANTS
  None = None
  Labs <- PairLabs
  Hosts <- MCHosts
  Labels <- MCLabels
  Invocations <- KeepGoingInvocations
  NodeOf <- MCNodeOf
  MaxRuns = 2
SPECIFICATION FairSpec
INVARIANTS
  CompleteMeansProvisioned
  OneCreatePerRun
PROPERTY ApplyEnds
CHECK_DEADLOCK FALSE
