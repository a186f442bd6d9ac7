\* One Deployment, two versions, a failing call, a leftover call.
SPECIFICATION FairOrderedSpec
CONSTANTS
  NumComponents = 2
  NilSenders <- AllDeployed
  PatchesFinalizer = TRUE
  MaxVersion = 2
  MaxChanges = 1
  MaxFaults = 1
  MaxLeftovers = 1
INVARIANTS
  MountedBeforeRollout
PROPERTIES
  KeepsContract
  Converges
