\* Two Deployments that share the copy of the object, one call at a time.
SPECIFICATION OrderedSpec
CONSTANTS
  NumComponents = 3
  NilSenders <- AllDeployed
  PatchesFinalizer = TRUE
  MaxVersion = 1
  MaxChanges = 2
  MaxFaults = 0
  MaxLeftovers = 0
INVARIANTS
  StatusEqualsReplicas
