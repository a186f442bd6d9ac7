\* One block, no finalizer: Minio and Mongo.
SPECIFICATION FairStorageSpec
CONSTANTS
  NumComponents = 1
  Storages = {"omitted", "emptyDir", "claim"}
  NilSenders = {}
  PatchesFinalizer = FALSE
  MaxVersion = 2
  MaxFaults = 1
  MaxLeftovers = 1
INVARIANTS
  StorageTypeOK
PROPERTIES
  KeepsContract
  NilMeansApplied
  Converges
