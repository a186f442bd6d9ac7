\* The five blocks of the ControlPlane reconciler: general, gateway, server,
\* cache, ops; the last four may send a nil error.
SPECIFICATION FairSpec
CONSTANTS
  NumComponents = 5
  NilSenders = {2, 3, 4, 5}
  PatchesFinalizer = TRUE
INVARIANTS
  TypeOK
  NoWaitGroupMisuse
  RestAfterFirst
  FirstFailureReported
  OneFailureDelivered
PROPERTIES
  ReconcileReturns
  WaiterEnds
\* Every goroutine ends, or stays blocked for good on its send.
CHECK_DEADLOCK FALSE
