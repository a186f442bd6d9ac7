\* Two objects of one name, every kind of disturbance.
SPECIFICATION FairSpec
CONSTANTS
  e1 = e1
  e2 = e2
  Environments = {e1, e2}
  NoEnvironment = NoEnvironment
  NameOf <- OneName
  Disturbances <- Kinds
  MaxSpent = 2
  MaxAdded = 3
INVARIANTS
  TypeOK
  FinalizerAfterId
  OneEnvironmentPerName
PROPERTIES
  StatusIdStable
  Settles
  DeletionCompletes
\* The system comes to rest when nobody does anything.
CHECK_DEADLOCK FALSE
