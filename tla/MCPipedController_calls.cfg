\* One object, everything but a failing ListPipeds.
SPECIFICATION FairSpec
CONSTANTS
  p1 = p1
  p2 = p2
  Pipeds = {p1}
  NoPiped = NoPiped
  NameOf <- OwnNames
  Disturbances <- NoListFailure
  MaxSpent = 3
  MaxReg = 5
INVARIANTS
  TypeOK
  FinalizerGuardsRegistration
  OneEnabledPerName
PROPERTIES
  DisabledBeforeGone
  RolloutAfterConfig
  DeletionCompletes
  DisableUnblocks
\* The system comes to rest when nobody does anything.
CHECK_DEADLOCK FALSE
