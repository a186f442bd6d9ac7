\* Two ControlPlanes in one namespace.
SPECIFICATION FairSpec
CONSTANTS
  c1 = c1
  c2 = c2
  ControlPlanes = {c1, c2}
  NoControlPlane = NoControlPlane
  Blocks <- OnlyServer
  Disturbances <- DeletionAndOne
  Disturbed = {c1}
  MaxLeftovers = 1
INVARIANTS
  TypeOK
  PodsFindTheirFiles
  OneControlPlaneAtWork
PROPERTIES
  NeverStolen
  DeletionCompletes
  SurvivorServes
\* The system comes to rest when nobody does anything.
CHECK_DEADLOCK FALSE
