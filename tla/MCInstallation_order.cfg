\* Two ControlPlanes, an Environment and a Piped, in any order.
SPECIFICATION FairSpec
CONSTANTS
  c1 = c1
  c2 = c2
  ControlPlanes = {c1, c2}
  Environment = Environment
  Piped = Piped
  NoObject = NoObject
  MaxSpent = 2
INVARIANTS
  TypeOK
PROPERTIES
  ComesUp
  ComesDown
\* The system comes to rest when nobody does anything.
CHECK_DEADLOCK FALSE
