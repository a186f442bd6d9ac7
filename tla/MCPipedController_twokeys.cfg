\* Two objects under names of their own, nothing goes wrong.
SPECIFICATION Spec
CONSTANTS
  p1 = p1
  p2 = p2
  Pipeds = {p1, p2}
  NoPiped = NoPiped
  NameOf <- OwnNames
  Disturbances <- NoDisturbance
  MaxSpent = 0
  MaxReg = 2
INVARIANTS
  KeyOfThisPiped
\* The system comes to rest when nobody does anything.
CHECK_DEADLOCK FALSE
