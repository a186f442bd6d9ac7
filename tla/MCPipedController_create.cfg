\* One object and one failing ListPipeds.
SPECIFICATION Spec
CONSTANTS
  p1 = p1
  p2 = p2
  Pipeds = {p1}
  NoPiped = NoPiped
  NameOf <- OwnNames
  Disturbances <- OnlyListFails
  MaxSpent = 1
  MaxReg = 3
PROPERTIES
  CreatedOnlyIfMissing
\* The system comes to rest when nobody does anything.
CHECK_DEADLOCK FALSE
