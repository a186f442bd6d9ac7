\* Two objects under one name, no call fails after which a key is lost.
SPECIFICATION Spec
CONSTANTS
  p1 = p1
  p2 = p2
  Pipeds = {p1, p2}
  NoPiped = NoPiped
  NameOf <- OneName
  Disturbances <- KeySafe
  MaxSpent = 2
  MaxReg = 4
PROPERTIES
  KeyBelongsToId
\* The system comes to rest when nobody does anything.
CHECK_DEADLOCK FALSE
