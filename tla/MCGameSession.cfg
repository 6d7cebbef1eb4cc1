SPECIFICATION Spec
CONSTANTS
  s1 = s1 s2 = s2 s3 = s3 o1 = o1 o2 = o2 none = none
  Sessions = {s1, s2, s3}
  Objects = {o1, o2}
  MaxPackets = 0
  MaxRefs = 5
  None = none
SYMMETRY Symmetry
INVARIANTS Inv
PROPERTIES NoTakeover
CHECK_DEADLOCK FALSE
