SPECIFICATION Spec
CONSTANTS
  s1 = s1 s2 = s2 s3 = s3 o1 = o1 o2 = o2 none = none
  Sessions = {s1, s2}
  Objects = {o1, o2}
  MaxPackets = 1
  MaxRefs = 4
  None = none
INVARIANTS PacketsFindSession
PROPERTIES LoginAnswered LogoutCompletes
CHECK_DEADLOCK FALSE
