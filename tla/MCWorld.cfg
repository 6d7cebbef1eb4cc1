SPECIFICATION MCSpec
CONSTANTS
  m1 = m1 m2 = m2 p1 = p1 h1 = h1 h2 = h2 s1 = s1 s2 = s2 s3 = s3 None = None
  pl = pl mo = mo r1 = r1 r2 = r2 q1 = q1 q2 = q2 q3 = q3
  Beasts = {m1, m2}
  Foes = {p1}
  Places = {1, 2, 3}
  SightRange = 0
  ViewRange = 1
  Rotting = {1}
  Kinds = {"young", "old", "paused", "off"}
  Decays = {"young", "old"}
  Duration <- MCDuration
  DecayTo <- MCDecayTo
  StopTime = {"paused"}
  Gone = "gone"
  MaxEntries = 2
  Last = 2
  Amount = 2
  Monsters = {s1, s2, s3}
  MaxLost = 1
  Owners = {h1, h2}
  Money <- MCMoney
  Things <- MCThings
  Rent = 1
  WarningLimit = 1
  MaxPaid = 1
  Bodies = {pl, mo}
  Souls = {pl}
  MaxRefs = 5
  Names = {r1, r2}
  Events <- MCEvents
  Repeats <- MCRepeats
  MaxLoads = 2
  MaxRuns = 3
  Customers = {q1, q2, q3}
  MaxPending = 3
SYMMETRY Symmetry
INVARIANTS TargetsInv DecayInv SpawnInv HouseInv LivesInv RaidsAndNpcsInv
CHECK_DEADLOCK FALSE
