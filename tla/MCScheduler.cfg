SPECIFICATION Spec
CONSTANTS
  e1 = e1  e2 = e2  e3 = e3
  Events <- MCEvents
  Delay <- MCDelay
  IdMod = 2
  MaxTime = 1
INVARIANTS Inv
PROPERTIES UnstoppedFires ThreadEnds
CHECK_DEADLOCK FALSE
