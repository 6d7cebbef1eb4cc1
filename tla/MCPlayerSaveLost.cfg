SPECIFICATION Spec
CONSTANTS
  Clients = {net}
  Game = dispatcher
  MaxSaves = 2
  MaxLosses = 2
  None = none
PROPERTIES SuccessIsStored
CHECK_DEADLOCK FALSE
