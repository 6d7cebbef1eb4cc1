SPECIFICATION Spec
CONSTANTS
  MaxQueries = 1
  MaxSaves = 1
  Callbacks = {}
  Clients = {net}
  Worker = Worker
  Disp = Disp
PROPERTIES WorkerEnds
CHECK_DEADLOCK FALSE
