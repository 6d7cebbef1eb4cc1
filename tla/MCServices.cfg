SPECIFICATION MCSpec
CONSTANTS
  p1 = p1 p2 = p2 net = net None = None
  Plans <- MCPlans
  Cooldowns <- MCCooldowns
  MinDelay = 2
  MaxDelay = 3
  MaxOrders = 3
  MaxQueued = 2
  SetUpFails = TRUE
  Ports = {7171, 7172}
  Threads = {"scheduler", "dispatcher"}
  Dispatcher = "dispatcher"
  Protocols = {p1, p2}
  Sizes = {1, 24571, 24575}
  MaxMessages = 2
  Clients = {net}
  Game = "dispatcher"
  MaxSaves = 2
  MaxLosses = 2
  wk = wk ds = ds
  MaxQueries = 4
  MaxFlushes = 2
  Callbacks = {1, 3}
  Askers = {net}
  Worker = wk
  Disp = ds
INVARIANTS Inv LifeInv NetworkInv StorageInv
PROPERTIES QueueMoves NetworkMoves ServerEnds StorageEnds
CHECK_DEADLOCK FALSE
