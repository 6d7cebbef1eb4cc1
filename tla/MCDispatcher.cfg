SPECIFICATION Spec
CONSTANTS
  t1 = t1  x1 = x1  c1 = c1  c2 = c2
  Tasks <- MCTasks
  TimedTasks <- MCTimedTasks
  CloseTasks <- MCCloseTasks
  ShutdownTask = ShutdownTask
  TerminateTask = TerminateTask
  Threads = {net, sched}
  Self = Self
  None = None
INVARIANTS NoLostWakeup NothingStranded
PROPERTIES IsSerialExecutor AcceptedTaskEnds ThreadEnds
CHECK_DEADLOCK FALSE
