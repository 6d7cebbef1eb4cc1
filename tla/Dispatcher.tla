----------------------------- MODULE Dispatcher -----------------------------
(***************************************************************************)
(* The dispatcher (tasks.h, tasks.cpp): one thread runs, in batches, the   *)
(* tasks that the network thread, the scheduler thread, the database       *)
(* thread and the tasks themselves hand to it.  All of the game state is   *)
(* touched from this thread only, so its queue is the server's             *)
(* serialisation point.                                                    *)
(*                                                                         *)
(* A critical section (taskLock held) is one step.  Between two critical   *)
(* sections every interleaving is possible: addTask notifies after it has  *)
(* released the lock, and threadMain tests the thread state before it      *)
(* takes it.  The condition variable may wake the thread spuriously.       *)
(*                                                                         *)
(* Three tasks are told apart by what they do to the dispatcher itself:    *)
(* a close task runs Game::setGameState(GAME_STATE_SHUTDOWN), which posts  *)
(* ShutdownTask (Game::shutdown) and stops the dispatcher; ShutdownTask    *)
(* calls Dispatcher::shutdown, which posts TerminateTask.                  *)
(***************************************************************************)
EXTENDS Naturals, Sequences

CONSTANTS Tasks,          \* the tasks the other components create
          TimedTasks,     \* those created with an expiration
          CloseTasks,     \* those that run setGameState(GAME_STATE_SHUTDOWN)
          ShutdownTask,   \* Game::shutdown
          TerminateTask,  \* the lambda of Dispatcher::shutdown
          Threads,        \* the other threads that call addTask
          Self,           \* the dispatcher thread, when a task calls addTask
          None

ASSUME TaskAssumption ==
  /\ TimedTasks \subseteq Tasks /\ CloseTasks \subseteq Tasks
  /\ TimedTasks \cap CloseTasks = {}
  /\ ShutdownTask \notin Tasks /\ TerminateTask \notin Tasks
  /\ ShutdownTask # TerminateTask
  /\ None \notin Tasks \cup {ShutdownTask, TerminateTask}
  /\ Self \notin Threads

AllTasks == Tasks \cup {ShutdownTask, TerminateTask}

VARIABLES
  threadState,  \* ThreadHolder::threadState
  online,       \* the services run: main waits for them instead of shutting down
  gameDown,     \* gameState = GAME_STATE_SHUTDOWN
  fresh,        \* tasks not created yet
  taskList,     \* Dispatcher::taskList
  tmpTaskList,  \* the batch threadMain is working on, the tasks left of it
  current,      \* the task being executed
  pc,           \* where threadMain is
  signalling,   \* threads between unlock and notify_one in addTask
  ended,        \* tasks executed or found expired, then deleted
  refused       \* tasks addTask deleted because the dispatcher does not run

queues == <<taskList, tmpTaskList>>
vars == <<threadState, online, gameDown, fresh, taskList, tmpTaskList, current,
          pc, signalling, ended, refused>>

ThreadState == {"RUNNING", "CLOSING", "TERMINATED"}
PC == {"loop", "acquire", "waiting", "woken", "batch", "run", "posted", "pushed", "end"}

Elems(s) == {s[i] : i \in 1 .. Len(s)}

Init ==
  /\ threadState = "RUNNING"
  /\ online \in BOOLEAN
  /\ gameDown = FALSE
  /\ fresh = IF online THEN Tasks ELSE Tasks \ CloseTasks
  /\ taskList = <<>> /\ tmpTaskList = <<>>
  /\ current = None
  /\ pc = "loop"
  /\ signalling = {}
  /\ ended = {} /\ refused = {}

-----------------------------------------------------------------------------
(* addTask, shutdown: any thread.                                          *)

AcceptsAlways == threadState # "TERMINATED"
Accepts == threadState = "RUNNING"

SignalsIfLonger == taskList = <<>> /\ fresh = {}
SignalsIf == taskList = <<>>

\* The locked part of addTask: push_back, or delete the task.
Enqueue(t) ==
  IF Accepts
    THEN taskList' = Append(taskList, t) /\ UNCHANGED refused
    ELSE refused' = refused \cup {t} /\ UNCHANGED taskList

AddTask(p, t) ==
  /\ p \notin signalling /\ t \in fresh
  /\ p = Self => pc = "run" /\ current \in Tasks \ CloseTasks
  /\ fresh' = fresh \ {t}
  /\ Enqueue(t)
  /\ signalling' = IF Accepts /\ SignalsIf THEN signalling \cup {p} ELSE signalling
  /\ UNCHANGED <<threadState, online, gameDown, tmpTaskList, current, pc, ended>>

WakeNobody == pc
Wake == IF pc = "waiting" THEN "woken" ELSE pc

NotifyOne(p) ==
  /\ p \in signalling
  /\ signalling' = signalling \ {p}
  /\ pc' = Wake
  /\ UNCHANGED <<threadState, online, gameDown, fresh, queues, current, ended, refused>>

\* main, when no service came up: it shuts the dispatcher down itself, once.
MainShutdown ==
  /\ ~online /\ ~gameDown
  /\ gameDown' = TRUE
  /\ taskList' = Append(taskList, TerminateTask)
  /\ pc' = Wake
  /\ UNCHANGED <<threadState, online, fresh, tmpTaskList, current, signalling, ended, refused>>

-----------------------------------------------------------------------------
(* threadMain: the dispatcher thread.                                      *)

TestState ==
  /\ pc = "loop"
  /\ pc' = IF threadState # "TERMINATED" THEN "acquire" ELSE "end"
  /\ UNCHANGED <<threadState, online, gameDown, fresh, queues, current, signalling, ended, refused>>

\* lock, and wait when there is nothing to do (an if in the code, no loop)
Wait ==
  /\ pc = "acquire" /\ taskList = <<>>
  /\ pc' = "waiting"
  /\ UNCHANGED <<threadState, online, gameDown, fresh, queues, current, signalling, ended, refused>>

SpuriousWakeup ==
  /\ pc = "waiting"
  /\ pc' = "woken"
  /\ UNCHANGED <<threadState, online, gameDown, fresh, queues, current, signalling, ended, refused>>

SwapKeeps == tmpTaskList' = taskList /\ taskList' = taskList
Swap == tmpTaskList' = taskList /\ taskList' = tmpTaskList

TakeBatch ==
  /\ \/ pc = "acquire" /\ taskList # <<>>
     \/ pc = "woken"
  /\ Swap
  /\ pc' = "batch"
  /\ UNCHANGED <<threadState, online, gameDown, fresh, current, signalling, ended, refused>>

NextTask ==
  /\ pc = "batch" /\ tmpTaskList # <<>>
  /\ tmpTaskList' = Tail(tmpTaskList)
  /\ \/ /\ current' = Head(tmpTaskList) /\ pc' = "run"
        /\ UNCHANGED ended
     \/ /\ Head(tmpTaskList) \in TimedTasks            \* hasExpired()
        /\ ended' = ended \cup {Head(tmpTaskList)}
        /\ UNCHANGED <<current, pc>>
  /\ UNCHANGED <<threadState, online, gameDown, fresh, taskList, signalling, refused>>

BatchDone ==
  /\ pc = "batch" /\ tmpTaskList = <<>>
  /\ pc' = "loop"
  /\ UNCHANGED <<threadState, online, gameDown, fresh, queues, current, signalling, ended, refused>>

TaskReturns ==
  /\ ended' = ended \cup {current}
  /\ current' = None
  /\ pc' = "batch"

\* An ordinary task returns; so does a close task that comes second, since
\* setGameState leaves GAME_STATE_SHUTDOWN alone.
RunTask ==
  /\ pc = "run" /\ Self \notin signalling
  /\ current \in Tasks /\ (current \in CloseTasks => gameDown)
  /\ TaskReturns
  /\ UNCHANGED <<threadState, online, gameDown, fresh, queues, signalling, refused>>

CloseGameStopsFirst ==
  /\ pc = "run" /\ current \in CloseTasks /\ ~gameDown
  /\ gameDown' = TRUE
  /\ threadState' = "CLOSING"
  /\ refused' = refused \cup {ShutdownTask}
  /\ TaskReturns
  /\ UNCHANGED <<online, fresh, queues, signalling>>

\* setGameState(GAME_STATE_SHUTDOWN): addTask(Game::shutdown) ...
CloseGame ==
  /\ pc = "run" /\ current \in CloseTasks /\ ~gameDown
  /\ gameDown' = TRUE
  /\ Enqueue(ShutdownTask)
  /\ pc' = "posted"
  /\ UNCHANGED <<threadState, online, fresh, tmpTaskList, current, signalling, ended>>

\* ... and then g_dispatcher.stop().
Stop ==
  /\ pc = "posted"
  /\ threadState' = "CLOSING"
  /\ TaskReturns
  /\ UNCHANGED <<online, gameDown, fresh, queues, signalling, refused>>

\* Game::shutdown calls Dispatcher::shutdown, which pushes in any state.
RunShutdown ==
  /\ pc = "run" /\ current = ShutdownTask
  /\ taskList' = Append(taskList, TerminateTask)
  /\ pc' = "pushed"
  /\ UNCHANGED <<threadState, online, gameDown, fresh, tmpTaskList, current,
                 signalling, ended, refused>>

\* the rest of Game::shutdown does not touch the dispatcher
ShutdownReturns ==
  /\ pc = "pushed"
  /\ TaskReturns
  /\ UNCHANGED <<threadState, online, gameDown, fresh, queues, signalling, refused>>

RunTerminate ==
  /\ pc = "run" /\ current = TerminateTask
  /\ threadState' = "TERMINATED"
  /\ TaskReturns
  /\ UNCHANGED <<online, gameDown, fresh, queues, signalling, refused>>

-----------------------------------------------------------------------------
Execute == RunTask \/ CloseGame \/ Stop \/ RunShutdown \/ ShutdownReturns
           \/ RunTerminate
ThreadMain == TestState \/ Wait \/ TakeBatch \/ NextTask \/ BatchDone \/ Execute

Next ==
  \/ \E p \in Threads \cup {Self}, t \in Tasks : AddTask(p, t)
  \/ \E p \in Threads \cup {Self} : NotifyOne(p)
  \/ MainShutdown
  \/ SpuriousWakeup
  \/ ThreadMain

\* The thread keeps running and a task returns; a thread that has released
\* the lock gets to notify.  Nobody is obliged to submit a task, and a
\* spurious wakeup need not happen.
Fairness ==
  /\ WF_vars(ThreadMain)
  /\ \A p \in Threads \cup {Self} : WF_vars(NotifyOne(p))

Spec == Init /\ [][Next]_vars /\ Fairness

-----------------------------------------------------------------------------
TypeOK ==
  /\ threadState \in ThreadState
  /\ online \in BOOLEAN /\ gameDown \in BOOLEAN
  /\ fresh \subseteq Tasks
  /\ taskList \in Seq(AllTasks) /\ tmpTaskList \in Seq(AllTasks)
  /\ current \in AllTasks \cup {None}
  /\ pc \in PC
  /\ signalling \subseteq Threads \cup {Self}
  /\ ended \subseteq AllTasks /\ refused \subseteq Tasks

\* No wakeup is lost: when the thread sleeps although there are tasks, some
\* thread has still to notify it (addTask signals only when it found the
\* queue empty, and after it has released the lock).
NoLostWakeup == pc = "waiting" /\ taskList # <<>> => signalling # {}

\* When the thread has ended after an orderly shutdown, every task addTask
\* accepted was executed (or had expired): none stays in the queue.
NothingStranded ==
  online /\ pc = "end" => taskList = <<>> /\ tmpTaskList = <<>> /\ current = None

\* The dispatcher is a serial executor: batches, the second list and the lock
\* cannot be told from one FIFO queue.
Executor == INSTANCE SerialExecutor WITH
  Task <- AllTasks, Expiring <- TimedTasks, queue <- tmpTaskList \o taskList
IsSerialExecutor == Executor!Init /\ [][Executor!Next]_(Executor!vars)

\* A task accepted while the services run is executed or found expired.
AcceptedTaskEnds ==
  \A t \in AllTasks : (online /\ t \in Elems(taskList)) ~> t \in ended

\* Once the shutdown has been asked for, the dispatcher thread ends.
ThreadEnds == gameDown ~> pc = "end"
=============================================================================
