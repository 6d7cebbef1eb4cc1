-------------------------- MODULE MCServices --------------------------
(* How the server serves: a creature's list of things to do, the ports and *)
(* threads from start to end, a connection, the buffers of its protocols,  *)
(* the saving of players over the one connection to the database, and the  *)
(* queries that another thread executes. They share no variable, so they   *)
(* are checked side by side: a behaviour is one of a single part, the      *)
(* others stay as they began. Lists of each kind of entry, with a wait     *)
(* longer than the shortest event, and the empty list; two messages,       *)
(* enough for a queue behind a write in flight; messages that just fit and *)
(* do not; two saves beside the query of a login, and a connection to the  *)
(* database that is lost twice; four queries, two with a callback, and two *)
(* flushes, so that one can follow another.                                *)
EXTENDS ToDo, TLC

CONSTANTS p1, p2, net, wk, ds, MaxQueries, MaxFlushes, Callbacks, Askers, Worker, Disp, MaxQueued, SetUpFails, Ports, Threads, Dispatcher,
  Protocols, Sizes, MaxMessages, Clients, Game, MaxSaves, MaxLosses, None

VARIABLES
  part,  \* which of them this behaviour is about
  conn, alive, accepted, written, releases, dispatching, reset, main, loader,
  notified, gameState, thread, queue, life_running, acceptors, deathTimer,
  isOpen, accept, pendingStart, retries, stopPosted, shut, signal, early,
  bufferedProtocols, pool_events, outputBuffer, state, pool_written, handed,
  odd, databaseLock, step, tries, version, success, query, up, open,
  inTrans, work, stored, file, losses, outside, threadState, tasks,
  db_accepted, hand, wpc, dpc, signalling, done, answers, db_dispatching,
  mark, saves

MCPlans == { <<>>, << <<"walk", 0>>, <<"wait", 3>> >>, << <<"attack", 0>> >>,
             << <<"wait", 1>>, <<"useex", 0>> >>, << <<"action", 0>> >> }
MCCooldowns == {0, 1, 3}

N == INSTANCE Connection
  WITH MaxMessages <- MaxQueued
L == INSTANCE ServerLife
  WITH running <- life_running
O == INSTANCE OutputPool
  WITH events <- pool_events, written <- pool_written
S == INSTANCE PlayerSave
D == INSTANCE DatabaseTasks
  WITH MaxSaves <- MaxFlushes, Clients <- Askers, accepted <- db_accepted,
       dispatching <- db_dispatching

ASSUME ServicesAssumption ==
  /\ N!ConnectionAssumption /\ L!LifeAssumption /\ O!OutputAssumption
  /\ S!SaveAssumption /\ D!DatabaseTasksAssumption

todo_vars == <<entries, executing, stop, current, wake, cooldown, events, running, removed,
               orders>>
conn_vars == <<conn, alive, accepted, written, releases, dispatching, reset>>
life_vars == <<main, loader, notified, gameState, thread, queue, life_running, acceptors,
               deathTimer, isOpen, accept, pendingStart, retries,
               stopPosted, shut, signal, early>>
pool_vars == <<bufferedProtocols, pool_events, outputBuffer, state, pool_written, handed,
               odd>>
save_vars == <<databaseLock, step, tries, version, success, query, up, open, inTrans, work,
               stored, file, losses, outside>>
db_vars == <<threadState, tasks, db_accepted, hand, wpc, dpc, signalling, done, answers,
             db_dispatching, mark, saves>>
all == <<part, todo_vars, conn_vars, life_vars, pool_vars, save_vars, db_vars>>

\* The step A of one part, while the others have not begun.
todo_step(A) == part = "todo" /\ A /\ UNCHANGED <<part, conn_vars, life_vars, pool_vars, save_vars, db_vars>>
conn_step(A) == part = "conn" /\ A /\ UNCHANGED <<part, todo_vars, life_vars, pool_vars, save_vars, db_vars>>
life_step(A) == part = "life" /\ A /\ UNCHANGED <<part, todo_vars, conn_vars, pool_vars, save_vars, db_vars>>
pool_step(A) == part = "pool" /\ A /\ UNCHANGED <<part, todo_vars, conn_vars, life_vars, save_vars, db_vars>>
save_step(A) == part = "save" /\ A /\ UNCHANGED <<part, todo_vars, conn_vars, life_vars, pool_vars, db_vars>>
db_step(A) == part = "db" /\ A /\ UNCHANGED <<part, todo_vars, conn_vars, life_vars, pool_vars, save_vars>>

MCInit ==
  /\ part \in {"todo", "conn", "life", "pool", "save", "db"}
  /\ Init
  /\ N!Init
  /\ L!Init
  /\ O!Init
  /\ S!Init
  /\ D!Init

MCNext ==
  \/ todo_step(Next)
  \/ conn_step(N!Next)
  \/ life_step(L!Next)
  \/ pool_step(O!Next)
  \/ save_step(S!Next)
  \/ db_step(D!Next)

MCFairness ==
  /\ WF_todo_vars(part = "todo" /\ Fire)
  /\ WF_todo_vars(part = "todo" /\ Loop)
  /\ WF_todo_vars(part = "todo" /\ Tick)
  /\ WF_conn_vars(part = "conn" /\ (N!ParseHeader \/ N!ParseProxy \/ N!ParsePacket))
  /\ WF_conn_vars(part = "conn" /\ N!OnWriteOperation)
  /\ WF_conn_vars(part = "conn" /\ N!HandleTimeout)
  /\ WF_conn_vars(part = "conn" /\ N!Destructor)
  /\ WF_conn_vars(part = "conn" /\ N!TimerExpires)
  /\ WF_conn_vars(part = "conn" /\ N!Result = "err" /\ N!ReadCompletes)
  /\ WF_conn_vars(part = "conn" /\ N!WriteCompletes)
  /\ WF_life_vars(part = "life" /\ L!MainThread)
  /\ WF_life_vars(part = "life" /\ L!DispatcherThread)
  /\ WF_life_vars(part = "life" /\ L!HandleSignal)
  /\ WF_life_vars(part = "life" /\ L!Die)
  /\ \A t \in Threads : WF_life_vars(part = "life" /\ L!ThreadEnds(t))
  /\ WF_pool_vars(part = "pool" /\ O!SendAll)
  /\ WF_save_vars(part = "save" /\ S!Saving)
  /\ \A c \in Clients : WF_save_vars(part = "save" /\ S!Asking(c))
  /\ WF_db_vars(part = "db" /\ D!ThreadMain)
  /\ WF_db_vars(part = "db" /\ D!DispatcherSteps)
  /\ \A p \in Askers \cup {Disp} : WF_db_vars(part = "db" /\ D!NotifyOne(p))

MCSpec == MCInit /\ [][MCNext]_all /\ MCFairness

-----------------------------------------------------------------------------
\* Ports are served until they are shut: LifeInv of ServerLife.
LifeInv == part = "life" => L!LifeInv

\* A connection is released once and writes what it is sent in order, buffers are sent
\* in order and padded: Inv of Connection, OutputInv of OutputPool.
NetworkInv ==
  /\ part = "conn" => N!Inv
  /\ part = "pool" => O!OutputInv

\* What saves and losses of the connection may do, and worker and flush execute each
\* query once, in order but for the one in hand: Inv of PlayerSave and of DatabaseTasks.
StorageInv ==
  /\ part = "save" => S!Inv
  /\ part = "db" => D!Inv

\* A silent peer is not waited for, a closed connection gives its socket back, what is
\* written reaches the connection: ReadEnds and ClosedIsShut of Connection, Flushed of
\* OutputPool.
NetworkMoves ==
  /\ part = "conn" => N!ReadEnds /\ N!ClosedIsShut
  /\ part = "pool" => O!Flushed

\* A server that is asked to end does so: ServerEnds of ServerLife.
ServerEnds == part = "life" => L!ServerEnds

\* A save and a query that have begun end, and each accepted query is executed, through
\* the shutdown too: SaveEnds and QueryEnds of PlayerSave, AcceptedExecuted of
\* DatabaseTasks.
StorageEnds ==
  /\ part = "save" => S!SaveEnds /\ S!QueryEnds
  /\ part = "db" => D!AcceptedExecuted

=============================================================================
