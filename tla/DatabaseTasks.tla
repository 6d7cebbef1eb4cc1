--------------------------- MODULE DatabaseTasks ---------------------------
(***************************************************************************)
(* The asynchronous queries (databasetasks.h, databasetasks.cpp).  A       *)
(* worker thread executes the queries other threads hand over, one at a    *)
(* time and in order, on a connection of its own.  The dispatcher thread   *)
(* executes queries of the same list too: Game::saveGameState flushes it,  *)
(* and Game::shutdown calls DatabaseTasks::shutdown.  A query may name a   *)
(* callback, which its executor hands to the dispatcher as a task.         *)
(*                                                                         *)
(* A critical section (taskLock held) is one step.  The queries are        *)
(* numbered in the order they are accepted.                                *)
(***************************************************************************)
EXTENDS Naturals, Sequences

CONSTANTS MaxQueries,  \* bound: queries accepted in a behaviour
          MaxSaves,    \* bound: calls of Game::saveGameState
          Callbacks,   \* the queries that name a callback
          Clients,     \* the threads other than the dispatcher that call addTask
          Worker,      \* the thread of DatabaseTasks
          Disp         \* the dispatcher thread

\* What the constants may be; modules that take this one assume it.
DatabaseTasksAssumption ==
  /\ MaxQueries \in Nat /\ MaxSaves \in Nat
  /\ Callbacks \subseteq 1 .. MaxQueries
  /\ Worker # Disp /\ Worker \notin Clients /\ Disp \notin Clients

NoQuery == 0
Queries == 1 .. MaxQueries
Executors == {Worker, Disp}

VARIABLES
  threadState,  \* ThreadHolder::threadState
  tasks,        \* DatabaseTasks::tasks
  accepted,     \* how many queries addTask has queued
  hand,         \* the query each executor has popped and is executing
  wpc,          \* where threadMain is
  dpc,          \* where the dispatcher is
  signalling,   \* threads between unlock and notify_one in addTask
  done,         \* queries executed
  answers,      \* callbacks the dispatcher accepted, in order
  dispatching,  \* the dispatcher is RUNNING: it accepts tasks
  mark,         \* accepted when the flush under way began
  saves         \* calls of saveGameState so far

vars == <<threadState, tasks, accepted, hand, wpc, dpc, signalling, done,
          answers, dispatching, mark, saves>>
worker == <<wpc>>
dispatcher == <<dpc, dispatching, mark, saves>>

Init ==
  /\ threadState = "RUNNING"
  /\ tasks = <<>> /\ accepted = 0
  /\ hand = [e \in Executors |-> NoQuery]
  /\ wpc = "loop" /\ dpc = "idle"
  /\ signalling = {}
  /\ done = {} /\ answers = <<>>
  /\ dispatching = TRUE
  /\ mark = 0 /\ saves = 0

-----------------------------------------------------------------------------
(* addTask: the dispatcher's tasks and the network thread (IOBan).         *)

SignalsIfBusy == tasks # <<>>
SignalsIf == tasks = <<>>

AddTask(p) ==
  /\ p \notin signalling /\ (p = Disp => dpc = "idle")
  /\ accepted < MaxQueries
  /\ threadState = "RUNNING"                      \* dropped otherwise
  /\ accepted' = accepted + 1
  /\ tasks' = Append(tasks, accepted')
  /\ signalling' = IF SignalsIf THEN signalling \cup {p} ELSE signalling
  /\ UNCHANGED <<threadState, hand, wpc, done, answers, dispatcher>>

Wake == IF wpc = "waiting" THEN "woken" ELSE wpc

NotifyOne(p) ==
  /\ p \in signalling
  /\ signalling' = signalling \ {p}
  /\ wpc' = Wake
  /\ UNCHANGED <<threadState, tasks, accepted, hand, done, answers, dispatcher>>

-----------------------------------------------------------------------------
(* runTask, on either executor.                                            *)

PopKeeps(e) ==
  /\ hand' = [hand EXCEPT ![e] = Head(tasks)]
  /\ UNCHANGED tasks
Pop(e) ==
  /\ hand' = [hand EXCEPT ![e] = Head(tasks)]
  /\ tasks' = Tail(tasks)

\* g_dispatcher.addTask deletes the callback once the dispatcher is closing.
Answer(q) == IF q \in Callbacks /\ dispatching THEN Append(answers, q) ELSE answers

RunTask(e) ==
  /\ done' = done \cup {hand[e]}
  /\ answers' = Answer(hand[e])
  /\ hand' = [hand EXCEPT ![e] = NoQuery]

-----------------------------------------------------------------------------
(* threadMain.                                                             *)

TestState ==
  /\ wpc = "loop"
  /\ wpc' = IF threadState # "TERMINATED" THEN "acquire" ELSE "end"
  /\ UNCHANGED <<threadState, tasks, accepted, hand, signalling, done, answers, dispatcher>>

Wait ==
  /\ wpc = "acquire" /\ tasks = <<>>
  /\ wpc' = "waiting"
  /\ UNCHANGED <<threadState, tasks, accepted, hand, signalling, done, answers, dispatcher>>

SpuriousWakeup ==
  /\ wpc = "waiting"
  /\ wpc' = "woken"
  /\ UNCHANGED <<threadState, tasks, accepted, hand, signalling, done, answers, dispatcher>>

TakeTask ==
  /\ wpc \in {"acquire", "woken"} /\ tasks # <<>>
  /\ Pop(Worker)
  /\ wpc' = "run"
  /\ UNCHANGED <<threadState, accepted, signalling, done, answers, dispatcher>>

NothingToTake ==
  /\ wpc = "woken" /\ tasks = <<>>
  /\ wpc' = "loop"
  /\ UNCHANGED <<threadState, tasks, accepted, hand, signalling, done, answers, dispatcher>>

WorkerRuns ==
  /\ wpc = "run"
  /\ RunTask(Worker)
  /\ wpc' = "loop"
  /\ UNCHANGED <<threadState, tasks, accepted, signalling, dispatcher>>

-----------------------------------------------------------------------------
(* The dispatcher: flush, from saveGameState and from shutdown.            *)

\* "flush" the loop of flush, lock held; "flushed" saveGameState goes on;
\* the same with "last" in front inside DatabaseTasks::shutdown.
SaveGameState ==
  /\ dpc = "idle" /\ Disp \notin signalling
  /\ saves < MaxSaves
  /\ saves' = saves + 1
  /\ dpc' = "flush" /\ mark' = accepted
  /\ UNCHANGED <<threadState, tasks, accepted, hand, wpc, signalling, done, answers, dispatching>>

FlushTake ==
  /\ dpc \in {"flush", "lastflush"} /\ hand[Disp] = NoQuery /\ tasks # <<>>
  /\ Pop(Disp)
  /\ UNCHANGED <<threadState, accepted, wpc, signalling, done, answers, dispatcher>>

FlushRuns ==
  /\ hand[Disp] # NoQuery
  /\ RunTask(Disp)
  /\ UNCHANGED <<threadState, tasks, accepted, wpc, signalling, dispatcher>>

FlushEndsEarly == dpc = "flush" /\ hand[Disp] = NoQuery
FlushEnds == dpc = "flush" /\ hand[Disp] = NoQuery /\ tasks = <<>>

SaveEnds ==
  /\ FlushEnds
  /\ dpc' = "flushed"
  /\ UNCHANGED <<threadState, tasks, accepted, hand, wpc, signalling, done, answers,
                 dispatching, mark, saves>>

\* A periodic save returns ...
SaveReturns ==
  /\ dpc = "flushed"
  /\ dpc' = "idle"
  /\ UNCHANGED <<threadState, tasks, accepted, hand, wpc, signalling, done, answers,
                 dispatching, mark, saves>>

\* ... or it was the save of setGameState(GAME_STATE_SHUTDOWN), which stops
\* the queries, then the dispatcher.
StopTasks ==
  /\ dpc = "flushed"
  /\ threadState' = "CLOSING"
  /\ dpc' = "stopped"
  /\ UNCHANGED <<tasks, accepted, hand, wpc, signalling, done, answers,
                 dispatching, mark, saves>>

StopDispatcher ==
  /\ dpc = "stopped" /\ dispatching
  /\ dispatching' = FALSE
  /\ UNCHANGED <<threadState, tasks, accepted, hand, wpc, signalling, done, answers,
                 dpc, mark, saves>>

\* Game::shutdown, a later task: DatabaseTasks::shutdown.
ShutdownSetsState ==
  /\ dpc = "stopped" /\ ~dispatching
  /\ threadState' = "TERMINATED"
  /\ dpc' = "lastflush"
  /\ UNCHANGED <<tasks, accepted, hand, wpc, signalling, done, answers,
                 dispatching, mark, saves>>

ShutdownNotifies ==
  /\ dpc = "lastflush" /\ hand[Disp] = NoQuery /\ tasks = <<>>
  /\ wpc' = Wake
  /\ dpc' = "down"
  /\ UNCHANGED <<threadState, tasks, accepted, hand, signalling, done, answers,
                 dispatching, mark, saves>>

-----------------------------------------------------------------------------
ThreadMain == TestState \/ Wait \/ TakeTask \/ NothingToTake \/ WorkerRuns
DispatcherSteps ==
  FlushTake \/ FlushRuns \/ SaveEnds \/ SaveReturns \/ StopTasks \/ StopDispatcher
  \/ ShutdownSetsState \/ ShutdownNotifies

Next ==
  \/ \E p \in Clients \cup {Disp} : AddTask(p) \/ NotifyOne(p)
  \/ ThreadMain \/ SpuriousWakeup
  \/ SaveGameState \/ DispatcherSteps

\* Threads keep running and a query returns.  Nobody is obliged to add a
\* query or to save, and the condition variable need not wake spuriously.
Fairness ==
  /\ WF_vars(ThreadMain) /\ WF_vars(DispatcherSteps)
  /\ \A p \in Clients \cup {Disp} : WF_vars(NotifyOne(p))

Spec == Init /\ [][Next]_vars /\ Fairness

-----------------------------------------------------------------------------
TypeOK ==
  /\ threadState \in {"RUNNING", "CLOSING", "TERMINATED"}
  /\ accepted \in 0 .. MaxQueries /\ tasks \in Seq(1 .. accepted)
  /\ hand \in [Executors -> 0 .. accepted]
  /\ wpc \in {"loop", "acquire", "waiting", "woken", "run", "end"}
  /\ dpc \in {"idle", "flush", "flushed", "stopped", "lastflush", "down"}
  /\ signalling \subseteq Clients \cup {Disp}
  /\ done \subseteq 1 .. accepted /\ answers \in Seq(done \cap Callbacks)
  /\ dispatching \in BOOLEAN
  /\ mark \in 0 .. accepted /\ saves \in 0 .. MaxSaves

InHand == {hand[e] : e \in Executors} \ {NoQuery}

\* A query is in exactly one place: queued, in one executor's hand, or done;
\* and none gets lost between them.
OncePerQuery ==
  LET queued == {tasks[i] : i \in 1 .. Len(tasks)} IN
  /\ queued \cup InHand \cup done = 1 .. accepted
  /\ queued \cap InHand = {} /\ queued \cap done = {} /\ InHand \cap done = {}
  /\ hand[Worker] # NoQuery => hand[Worker] # hand[Disp]
  /\ \A i, j \in 1 .. Len(tasks) : i < j => tasks[i] < tasks[j]

\* Two threads execute the list: when a query is done, each older one is done
\* too or is the one query the other executor is busy with.
AtMostOneOvertaken ==
  \A q \in done : {p \in 1 .. q : p \notin done} \subseteq InHand

\* Until the first flush the callbacks reach the dispatcher in the order of
\* their queries (a flush may let younger ones pass the worker's query).
AnswersInOrder ==
  saves = 0 => \A i, j \in 1 .. Len(answers) : i < j => answers[i] < answers[j]

\* When the flush of saveGameState returns, what was queued when it began has
\* been executed, but for the query the worker holds.
FlushLeavesOne ==
  dpc = "flushed" => 1 .. mark \ done \subseteq {hand[Worker]}

\* What every state of the task list obeys, whichever thread took what.
Inv == TypeOK /\ OncePerQuery /\ AtMostOneOvertaken /\ AnswersInOrder /\ FlushLeavesOne

\* Everything addTask queued is executed, through the shutdown too.
AcceptedExecuted == \A q \in Queries : (q <= accepted) ~> (q \in done)

\* Game::shutdown makes the worker thread end, so that the join in main returns.
WorkerEnds == (threadState = "TERMINATED") ~> (wpc = "end")
=============================================================================
