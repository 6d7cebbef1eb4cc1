----------------------------- MODULE ServerLife -----------------------------
(***************************************************************************)
(* Start and end of the server (otserv.cpp, server.cpp, signals.cpp,       *)
(* Game::setGameState and Game::shutdown), and the ports it serves.  The   *)
(* main thread waits for the loader, which runs as a task of the           *)
(* dispatcher, then runs the io_service of the network until it is         *)
(* stopped, and joins the other threads.  Signals are seen by that         *)
(* io_service, so none is handled before it runs.                          *)
(*                                                                         *)
(* The other threads are here only their states; their own modules show    *)
(* that they end after their shutdown.                                     *)
(***************************************************************************)
EXTENDS Naturals, Sequences, FiniteSets

CONSTANTS
  Ports,
  Threads,      \* scheduler, database tasks and dispatcher, which is the last
  Dispatcher

\* What the constants may be; modules that take this one assume it.
LifeAssumption == Dispatcher \in Threads

VARIABLES
  main,         \* where the main thread is
  loader,       \* "queued", "loading", "failed" or "loaded"
  notified,     \* main was waiting when the loader ended
  gameState,    \* "startup", "normal" or "shutdown"
  thread,       \* the state of each thread: also "ended"
  queue,        \* the dispatcher's tasks
  running,      \* ServiceManager::running
  acceptors,    \* ServiceManager::acceptors: its ports
  deathTimer,   \* is set
  isOpen,       \* the ports with an acceptor that is open
  accept,       \* of a port, async_accept: "none", "pending" or its result
  pendingStart,
  retries,      \* the ports for which openAcceptor is due later
  stopPosted,   \* the ports whose onStopServer is posted, not run
  shut,         \* history: those it has run for
  signal,       \* the one signal the process may get: "none", "got", "handled"
  early         \* history: main woke by itself, or the services were stopped before they ran

game == <<loader, notified, gameState, thread, queue>>
port == <<isOpen, accept, pendingStart, retries>>
services == <<running, acceptors, deathTimer, stopPosted, shut>>
vars == <<main, game, port, services, signal, early>>

Init ==
  /\ main = "starting" /\ loader = "queued" /\ notified = FALSE /\ gameState = "startup"
  /\ thread = [t \in Threads |-> "running"]
  /\ queue = <<<<"loader", 0>>>>
  /\ running = FALSE /\ acceptors = {} /\ deathTimer = FALSE
  /\ isOpen = {} /\ accept = [p \in Ports |-> "none"]
  /\ pendingStart = {} /\ retries = {} /\ stopPosted = {} /\ shut = {}
  /\ signal = "none" /\ early = FALSE

-----------------------------------------------------------------------------
(* The main thread.                                                        *)

\* The task of the loader was added; notify_all wakes only who waits by then.
Wait ==
  /\ main = "starting" /\ main' = "waiting"
  /\ UNCHANGED <<game, port, services, signal, early>>

Terminate(ts) == thread' = [t \in Threads |-> IF t \in ts /\ thread[t] # "ended" THEN "terminated" ELSE thread[t]]

\* is_running; without services the threads are shut down at once.
OnlyTheDispatcher == {Dispatcher}
WithoutServices == Threads

Wake(alone) ==
  /\ main = "waiting" /\ (notified \/ alone)
  /\ early' = (early \/ ~notified)
  /\ IF acceptors # {}
       THEN main' = "online" /\ UNCHANGED thread
       ELSE main' = "joining" /\ Terminate(WithoutServices)
  /\ UNCHANGED <<loader, notified, gameState, queue, port, services, signal>>

\* ServiceManager::run
Run ==
  /\ main = "online" /\ main' = "serving" /\ running' = TRUE
  /\ UNCHANGED <<game, port, acceptors, deathTimer, stopPosted, shut, signal, early>>

End ==
  /\ main = "joining" /\ \A t \in Threads : thread[t] = "ended"
  /\ main' = "ended"
  /\ UNCHANGED <<game, port, services, signal, early>>

ThreadEnds(t) ==
  /\ thread[t] = "terminated" /\ (t = Dispatcher => loader # "loading")
  /\ thread' = [thread EXCEPT ![t] = "ended"]
  /\ UNCHANGED <<main, loader, notified, gameState, queue, port, services, signal, early>>

-----------------------------------------------------------------------------
(* The handlers of the io_service, run by the main thread.                 *)

Serves == main = "serving"

\* addTask
Added(task) == IF thread[Dispatcher] = "running" THEN Append(queue, task) ELSE queue

\* The kernel keeps the signal until the process looks.
Signal ==
  /\ signal = "none" /\ main # "ended" /\ signal' = "got"
  /\ UNCHANGED <<main, game, port, services, early>>

\* dispatchSignalHandler
HandleSignal ==
  /\ Serves /\ signal = "got" /\ signal' = "handled"
  /\ queue' = Added(<<"signal", 0>>)
  /\ UNCHANGED <<main, loader, notified, gameState, thread, port, services, early>>

\* The kernel completes an accept, with a socket or without (too many open files).
Complete(p) ==
  /\ accept[p] = "pending"
  /\ \E result \in {"ok", "error"} : accept' = [accept EXCEPT ![p] = result]
  /\ UNCHANGED <<main, game, isOpen, pendingStart, retries, services, signal, early>>

\* accept: an error if the acceptor is closed
Accepts(p) == [accept EXCEPT ![p] = IF p \in isOpen THEN "pending" ELSE "error"]

\* close
Closed(p) == isOpen' = isOpen \ {p}
Aborted(p) == [accept EXCEPT ![p] = IF @ = "pending" THEN "aborted" ELSE @]

\* onAccept.  The 15 seconds are counted by the scheduler.
OnAccept(p) ==
  /\ Serves
  /\ \/ accept[p] = "ok" /\ accept' = Accepts(p) /\ UNCHANGED <<isOpen, pendingStart, retries>>
     \/ /\ accept[p] = "error" /\ accept' = [accept EXCEPT ![p] = "none"]
        /\ IF p \in pendingStart THEN UNCHANGED <<isOpen, pendingStart, retries>>
           ELSE Closed(p) /\ pendingStart' = pendingStart \cup {p} /\ retries' = retries \cup {p}
     \/ accept[p] = "aborted" /\ accept' = [accept EXCEPT ![p] = "none"]
        /\ UNCHANGED <<isOpen, pendingStart, retries>>
  /\ UNCHANGED <<main, game, services, signal, early>>

OnStopServer(p) ==
  /\ Serves /\ p \in stopPosted
  /\ stopPosted' = stopPosted \ {p} /\ shut' = shut \cup {p}
  /\ Closed(p) /\ accept' = Aborted(p)
  /\ UNCHANGED <<main, game, pendingStart, retries, running, acceptors, deathTimer, signal, early>>

\* die, 3 seconds after the stop
Die ==
  /\ Serves /\ deathTimer /\ main' = "joining"
  /\ UNCHANGED <<game, port, services, signal, early>>

-----------------------------------------------------------------------------
(* The scheduler: a retry that is due is handed to the dispatcher.         *)

RetryDue(p) ==
  /\ p \in retries /\ retries' = retries \ {p}
  /\ queue' = IF \E t \in Threads \ {Dispatcher} : thread[t] \in {"terminated", "ended"}
              THEN queue ELSE Added(<<"open", p>>)
  /\ UNCHANGED <<main, loader, notified, gameState, thread, isOpen, accept, pendingStart,
                 services, signal, early>>

-----------------------------------------------------------------------------
(* The dispatcher's tasks.                                                 *)

Task(what) == thread[Dispatcher] \in {"running", "closing"} /\ queue # <<>> /\ Head(queue)[1] = what

\* The loader runs, until it fails or has added the services.
Load ==
  /\ Task("loader") /\ queue' = Tail(queue) /\ loader' = "loading"
  /\ UNCHANGED <<main, notified, gameState, thread, port, services, signal, early>>

\* setGameState(GAME_STATE_SHUTDOWN), unless that is the state already: nothing
\* is accepted after the task of Game::shutdown.
ShutDown(tasks) ==
  IF gameState = "shutdown" THEN queue' = tasks /\ UNCHANGED <<gameState, thread>>
  ELSE /\ gameState' = "shutdown"
       /\ queue' = IF thread[Dispatcher] = "running" THEN Append(tasks, <<"shutdown", 0>>) ELSE tasks
       /\ thread' = [t \in Threads |-> IF thread[t] = "ended" THEN "ended" ELSE "closing"]

\* A script of onStartup ends what has not begun.
StartupScript ==
  /\ loader = "loading" /\ ShutDown(queue)
  /\ UNCHANGED <<main, loader, notified, port, services, signal, early>>

\* What can fail comes before the scripts of onStartup.
LoadFails ==
  /\ loader = "loading" /\ loader' = "failed" /\ notified' = (main = "waiting")
  /\ gameState # "shutdown"
  /\ UNCHANGED <<main, gameState, thread, queue, port, services, signal, early>>

\* ServicePort::open fails for those in refused.
LoadEnds ==
  /\ loader = "loading" /\ loader' = "loaded" /\ notified' = (main = "waiting")
  /\ acceptors' = Ports
  /\ \E refused \in SUBSET Ports :
       /\ isOpen' = Ports \ refused
       /\ accept' = [p \in Ports |-> IF p \in refused THEN "none" ELSE "pending"]
       /\ pendingStart' = refused /\ retries' = refused
  /\ gameState' = IF gameState = "shutdown" THEN "shutdown" ELSE "normal"
  /\ UNCHANGED <<main, thread, queue, running, deathTimer, stopPosted, shut, signal, early>>

\* open, from openAcceptor
StillPending(p) == pendingStart
NotPending(p) == pendingStart \ {p}

Open ==
  /\ Task("open") /\ queue' = Tail(queue)
  /\ LET p == Head(queue)[2] IN
     IF p \notin acceptors THEN UNCHANGED port
     ELSE \/ /\ isOpen' = isOpen \cup {p} /\ accept' = [accept EXCEPT ![p] = "pending"]
             /\ pendingStart' = NotPending(p) /\ UNCHANGED retries
          \/ /\ Closed(p) /\ accept' = Aborted(p)
             /\ pendingStart' = pendingStart \cup {p} /\ retries' = retries \cup {p}
  /\ UNCHANGED <<main, loader, notified, gameState, thread, services, signal, early>>

\* sigtermHandler
RunSignal ==
  /\ Task("signal") /\ ShutDown(Tail(queue))
  /\ UNCHANGED <<main, loader, notified, port, services, signal, early>>

\* A task, or a script, that ends the game.
Script ==
  /\ loader = "loaded" /\ thread[Dispatcher] = "running" /\ ShutDown(queue)
  /\ UNCHANGED <<main, loader, notified, port, services, signal, early>>

\* Game::shutdown, with ServiceManager::stop
GameShutdown ==
  /\ Task("shutdown") /\ loader # "loading"
  /\ queue' = Tail(queue) /\ Terminate(Threads)
  /\ IF running
       THEN /\ running' = FALSE /\ stopPosted' = stopPosted \cup acceptors /\ acceptors' = {}
            /\ deathTimer' = TRUE /\ UNCHANGED early
       ELSE early' = TRUE /\ UNCHANGED <<running, acceptors, deathTimer, stopPosted>>
  /\ UNCHANGED <<main, loader, notified, gameState, port, shut, signal>>

-----------------------------------------------------------------------------
MainThread == Wait \/ Wake(FALSE) \/ Run \/ End
DispatcherThread == Load \/ LoadFails \/ LoadEnds \/ Open \/ RunSignal \/ GameShutdown

Next ==
  \/ MainThread \/ Wake(TRUE) \/ HandleSignal \/ Die
  \/ DispatcherThread \/ StartupScript \/ Script \/ Signal
  \/ \E p \in Ports : Complete(p) \/ OnAccept(p) \/ OnStopServer(p) \/ RetryDue(p)
  \/ \E t \in Threads : ThreadEnds(t)

\* Threads run; the loader ends; the signal and the timer have their handlers run.
Fairness ==
  /\ WF_vars(MainThread) /\ WF_vars(DispatcherThread)
  /\ WF_vars(HandleSignal) /\ WF_vars(Die)
  /\ \A t \in Threads : WF_vars(ThreadEnds(t))

Spec == Init /\ [][Next]_vars /\ Fairness

-----------------------------------------------------------------------------
LifeTypeOK ==
  /\ main \in {"starting", "waiting", "online", "serving", "joining", "ended"}
  /\ loader \in {"queued", "loading", "failed", "loaded"}
  /\ gameState \in {"startup", "normal", "shutdown"}
  /\ thread \in [Threads -> {"running", "closing", "terminated", "ended"}]
  /\ acceptors \subseteq Ports /\ isOpen \subseteq Ports
  /\ accept \in [Ports -> {"none", "pending", "ok", "error", "aborted"}]
  /\ retries \subseteq Ports /\ pendingStart \subseteq Ports

Queued(p) == \E i \in 1 .. Len(queue) : queue[i] = <<"open", p>>

\* Until the end begins, each port has an accept outstanding or handled, or one
\* attempt to open it again: never none, which would make the server unreachable
\* on that port for good, and never two, which would open the port twice.
PortServed ==
  gameState = "normal" /\ thread[Dispatcher] = "running" =>
    \A p \in acceptors :
      Cardinality({i \in 1 .. 3 : CASE i = 1 -> accept[p] # "none"
                                    [] i = 2 -> p \in retries
                                    [] i = 3 -> Queued(p)}) = 1

\* A port that was shut stays so: no late retry opens it again.
StaysShut == shut \cap isOpen = {}

\* main does not end before the other threads have.
EndsLast == main = "ended" => \A t \in Threads : thread[t] = "ended"

\* What the ports and threads obey from start to end.
LifeInv == LifeTypeOK /\ PortServed /\ StaysShut /\ EndsLast

\* A server that is asked to shut down does so, and one that fails to load
\* ends, unless the loader notified before main waited, main woke by itself, or
\* the game was shut down before the services ran.
Missed == loader \in {"failed", "loaded"} /\ ~notified
ServerEnds ==
  (gameState = "shutdown" \/ loader = "failed" \/ (Serves /\ signal = "got"))
    ~> (main = "ended" \/ early \/ Missed)

=============================================================================
