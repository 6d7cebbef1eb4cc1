----------------------------- MODULE Scheduler -----------------------------
(***************************************************************************)
(* The scheduler (scheduler.h, scheduler.cpp): tasks that are handed to    *)
(* the dispatcher after a delay.  addEvent, stopEvent and shutdown only    *)
(* post a handler to an io_context; one thread runs the handlers in the    *)
(* order they were posted.  The completion of a timer is such a handler    *)
(* too: it is posted when the timer expires or is cancelled, and a timer   *)
(* that has expired cannot be cancelled any more.                          *)
(*                                                                         *)
(* Event ids wrap around at IdMod (2^32 in the code), so that an id can be *)
(* given to a second event while the first one still waits.                *)
(***************************************************************************)
EXTENDS Naturals, Sequences, FiniteSets

CONSTANTS Events,   \* the SchedulerTasks
          Delay,      \* Delay[e]: what SchedulerTask::getDelay returns
          IdMod,      \* event ids are below it
          MaxTime     \* bound of the clock

ASSUME SchedulerAssumption ==
  /\ IsFiniteSet(Events) /\ Delay \in [Events -> Nat]
  /\ IdMod \in Nat \ {0, 1} /\ MaxTime \in Nat

VARIABLES
  threadState,  \* ThreadHolder::threadState
  lastEventId,
  eventId,      \* the id each event was given
  ready,        \* the handlers posted to io_context and not run yet
  timerOf,      \* eventIdTimerMap: for an id, the last event that set the timer
  status,       \* where each event is
  due,          \* when the timer of an event expires
  now,
  asked,        \* when addEvent was called
  stopped,      \* the events stopEvent was called for
  late,         \* events given to the dispatcher after Scheduler::shutdown
  ioStopped     \* io_context.stop(): the thread has ended

vars == <<threadState, lastEventId, eventId, ready, timerOf, status, due, now,
          asked, stopped, late, ioStopped>>
clock == <<due, now, asked>>

Ids == 0 .. IdMod - 1
Handlers == ({"add", "fire"} \X Events) \cup ({"stop"} \X Ids) \cup {<<"down", 0>>}
Status == {"new", "posted", "waiting", "expired", "aborted", "firing", "dispatched", "deleted"}

Init ==
  /\ threadState = "RUNNING"
  /\ lastEventId = 1 /\ eventId = [e \in Events |-> 0]
  /\ ready = <<>>
  /\ timerOf = [i \in {} |-> 0]
  /\ status = [e \in Events |-> "new"]
  /\ now = 0 /\ due = [e \in Events |-> 0] /\ asked = [e \in Events |-> 0]
  /\ stopped = {} /\ late = {}
  /\ ioStopped = FALSE

-----------------------------------------------------------------------------
(* Called by other threads.                                                *)

NextId == (lastEventId + 1) % IdMod

AddEvent(e) ==
  /\ status[e] = "new"
  /\ lastEventId' = NextId
  /\ eventId' = [eventId EXCEPT ![e] = lastEventId']
  /\ status' = [status EXCEPT ![e] = "posted"]
  /\ asked' = [asked EXCEPT ![e] = now]
  /\ ready' = Append(ready, <<"add", e>>)
  /\ UNCHANGED <<threadState, timerOf, due, now, stopped, late, ioStopped>>

\* The caller kept the id addEvent returned; stopEvent(0) does nothing.
StopEvent(e) ==
  /\ status[e] # "new" /\ e \notin stopped
  /\ stopped' = stopped \cup {e}
  /\ ready' = IF eventId[e] = 0 THEN ready ELSE Append(ready, <<"stop", eventId[e]>>)
  /\ UNCHANGED <<threadState, lastEventId, eventId, timerOf, status, clock, late, ioStopped>>

Shutdown ==
  /\ threadState # "TERMINATED"
  /\ threadState' = "TERMINATED"
  /\ ready' = Append(ready, <<"down", 0>>)
  /\ UNCHANGED <<lastEventId, eventId, timerOf, status, clock, stopped, late, ioStopped>>

-----------------------------------------------------------------------------
(* Timers.                                                                 *)

Tick ==
  /\ now < MaxTime /\ now' = now + 1
  /\ UNCHANGED <<threadState, lastEventId, eventId, ready, timerOf, status, due,
                 asked, stopped, late, ioStopped>>

Expire(e) ==
  /\ ~ioStopped
  /\ status[e] = "waiting" /\ due[e] <= now
  /\ status' = [status EXCEPT ![e] = "expired"]
  /\ ready' = Append(ready, <<"fire", e>>)
  /\ UNCHANGED <<threadState, lastEventId, eventId, timerOf, clock, stopped, late, ioStopped>>

\* Cancelling the timers of ids aborts the waits that are still pending.
Waiting(ids) == {e \in Events : status[e] = "waiting" /\ eventId[e] \in ids}
Fires(es) ==
  CHOOSE s \in [1 .. Cardinality(es) -> {"fire"} \X es] : {s[i][2] : i \in DOMAIN s} = es

-----------------------------------------------------------------------------
(* The handlers, run by the scheduler thread.                              *)

Idle == \A e \in Events : status[e] # "firing"
Runs(op) == ~ioStopped /\ Idle /\ ready # <<>> /\ Head(ready)[1] = op

\* A second event with the same id gets the first one's timer, and setting
\* its expiry cancels the first one's wait.
OlderNobody(e) == {}
Older(e) == Waiting({eventId[e]})

ExpiryAtOnce(e) == now
Expiry(e) == now + Delay[e]

RunAdd ==
  /\ Runs("add")
  /\ LET e == Head(ready)[2] IN
     /\ status' = [x \in Events |-> IF x = e THEN "waiting"
                                    ELSE IF x \in Older(e) THEN "aborted" ELSE status[x]]
     /\ timerOf' = [i \in DOMAIN timerOf \cup {eventId[e]} |->
                      IF i = eventId[e] THEN e ELSE timerOf[i]]
     /\ due' = [due EXCEPT ![e] = Expiry(e)]
     /\ ready' = Tail(ready) \o Fires(Older(e))
  /\ UNCHANGED <<threadState, lastEventId, eventId, now, asked, stopped, late, ioStopped>>

CancelsNext(i) == Waiting({(i + 1) % IdMod})
Cancels(i) == IF i \in DOMAIN timerOf THEN Waiting({i}) ELSE {}

RunStop ==
  /\ Runs("stop")
  /\ LET es == Cancels(Head(ready)[2]) IN
     /\ status' = [x \in Events |-> IF x \in es THEN "aborted" ELSE status[x]]
     /\ ready' = Tail(ready) \o Fires(es)
  /\ UNCHANGED <<threadState, lastEventId, eventId, timerOf, clock, stopped, late, ioStopped>>

\* The completion of a wait: the map entry goes (with a younger event's
\* timer, when the id was given twice), and the task is deleted or handed on.
Erased(e) == {eventId[e]}

DeletesAborted(e) == status[e] = "aborted"
Deletes(e) == status[e] = "aborted" \/ threadState = "TERMINATED"

RunFire ==
  /\ Runs("fire")
  /\ LET e == Head(ready)[2]
         es == Waiting(Erased(e)) IN
     /\ timerOf' = [i \in DOMAIN timerOf \ Erased(e) |-> timerOf[i]]
     /\ status' = [x \in Events |->
                     IF x = e THEN IF Deletes(e) THEN "deleted" ELSE "firing"
                     ELSE IF x \in es THEN "aborted" ELSE status[x]]
     /\ ready' = Tail(ready) \o Fires(es)
  /\ UNCHANGED <<threadState, lastEventId, eventId, clock, stopped, late, ioStopped>>

\* g_dispatcher.addTask, after the thread state was looked at
Dispatch(e) ==
  /\ status[e] = "firing"
  /\ status' = [status EXCEPT ![e] = "dispatched"]
  /\ late' = IF threadState = "TERMINATED" THEN late \cup {e} ELSE late
  /\ UNCHANGED <<threadState, lastEventId, eventId, ready, timerOf, clock, stopped, ioStopped>>

RunDownOnlyCancels ==
  /\ Runs("down")
  /\ LET es == Waiting(DOMAIN timerOf) IN
     /\ status' = [x \in Events |-> IF x \in es THEN "aborted" ELSE status[x]]
     /\ ready' = Tail(ready) \o Fires(es)
  /\ UNCHANGED <<threadState, lastEventId, eventId, timerOf, clock, stopped, late, ioStopped>>

\* All timers are cancelled, but the thread stops before their handlers run.
RunDown ==
  /\ Runs("down")
  /\ LET es == Waiting(DOMAIN timerOf) IN
     /\ status' = [x \in Events |-> IF x \in es THEN "aborted" ELSE status[x]]
     /\ ready' = Tail(ready) \o Fires(es)
  /\ ioStopped' = TRUE
  /\ UNCHANGED <<threadState, lastEventId, eventId, timerOf, clock, stopped, late>>

-----------------------------------------------------------------------------
ThreadMain == RunAdd \/ RunStop \/ RunFire \/ RunDown \/ \E e \in Events : Dispatch(e)

Next ==
  \/ \E e \in Events : AddEvent(e) \/ StopEvent(e) \/ Expire(e)
  \/ Shutdown \/ Tick \/ ThreadMain

\* The thread runs, time passes and a timer that is due expires.
Fairness ==
  /\ WF_vars(ThreadMain) /\ WF_vars(Tick)
  /\ \A e \in Events : WF_vars(Expire(e))

Spec == Init /\ [][Next]_vars /\ Fairness

-----------------------------------------------------------------------------
TypeOK ==
  /\ threadState \in {"RUNNING", "TERMINATED"}
  /\ lastEventId \in Ids /\ eventId \in [Events -> Ids]
  /\ ready \in Seq(Handlers)
  /\ DOMAIN timerOf \subseteq Ids /\ \A i \in DOMAIN timerOf : timerOf[i] \in Events
  /\ status \in [Events -> Status]
  /\ now \in 0 .. MaxTime /\ due \in [Events -> Nat] /\ asked \in [Events -> 0 .. MaxTime]
  /\ stopped \subseteq Events /\ late \subseteq Events /\ ioStopped \in BOOLEAN

\* A waiting event can always be found by its id, also when ids wrap around:
\* otherwise neither stopEvent nor shutdown could cancel it.
WaitingIsKnown ==
  \A e \in Events :
    status[e] = "waiting" => eventId[e] \in DOMAIN timerOf /\ timerOf[eventId[e]] = e

\* The task is deleted or handed on by one handler only, and has one as long
\* as its wait is over: it is neither leaked nor deleted twice.
OneCompletion ==
  \A e \in Events :
    Cardinality({i \in 1 .. Len(ready) : ready[i] = <<"fire", e>>})
      = IF status[e] \in {"expired", "aborted"} THEN 1 ELSE 0

\* No task reaches the dispatcher before its delay has passed.
NeverEarly ==
  \A e \in Events : status[e] \in {"firing", "dispatched"} => now >= asked[e] + Delay[e]

\* After Scheduler::shutdown, at most the task whose handler had already
\* looked at the thread state is given to the dispatcher.
AtMostOneLate == Cardinality(late) <= 1

\* What every state of the scheduler obeys: it knows each timer, once, and is
\* neither early nor, but for one task, too late.
Inv == TypeOK /\ WaitingIsKnown /\ OneCompletion /\ NeverEarly /\ AtMostOneLate

\* A task that nobody stops, and whose id was not given out again meanwhile,
\* reaches the dispatcher, unless the scheduler is shut down: stopping one event
\* never takes another one with it.
SharesId(e) == \E f \in Events \ {e} : status[f] # "new" /\ eventId[f] = eventId[e]
UnstoppedFires ==
  \A e \in Events :
    status[e] = "posted" ~>
      (status[e] = "dispatched" \/ e \in stopped \/ SharesId(e) \/ threadState = "TERMINATED"
       \/ due[e] > MaxTime)

\* After Scheduler::shutdown the thread ends.
ThreadEnds == (threadState = "TERMINATED") ~> ioStopped
=============================================================================
