--------------------------- MODULE SerialExecutor ---------------------------
(***************************************************************************)
(* What the dispatcher promises to the rest of the server: the tasks it    *)
(* accepted are taken one at a time, in the order they were accepted, each *)
(* of them once.  A task that was created with an expiration may be        *)
(* discarded instead of executed, when its turn comes and not earlier.     *)
(*                                                                         *)
(* The module says nothing of threads, locks or batches: Dispatcher is     *)
(* shown to implement it.                                                  *)
(***************************************************************************)
EXTENDS Naturals, Sequences

CONSTANTS Task,       \* every task that can be handed to the executor
          Expiring,   \* those that may be discarded
          None        \* "no task is executing"

VARIABLES queue,      \* accepted, not started yet
          current,    \* the task being executed, or None
          ended       \* the tasks that were executed or discarded

vars == <<queue, current, ended>>

Known == ended \cup {current} \cup {queue[i] : i \in 1 .. Len(queue)}

Init == queue = <<>> /\ current = None /\ ended = {}

Submit(t) ==
  /\ t \notin Known
  /\ queue' = Append(queue, t)
  /\ UNCHANGED <<current, ended>>

Start ==
  /\ current = None /\ queue # <<>>
  /\ current' = Head(queue) /\ queue' = Tail(queue)
  /\ UNCHANGED ended

Discard ==
  /\ current = None /\ queue # <<>> /\ Head(queue) \in Expiring
  /\ ended' = ended \cup {Head(queue)} /\ queue' = Tail(queue)
  /\ UNCHANGED current

Finish ==
  /\ current # None
  /\ ended' = ended \cup {current} /\ current' = None
  /\ UNCHANGED queue

Next == (\E t \in Task : Submit(t)) \/ Start \/ Discard \/ Finish

Spec == Init /\ [][Next]_vars
=============================================================================
