---------------------------- MODULE MCDispatcher ----------------------------
(* Two ordinary tasks, one of them with an expiration, two requests to   *)
(* close the game (two signals), two other threads.                        *)
EXTENDS Dispatcher
CONSTANTS t1, x1, c1, c2

MCTasks == {t1, x1, c1, c2}
MCTimedTasks == {x1}
MCCloseTasks == {c1, c2}
=============================================================================
