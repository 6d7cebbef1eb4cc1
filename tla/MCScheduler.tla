---------------------------- MODULE MCScheduler ----------------------------
(* Three events, one of them without a delay, and the ids 0 and 1: an event *)
(* may get an id that a waiting one still holds, and id 0.                  *)
EXTENDS Scheduler, TLC
CONSTANTS e1, e2, e3

MCEvents == {e1, e2, e3}
MCDelay == (e1 :> 1) @@ (e2 :> 0) @@ (e3 :> 1)
=============================================================================
