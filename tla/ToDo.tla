------------------------------- MODULE ToDo -------------------------------
(***************************************************************************)
(* The to-do list of one creature (creature.cpp).  Every walk, attack and  *)
(* action of players, monsters and npcs is an entry of such a list.        *)
(* Nothing polls the lists: startToDo schedules one event that calls       *)
(* executeToDoEntries, which runs what is due and schedules the next.      *)
(* Events are never cancelled, so that those of replaced lists still come. *)
(* A list that no pending event will serve is a creature that freezes.     *)
(*                                                                         *)
(* Times are remaining times, in units of 25 ms; Tick counts them down.    *)
(***************************************************************************)
EXTENDS Naturals, Sequences

CONSTANTS Plans,      \* the lists that handlers and onIdleStimulus build
          Cooldowns,  \* the delays that running an entry may cause
          MinDelay,   \* the shortest delay an event is scheduled with: 50 ms
          MaxDelay,
          MaxOrders   \* bound on what replaces or disturbs a list

Gates == {"walk", "attack", "multi"}  \* earliestWalkTime, -AttackTime, -MultiUseTime
Entry == {"wait", "walk", "attack", "useex", "action"} \X (0 .. MaxDelay)

ASSUME ToDoAssumption ==
  /\ MinDelay \in Nat /\ MaxDelay \in Nat /\ MinDelay <= MaxDelay /\ MaxOrders \in Nat
  /\ Cooldowns \subseteq 0 .. MaxDelay
  /\ Plans \subseteq Seq(Entry)

VARIABLES
  entries,    \* toDoEntries; an entry's number is the time a wait has left
  executing,  \* isExecuting
  stop,       \* stopExecuting
  current,    \* currentToDo
  wake,       \* how far away earliestWakeUpTime is
  cooldown,   \* how far away the time of each gate is
  events,     \* events[d]: how many pending events are due in d
  running,    \* executeToDoEntries is in its loop
  removed,    \* isRemoved()
  orders      \* how often the list was replaced or interfered with

vars == <<entries, executing, stop, current, wake, cooldown, events, running, removed, orders>>
list == <<entries, executing, stop, current>>
timers == <<wake, events>>

Init ==
  /\ entries = <<>> /\ executing = FALSE /\ stop = FALSE /\ current = 0
  /\ wake = 0 /\ cooldown = [g \in Gates |-> 0]
  /\ events = [d \in 0 .. MaxDelay |-> 0]
  /\ running = FALSE /\ removed = FALSE /\ orders = 0

-----------------------------------------------------------------------------
(* The list.                                                               *)

Larger(a, b) == IF a >= b THEN a ELSE b

\* calculateToDoDelay
Delay(e, cd) ==
  CASE e[1] = "wait"   -> Larger(e[2], cd["walk"])
    [] e[1] = "walk"   -> cd["walk"]
    [] e[1] = "useex"  -> cd["multi"]
    [] e[1] = "attack" -> cd["attack"]
    [] e[1] = "action" -> 0

\* An event for earliestWakeUpTime, never sooner than MinDelay.
Schedule(d) ==
  /\ wake' = d
  /\ events' = [events EXCEPT ![Larger(d, MinDelay)] = @ + 1]

\* clearToDo
Clear == entries' = <<>> /\ executing' = FALSE /\ stop' = FALSE /\ current' = 0

\* A start that forgets that a list that is due at once needs an event too.
PlanInPlace(p, cd) ==
  IF p = <<>> THEN Clear /\ UNCHANGED timers
  ELSE /\ entries' = p /\ executing' = TRUE /\ stop' = FALSE /\ current' = 0
       /\ IF Delay(p[1], cd) = 0 THEN wake' = 0 /\ UNCHANGED events ELSE Schedule(Delay(p[1], cd))

\* clearToDo, the add calls for the entries of p, and startToDo, which does
\* nothing for an empty list.
Plan(p, cd) ==
  IF p = <<>>
  THEN Clear /\ UNCHANGED timers
  ELSE /\ entries' = p /\ executing' = TRUE /\ stop' = FALSE /\ current' = 0
       /\ Schedule(Delay(p[1], cd))

-----------------------------------------------------------------------------
(* What other handlers of the dispatcher do while the loop does not run.   *)

Disturb == orders < MaxOrders /\ orders' = orders + 1
Other == ~running /\ ~removed /\ Disturb

\* A packet, a script, the creature's own brain: the list is replaced.
Order ==
  /\ Other /\ \E p \in Plans : Plan(p, cooldown)
  /\ UNCHANGED <<cooldown, running, removed>>

\* addYieldToDo: activates a creature that has nothing to do.
Yield ==
  /\ Other /\ ~executing
  /\ Plan(<< <<"wait", MinDelay>> >>, cooldown)
  /\ UNCHANGED <<cooldown, running, removed>>

\* stopToDo: the loop will stop after the entry it runs next.
Stop ==
  /\ Other /\ executing /\ stop' = TRUE
  /\ UNCHANGED <<entries, executing, current, timers, cooldown, running, removed>>

\* Creature::onCreatureMove after somebody else moved the creature: a longer
\* way, a teleport say, also clears the list.
Moved ==
  /\ Other
  /\ \E c \in Cooldowns : cooldown' = [cooldown EXCEPT !["walk"] = c]
  /\ Clear \/ UNCHANGED list
  /\ UNCHANGED <<timers, running, removed>>

\* Monster::onCreatureMove, Player::onCreatureMove: the target has moved
\* while the creature waits to attack.  The new list may be empty.
TargetMoved ==
  /\ Other /\ executing /\ current < Len(entries)
  /\ entries[current + 1][1] = "attack" /\ cooldown["attack"] > 0
  /\ \E p \in Plans : Plan(p, cooldown)
  /\ UNCHANGED <<cooldown, running, removed>>

Remove ==
  /\ Other /\ removed' = TRUE
  /\ UNCHANGED <<list, timers, cooldown, running>>

-----------------------------------------------------------------------------
(* executeToDoEntries.                                                     *)

\* Game::executeCreature
Fire ==
  /\ ~running /\ events[0] > 0
  /\ events' = [events EXCEPT ![0] = @ - 1]
  /\ running' = (~removed /\ entries # <<>>)
  /\ UNCHANGED <<list, wake, cooldown, removed, orders>>

Goes == executing /\ ~removed /\ wake = 0

LoopEnds ==
  /\ running /\ ~Goes /\ running' = FALSE
  /\ UNCHANGED <<list, timers, cooldown, removed, orders>>

\* onIdleStimulus makes the next list, or none.
ListDone ==
  /\ running /\ Goes /\ current >= Len(entries)
  /\ \E p \in Plans : Plan(p, cooldown)
  /\ running' = FALSE
  /\ UNCHANGED <<cooldown, removed, orders>>

NotYet == running /\ Goes /\ current < Len(entries) /\ Delay(entries[current + 1], cooldown) > 0

\* A wait that relies on the event of the list's start.
WaitUnscheduled ==
  /\ NotYet
  /\ IF stop THEN Clear /\ UNCHANGED timers
             ELSE wake' = Delay(entries[current + 1], cooldown) /\ UNCHANGED <<list, events>>
  /\ running' = FALSE
  /\ UNCHANGED <<cooldown, removed, orders>>

Wait ==
  /\ NotYet
  /\ IF stop THEN Clear /\ UNCHANGED timers
             ELSE Schedule(Delay(entries[current + 1], cooldown)) /\ UNCHANGED list
  /\ running' = FALSE
  /\ UNCHANGED <<cooldown, removed, orders>>

\* The entry has run and has left the list alone: a pending stop ends it.
Proceed ==
  IF stop THEN Clear /\ running' = FALSE
          ELSE current' = current + 1 /\ UNCHANGED <<entries, executing, stop, running>>

GateOf(e) == CASE e[1] = "walk" -> "walk" [] e[1] = "useex" -> "multi" [] OTHER -> "attack"

RunEntry ==
  /\ running /\ Goes /\ current < Len(entries) /\ Delay(entries[current + 1], cooldown) = 0
  /\ LET e == entries[current + 1]
     IN IF e[1] = "wait"
        THEN Proceed /\ UNCHANGED <<timers, cooldown, removed, orders>>
        ELSE \E c \in Cooldowns :
               /\ cooldown' = [cooldown EXCEPT ![GateOf(e)] = c]
               /\ \/ Proceed /\ UNCHANGED <<timers, removed, orders>>
                  \* the entry replaces the list it is in: a blocked step, a
                  \* monster that is hit; the new list goes on in the same loop
                  \/ /\ Disturb /\ \E p \in Plans : Plan(p, cooldown')
                     /\ UNCHANGED <<running, removed>>
                  \* it kills or removes the creature
                  \/ /\ removed' = TRUE /\ current' = current + 1
                     /\ UNCHANGED <<entries, executing, stop, running, timers, orders>>

-----------------------------------------------------------------------------

Less(n) == IF n = 0 THEN 0 ELSE n - 1

\* 25 ms pass.
Tick ==
  /\ wake' = Less(wake)
  /\ cooldown' = [g \in Gates |-> Less(cooldown[g])]
  /\ entries' = [i \in DOMAIN entries |-> <<entries[i][1], Less(entries[i][2])>>]
  /\ events' = [d \in 0 .. MaxDelay |->
                  (IF d < MaxDelay THEN events[d + 1] ELSE 0) + (IF d = 0 THEN events[0] ELSE 0)]
  /\ UNCHANGED <<executing, stop, current, running, removed, orders>>

Loop == LoopEnds \/ ListDone \/ Wait \/ RunEntry

Next ==
  \/ Order \/ Yield \/ Stop \/ Moved \/ TargetMoved \/ Remove
  \/ Fire \/ LoopEnds \/ ListDone \/ Wait \/ RunEntry \/ Tick

\* The scheduler delivers its events, the dispatcher runs its handlers to
\* their end, and time passes.
Fairness == WF_vars(Fire) /\ WF_vars(Loop) /\ WF_vars(Tick)

Spec == Init /\ [][Next]_vars /\ Fairness

-----------------------------------------------------------------------------
(* Properties.                                                             *)

TypeOK ==
  /\ entries \in Seq(Entry) /\ executing \in BOOLEAN /\ stop \in BOOLEAN
  /\ current \in Nat /\ wake \in 0 .. MaxDelay
  /\ cooldown \in [Gates -> 0 .. MaxDelay]
  /\ events \in [0 .. MaxDelay -> Nat]
  /\ running \in BOOLEAN /\ removed \in BOOLEAN /\ orders \in Nat

\* A list that is not being executed is empty, and no stop outlives its list:
\* a later list must not be ended by the request to end an earlier one.
ListMatchesFlags ==
  /\ executing <=> entries # <<>>
  /\ current <= Len(entries)
  /\ ~executing => ~stop

\* An event comes at or after the time the list waits for: executeToDoEntries
\* ignores an event that comes sooner and schedules nothing for it.
Armed == (executing /\ ~removed /\ ~running) => \E d \in wake .. MaxDelay : events[d] > 0

\* A creature that has something to do has an event coming that will do it
\* (creature.cpp startToDo, executeToDoEntries).
Inv == TypeOK /\ ListMatchesFlags /\ Armed

\* A list that is being executed moves on, is replaced, or ends; a creature
\* does not freeze in the middle of one (executeToDoEntries, stopToDo).
QueueMoves ==
  \A n \in 0 .. 3 : (executing /\ current = n) ~> (removed \/ ~executing \/ current # n)

=============================================================================
