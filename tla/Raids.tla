------------------------------- MODULE Raids --------------------------------
(***************************************************************************)
(* Raids (raids.cpp): a check every ten seconds starts the first raid that *)
(* is due, scripts start them too; a raid schedules one of its events      *)
(* after the other and keeps the others away until it ends or one of its   *)
(* events fails.  A reload deletes the raids and loads them again, while   *)
(* tasks of the old ones may already be on their way to the dispatcher.    *)
(***************************************************************************)
EXTENDS Naturals, FiniteSets

CONSTANTS
  Names,       \* the raids
  Events,      \* [Names -> Nat]: how many events a raid has
  Interval,    \* [Names -> BOOLEAN]: it happens again
  None,
  MaxLoads,    \* bound: how often they are loaded
  MaxRuns      \* bound: raids started after one load

RaidsAssumption ==
  /\ None \notin Names /\ Events \in [Names -> Nat] /\ Interval \in [Names -> BOOLEAN]
  /\ MaxLoads \in Nat \ {0} /\ MaxRuns \in Nat

VARIABLES
  load,        \* which load the raids are of
  running,     \* Raids::running
  next,        \* [Names -> Nat]: Raid::nextEvent
  executed,    \* the raids with Raid::executed
  due,         \* the raids whose date has passed
  checks,      \* how many chains of checkRaids there are
  pending,     \* scheduled executeRaidEvent: [name, at, load]
  stoppable,   \* those of them that stopEvent still finds
  runs,        \* raids started since the load
  happened     \* history: [Names -> Nat], the events of its last run that took place

vars == <<load, running, next, executed, due, checks, pending, stoppable, runs, happened>>

\* getNextRaidEvent, scheduled.
Schedule(r, n) ==
  IF n < Events[r] THEN {[name |-> r, at |-> n, load |-> load]} ELSE {}

\* setRunning and startRaid.
StartRaid(r) ==
  /\ running' = r
  /\ pending' = pending \cup Schedule(r, next[r])
  /\ stoppable' = stoppable \cup Schedule(r, next[r])
  /\ runs' = runs + 1
  /\ happened' = [happened EXCEPT ![r] = 0]

\* Nothing else runs; the second form starts one raid beside the other.
NoneRuns == running = None
AnyTime == TRUE
Idle == NoneRuns

\* The check, which schedules the next one; it finds a raid that is due and was not started
\* by a check since the load, and settles its next date.
CheckRaids ==
  /\ checks > 0 /\ runs < MaxRuns
  /\ LET ready == due \ executed
     IN /\ Idle
        /\ \E r \in ready :
             /\ StartRaid(r)
             /\ executed' = executed \cup {r}
             /\ due' = IF Interval[r] THEN due \ {r} ELSE due
  /\ UNCHANGED <<load, next, checks>>

\* Game.startRaid of a script: unless one is running.
LuaGameStartRaid(r) ==
  /\ Idle /\ runs < MaxRuns
  /\ StartRaid(r)
  /\ UNCHANGED <<load, next, executed, due, checks>>

\* The timer of the event has fired: its task is queued, and stopEvent finds it no longer.
\* (Should it outlive the raid it calls a deleted object: such a task is kept but not run.)
Dispatched(e) ==
  /\ e \in stoppable
  /\ stoppable' = stoppable \ {e}
  /\ UNCHANGED <<load, running, next, executed, due, checks, pending, runs, happened>>

ResetRaid(r) == next' = [next EXCEPT ![r] = 0] /\ running' = None

ExecuteRaidEvent(e, succeeds) ==
  LET r == e.name
      after == IF succeeds THEN Schedule(r, next[r] + 1) ELSE {}
  IN /\ e \in pending \ stoppable
     /\ e.load = load
     /\ pending' = (pending \ {e}) \cup after
     /\ stoppable' = stoppable \cup after
     /\ IF after # {} THEN next' = [next EXCEPT ![r] = @ + 1] /\ UNCHANGED running
        ELSE ResetRaid(r)
     /\ happened' = [happened EXCEPT ![r] = IF succeeds THEN @ + 1 ELSE @]
     /\ UNCHANGED <<load, executed, due, checks, runs>>

\* clear, loadFromXml, startup.  stopEvents of each raid takes its event back, if the
\* scheduler still has it; the last check is taken back too, unless it is on its way.
Reload ==
  /\ load < MaxLoads
  /\ load' = load + 1
  /\ checks' \in {checks, checks + 1}
  /\ running' = None /\ next' = [r \in Names |-> 0] /\ executed' = {}
  /\ pending' = pending \ stoppable /\ stoppable' = {}
  /\ runs' = 0 /\ happened' = [r \in Names |-> 0]
  /\ UNCHANGED due

Due(r) ==
  /\ r \notin due
  /\ due' = due \cup {r}
  /\ UNCHANGED <<load, running, next, executed, checks, pending, stoppable, runs, happened>>

Init ==
  /\ load = 1 /\ checks = 1 /\ running = None
  /\ next = [r \in Names |-> 0] /\ executed = {} /\ due = {}
  /\ pending = {} /\ stoppable = {} /\ runs = 0 /\ happened = [r \in Names |-> 0]

Next ==
  \/ CheckRaids \/ Reload
  \/ \E r \in Names : LuaGameStartRaid(r) \/ Due(r)
  \/ \E e \in pending : Dispatched(e) \/ \E ok \in BOOLEAN : ExecuteRaidEvent(e, ok)

Spec == Init /\ [][Next]_vars

-----------------------------------------------------------------------------
RaidsTypeOK ==
  /\ load \in 1..MaxLoads /\ running \in Names \cup {None} /\ next \in [Names -> Nat]
  /\ executed \subseteq Names /\ due \subseteq Names /\ checks \in 1..MaxLoads
  /\ pending \subseteq [name : Names, at : Nat, load : 1..MaxLoads] /\ stoppable \subseteq pending
  /\ runs \in 0..MaxRuns /\ happened \in [Names -> Nat]

\* The raid that runs has one task, for its next event, and no other raid has one; without
\* it the raid would keep all others away for ever (raids.cpp:249).  What an old load has
\* left behind is not theirs.
RunsAlone ==
  {e \in pending : e.load = load} =
    IF running # None /\ next[running] < Events[running]
    THEN {[name |-> running, at |-> next[running], load |-> load]} ELSE {}

\* The events of a raid happen in their order, each once, and a new run begins with the
\* first.
InOrder == \A r \in Names : next[r] = IF r = running THEN happened[r] ELSE 0

RaidsInv == RaidsTypeOK /\ RunsAlone /\ InOrder
=============================================================================
