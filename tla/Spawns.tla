------------------------------- MODULE Spawns -------------------------------
(***************************************************************************)
(* One spawn of monsters (spawn.cpp, and monster.cpp where a monster comes *)
(* and goes): it counts its monsters, and when one is gone an event checks *)
(* every now and then whether there is room for another.  A spawn of       *)
(* blocks makes a monster per block, a TVP spawn has one block and an      *)
(* amount.                                                                 *)
(*                                                                         *)
(* Where a player stands near, no monster appears; whether a monster can   *)
(* be placed is up to the map.  Time is only whether that of a block has   *)
(* passed.                                                                 *)
(***************************************************************************)
EXTENDS Naturals, FiniteSets

CONSTANTS
  Last,        \* the number of the last block
  Amount,      \* how many monsters the spawn is to have
  Monsters,    \* the monsters there is room for
  MaxLost      \* bound: how many are counted although they are gone

SpawnsAssumption ==
  IsFiniteSet(Monsters) /\ Last \in Nat /\ Amount \in Nat /\ MaxLost \in Nat

ASSUME SpawnsAssumed == SpawnsAssumption

Blocks == 1 .. Last

VARIABLES
  activeMonsters,
  checkSpawnEvent,  \* is not 0
  pending,          \* the scheduler has the event
  ready,            \* the blocks whose nextSpawnTime has passed
  monster,          \* "none", "here" (spawn is set) or "away" (originalSpawn is)
  lost,             \* history: monsters whose scripts kept them from being discounted
  returned,         \* history: those that came back from outside the radius
  state             \* "loaded", "short" (started with monsters missing), "started", "cleared"

vars == <<activeMonsters, checkSpawnEvent, pending, ready, monster, lost, returned, state>>

Init ==
  /\ activeMonsters = 0 /\ checkSpawnEvent = FALSE /\ pending = FALSE
  /\ ready = Blocks
  /\ monster = [m \in Monsters |-> "none"]
  /\ lost = 0 /\ returned = {} /\ state = "loaded"

Here == {m \in Monsters : monster[m] = "here"}
Unused == {m \in Monsters : monster[m] = "none"}

-----------------------------------------------------------------------------
\* startSpawnCheck
StartSpawnCheck ==
  /\ checkSpawnEvent' = TRUE
  /\ pending' = (pending \/ ~checkSpawnEvent)
  /\ state' = IF state = "short" THEN "started" ELSE state

\* spawnMonster for n blocks.  The monster is counted after it was placed, also
\* when a script that greets it has removed it meanwhile.
SpawnMonsters(n) ==
  \E ms \in {s \in SUBSET Unused : Cardinality(s) <= n} :
    LET removed == n - Cardinality(ms) IN
    /\ lost + removed <= MaxLost /\ lost' = lost + removed
    /\ monster' = [m \in Monsters |-> IF m \in ms THEN "here" ELSE monster[m]]
    /\ activeMonsters' = activeMonsters + n

\* Spawn::startup and TvpSpawn::startup; those that cannot be placed are missing.
Startup ==
  /\ state = "loaded"
  /\ \E n \in 0 .. Amount :
       SpawnMonsters(n) /\ state' = IF n < Amount THEN "short" ELSE "started"
  /\ UNCHANGED <<checkSpawnEvent, pending, ready, returned>>

CheckStays == checkSpawnEvent
CheckOver == FALSE

\* checkSpawn: the blocks are tried in order until the spawn is full.  One that
\* was tried waits again, whether its monster could be placed or not, and nobody
\* asks whether its last one is still there.
CheckSpawn ==
  /\ pending
  /\ IF activeMonsters >= Amount
       THEN /\ checkSpawnEvent' = CheckOver /\ pending' = FALSE
            /\ UNCHANGED <<activeMonsters, ready, monster, lost>>
       ELSE /\ \E watched \in SUBSET Blocks, tried \in SUBSET ready :
                 LET open == ready \ watched IN
                 /\ tried \subseteq open /\ \A b \in tried, c \in open : c < b => c \in tried
                 /\ \E n \in 0 .. Cardinality(tried) :
                      /\ activeMonsters + n <= Amount
                      /\ tried # open => n > 0 /\ activeMonsters + n = Amount
                      /\ SpawnMonsters(n)
                 /\ ready' = ready \ tried
            /\ checkSpawnEvent' = TRUE /\ pending' = TRUE
  /\ UNCHANGED <<returned, state>>

Elapse(b) ==
  /\ ready' = ready \cup {b}
  /\ UNCHANGED <<activeMonsters, checkSpawnEvent, pending, monster, lost, returned, state>>

\* Monster::onRemoveCreature, which its script may cut short.
Remove(m) ==
  /\ monster[m] # "none" /\ monster' = [monster EXCEPT ![m] = "none"]
  /\ returned' = returned \ {m}
  /\ \/ monster[m] = "here" /\ activeMonsters' = activeMonsters - 1 /\ StartSpawnCheck /\ UNCHANGED lost
     \/ /\ monster[m] = "here" => lost < MaxLost
        /\ lost' = IF monster[m] = "here" THEN lost + 1 ELSE lost
        /\ UNCHANGED <<activeMonsters, checkSpawnEvent, pending, state>>
  /\ UNCHANGED ready

\* Monster::onIdleStimulus, where monsters may leave their spawn to others
Leave(m) ==
  /\ monster[m] = "here" /\ monster' = [monster EXCEPT ![m] = "away"]
  /\ activeMonsters' = activeMonsters - 1 /\ StartSpawnCheck
  /\ returned' = returned \ {m}
  /\ UNCHANGED <<ready, lost>>

Return(m) ==
  /\ monster[m] = "away" /\ monster' = [monster EXCEPT ![m] = "here"]
  /\ activeMonsters' = activeMonsters + 1
  /\ returned' = returned \cup {m}
  /\ UNCHANGED <<checkSpawnEvent, pending, ready, lost, state>>

\* Spawns::clear, when the game shuts down
Clear ==
  /\ state # "cleared" /\ state' = "cleared"
  /\ checkSpawnEvent' = FALSE /\ pending' = FALSE
  /\ UNCHANGED <<activeMonsters, ready, monster, lost, returned>>

Next ==
  \/ Startup \/ CheckSpawn \/ Clear
  \/ \E b \in Blocks : Elapse(b)
  \/ \E m \in Monsters : Remove(m) \/ Leave(m) \/ Return(m)

Spec == Init /\ [][Next]_vars

-----------------------------------------------------------------------------
SpawnTypeOK ==
  /\ activeMonsters \in 0 .. Cardinality(Monsters) + MaxLost
  /\ checkSpawnEvent \in BOOLEAN /\ pending \in BOOLEAN
  /\ ready \subseteq Blocks /\ returned \subseteq Here
  /\ monster \in [Monsters -> {"none", "here", "away"}] /\ lost \in 0 .. MaxLost
  /\ state \in {"loaded", "short", "started", "cleared"}

\* The count is that of the monsters which will decrease it, and it never falls
\* below 0; one that a script removed as it appeared, or whose script has
\* handled its removal, is counted for good.
CountIsRight == activeMonsters = Cardinality(Here) + lost

\* Only monsters that return, and those counted for good, make the spawn too full.
NotTooMany == activeMonsters <= Amount + Cardinality(returned) + lost

\* A spawn that misses a monster has exactly one event to look after it, unless
\* all it misses are those it never had.
MissedIsLookedFor ==
  /\ state = "started" /\ activeMonsters < Amount => pending
  /\ state # "cleared" => (pending <=> checkSpawnEvent)

\* What a spawn obeys, with players in the way or not.
SpawnInv == SpawnTypeOK /\ CountIsRight /\ NotTooMany /\ MissedIsLookedFor

=============================================================================
