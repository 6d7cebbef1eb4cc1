------------------------------ MODULE Targets ------------------------------
(***************************************************************************)
(* Whom a monster has noticed (monster.cpp): its list of targets, whether  *)
(* it is idle, and its place in the lists of creatures that think          *)
(* (Game::checkCreatures).  Nobody searches for targets: the list is what  *)
(* the notifications of appearing, moving and leaving creatures make of    *)
(* it, and an idle monster neither moves nor thinks, so that what it has   *)
(* missed it goes on missing.                                              *)
(*                                                                         *)
(* Places lie on a line.  Being seen and being notified are different      *)
(* distances: the spectators of a place are more than those who see it.    *)
(***************************************************************************)
EXTENDS Integers, FiniteSets

CONSTANTS Monsters, Players,
          Places,       \* a set of numbers
          SightRange,   \* how far a monster sees
          ViewRange,    \* how far away one is told what happens
          None

\* Who is seen is told: the spectators of a place are at least those who see it.
TargetsAssumption ==
  /\ Monsters \cap Players = {}
  /\ Places \subseteq Int /\ SightRange \in Nat /\ ViewRange \in Nat /\ SightRange <= ViewRange

Creatures == Monsters \cup Players

VARIABLES
  place,       \* where a creature is, or was last; None before it is placed
  onMap,       \* the creatures that are placed
  removed,     \* the creatures that were removed
  dead,        \* the creatures without health: killedCreatures, until cleanup
  master,      \* the player whose summon a monster is
  ghosts,      \* players in ghost mode
  list,        \* targetList
  idle,        \* the monsters with isIdle
  check,       \* "in": thinks; "leaving": to be taken from its list; "out"
  overlooked   \* history: the pairs that changed sides, and nobody was told

vars == <<place, onMap, removed, dead, master, ghosts, list, idle, check, overlooked>>
sides == <<master, ghosts, overlooked>>

Init ==
  /\ place = [c \in Creatures |-> None]
  /\ onMap = {} /\ removed = {} /\ dead = {}
  /\ master = [m \in Monsters |-> None] /\ ghosts = {}
  /\ list = [m \in Monsters |-> {}]
  /\ idle = Monsters
  /\ check = [m \in Monsters |-> "out"]
  /\ overlooked = {}

-----------------------------------------------------------------------------
(* What a monster makes of what it is told.  pl and on are the positions   *)
(* and the creatures on the map at that moment.                            *)

Within(range, a, b) == a - b \in -range .. range
Sees(m, c, pl) == Within(SightRange, pl[m], pl[c])

\* The monsters among the spectators of a place.
Spectators(p, pl, on) == {m \in Monsters \cap on : Within(ViewRange, pl[m], p)}

\* isOpponent
Opponent(m, c, mas, gh) ==
  /\ IF mas[m] # None THEN c # mas[m] ELSE c \in Monsters => mas[c] # None
  /\ c \notin gh

Enemies(m, on) == {c \in on \ {m} : Opponent(m, c, master, ghosts)}

\* updateTargetList
UpdateTargetList(m, l, pl, on) ==
  {c \in l : c \notin dead /\ Sees(m, c, pl)} \cup {c \in Enemies(m, on) : Sees(m, c, pl)}

\* onCreatureFound
Found(m, c, l, pl) ==
  IF Sees(m, c, pl) /\ Opponent(m, c, master, ghosts) THEN l \cup {c} ELSE l

\* A leave that trusts the update of the list to drop the creature.
LeaveByUpdate(m, c, pl, on) == UpdateTargetList(m, list[m], pl, on)

\* onCreatureLeave
Leave(m, c, pl, on) ==
  UpdateTargetList(m, IF Opponent(m, c, master, ghosts) THEN list[m] \ {c} ELSE list[m], pl, on)

\* addCreatureCheck and removeCreatureCheck
Unchecked(ch) == IF ch = "out" THEN "out" ELSE "leaving"

\* The monsters of ms get their new lists and call updateIdleStatus, which
\* does nothing for those who are dead.  One that has nobody on its list is idle
\* (rest), but not while it has a condition; conditions come and go, and here any
\* monster may have one.  One that is placed thinks in any case, one that goes is
\* idle and does not.
React(ms, new, placed, gone) ==
  LET alive == ms \ (dead \cup gone) IN
  \E rest \in SUBSET {m \in alive : master[m] = None /\ new[m] = {}} :
    /\ list' = [m \in Monsters |-> IF m \in gone THEN {} ELSE IF m \in ms THEN new[m] ELSE list[m]]
    /\ idle' = (idle \ alive) \cup rest \cup (gone \ dead)
    /\ check' = [m \in Monsters |-> CASE m \in placed \cup (alive \ rest) -> "in"
                                      [] m \in (rest \ placed) \cup gone -> Unchecked(check[m])
                                      [] OTHER -> check[m]]

-----------------------------------------------------------------------------
(* The game.                                                               *)

InGame(c) == c \in onMap

\* placeCreature; a monster is made to think whatever it has noticed.
Place(c, p) ==
  /\ c \notin onMap \cup removed
  /\ place' = [place EXCEPT ![c] = p]
  /\ LET on == onMap \cup {c}
         ms == Spectators(p, place', on)
         new == [m \in ms |-> IF m = c THEN UpdateTargetList(m, {}, place', on)
                                       ELSE Found(m, c, list[m], place')]
     IN onMap' = on /\ React(ms, new, Monsters \cap {c}, {})
  /\ UNCHANGED <<removed, dead, sides>>

\* onCreatureMove of everybody around the old and the new place.
Move(c, p) ==
  /\ InGame(c) /\ p # place[c]
  /\ place' = [place EXCEPT ![c] = p]
  /\ LET ms == Spectators(place[c], place, onMap) \cup Spectators(p, place', onMap)
         new == [m \in Monsters \cap onMap |->
                   CASE m = c -> UpdateTargetList(m, list[m], place', onMap)
                     [] m # c /\ Sees(m, c, place') /\ ~Sees(m, c, place) ->
                          Found(m, c, list[m], place')
                     [] m # c /\ ~Sees(m, c, place') /\ Sees(m, c, place) ->
                          Leave(m, c, place', onMap)
                     [] OTHER -> list[m]]
     IN React(ms, new, {}, {})
  /\ UNCHANGED <<onMap, removed, dead, sides>>

\* removeCreature: everybody around is told before the creature is removed.
RemoveCreature(c) ==
  LET on == onMap \ {c}
      new == [m \in Monsters \cap on |-> Leave(m, c, place, on)]
  IN /\ onMap' = on /\ removed' = removed \cup {c}
     /\ React(Spectators(place[c], place, on), new, {}, Monsters \cap {c})

\* A logout, a despawn, a script.  A summon leaves its master if he is there.
Remove(c) ==
  /\ InGame(c) /\ c \notin dead /\ RemoveCreature(c)
  /\ master' = IF c \in Monsters /\ master[c] \notin removed
               THEN [master EXCEPT ![c] = None] ELSE master
  /\ UNCHANGED <<place, dead, ghosts, overlooked>>

\* changeHealth; the death of somebody without health is left to cleanup.
Hurt(c) ==
  /\ InGame(c) /\ c \notin dead
  /\ dead' \in {dead, dead \cup {c}}
  /\ idle' = idle \ {c}
  /\ check' = [m \in Monsters |-> IF m = c THEN "in" ELSE check[m]]
  /\ UNCHANGED <<place, onMap, removed, list, sides>>

\* onDeath: the list is cleared, the master left, the creature removed.
Die(c) ==
  /\ InGame(c) /\ c \in dead
  /\ RemoveCreature(c)
  /\ master' = IF c \in Monsters THEN [master EXCEPT ![c] = None] ELSE master
  /\ UNCHANGED <<place, dead, ghosts, overlooked>>

\* checkCreatures: monster m thinks, or is taken from the list.
Think(m) ==
  /\ check[m] = "in" /\ m \notin dead
  /\ React({m}, list, {}, {})
  /\ UNCHANGED <<place, onMap, removed, dead, sides>>

Uncheck(m) ==
  /\ check[m] = "leaving"
  /\ check' = [check EXCEPT ![m] = "out"]
  /\ UNCHANGED <<place, onMap, removed, dead, sides, list, idle>>

-----------------------------------------------------------------------------
(* Changing sides.                                                         *)

\* player:setGhostMode.  Nobody is told of a player who becomes a ghost.
Vanish(p) ==
  /\ InGame(p) /\ p \notin ghosts
  /\ ghosts' = ghosts \cup {p}
  /\ overlooked' = overlooked \cup (Monsters \X {p})
  /\ UNCHANGED <<place, onMap, removed, dead, master, list, idle, check>>

\* The monsters around a ghost that reappears are told that he appears.
Reappear(p) ==
  /\ InGame(p) /\ p \in ghosts
  /\ ghosts' = ghosts \ {p}
  /\ LET ms == Spectators(place[p], place, onMap)
         found == {m \in ms : Sees(m, p, place) /\ Opponent(m, p, master, ghosts')}
     IN /\ list' = [m \in Monsters |-> IF m \in found THEN list[m] \cup {p} ELSE list[m]]
        /\ idle' = idle \ (found \ dead)
        /\ check' = [m \in Monsters |-> IF m \in found \ dead THEN "in" ELSE check[m]]
  /\ overlooked' = {o \in overlooked : o[2] # p \/ master[o[1]] # None}
  /\ UNCHANGED <<place, onMap, removed, dead, master>>

\* creature:setMaster: a monster becomes a summon, or is set free.
SetMaster(m, p) ==
  /\ InGame(m) /\ p # master[m] /\ (p # None => InGame(p))
  /\ master' = [master EXCEPT ![m] = p]
  /\ overlooked' = overlooked \cup ({m} \X Creatures) \cup (Monsters \X {m})
  /\ UNCHANGED <<place, onMap, removed, dead, ghosts, list, idle, check>>

\* monster:setIdle(true)
ScriptIdle(m) ==
  /\ InGame(m) /\ m \notin dead
  /\ list' = [list EXCEPT ![m] = {}]
  /\ idle' = idle \cup {m}
  /\ check' = [check EXCEPT ![m] = Unchecked(@)]
  /\ overlooked' = overlooked \cup ({m} \X list[m])
  /\ UNCHANGED <<place, onMap, removed, dead, master, ghosts>>

Next ==
  \/ \E c \in Creatures : Remove(c) \/ Hurt(c) \/ Die(c)
  \/ \E c \in Creatures, p \in Places : Place(c, p) \/ Move(c, p)
  \/ \E m \in Monsters : Think(m) \/ Uncheck(m) \/ ScriptIdle(m)
  \/ \E p \in Players : Vanish(p) \/ Reappear(p)
  \/ \E m \in Monsters, p \in Players \cup {None} : SetMaster(m, p)

Spec == Init /\ [][Next]_vars

-----------------------------------------------------------------------------
(* Properties.                                                             *)

TypeOK ==
  /\ place \in [Creatures -> Places \cup {None}]
  /\ onMap \subseteq Creatures /\ removed \subseteq Creatures \ onMap
  /\ dead \subseteq onMap \cup removed
  /\ master \in [Monsters -> Players \cup {None}] /\ ghosts \subseteq Players
  /\ list \in [Monsters -> SUBSET Creatures]
  /\ idle \subseteq Monsters
  /\ check \in [Monsters -> {"in", "leaving", "out"}]
  /\ overlooked \subseteq Monsters \X Creatures

\* An idle monster has nobody on its list: it would keep a removed creature
\* from being freed and never act on the others.
IdleHasNoTargets == \A m \in (idle \cap onMap) \ dead : list[m] = {}

\* A monster that is not idle thinks; one that was removed does not.
AwakeThinks ==
  /\ \A m \in (Monsters \cap onMap) \ (dead \cup idle) : check[m] = "in"
  /\ \A m \in Monsters \cap removed : check[m] # "in"

\* The list is exactly who is in sight and an opponent, whatever the order in
\* which both came, moved, went, died or were hit, unless somebody changed
\* sides without notice (onCreatureAppear, onCreatureMove, onRemoveCreature).
ListIsWhoIsSeen ==
  \A m \in Monsters \cap onMap : \A c \in Creatures \ {m} :
    <<m, c>> \notin overlooked => (c \in list[m] <=> c \in Enemies(m, onMap) /\ Sees(m, c, place))

\* What a monster knows and what it does about it agree with the world.
TargetsInv == TypeOK /\ IdleHasNoTargets /\ AwakeThinks /\ ListIsWhoIsSeen

=============================================================================
