------------------------------- MODULE Lives --------------------------------
(***************************************************************************)
(* From the placing of a creature to the release of its memory (game.cpp,  *)
(* creature.h).  The tile, the list of creatures that think, the set of    *)
(* the killed and the set of those that leave each hold a plain pointer    *)
(* and count a reference for it; death and leaving wait for the next round *)
(* of processRemovedCreatures, and what is released waits for the next     *)
(* cleanup.  A set holds a creature once, however often it is put there.   *)
(***************************************************************************)
EXTENDS Naturals, FiniteSets

CONSTANTS
  Creatures,
  Players,       \* those of them that play
  MaxRefs        \* bound: references counted for one creature

VARIABLES
  stage,     \* new, placed on a tile, removed (Creature::isInternalRemoved), freed
  health,    \* 0 or 1
  refs,      \* Creature::referenceCounter
  thinks,    \* Creature::creatureCheck
  listed,    \* the creatures of checkCreatureLists (inCheckCreaturesVector)
  killed,    \* Game::killedCreatures
  leaving,   \* Game::removedCreatures
  released,  \* Game::ToReleaseCreatures: how often each is in it
  leaves     \* Player::isLoggingOut

vars == <<stage, health, refs, thinks, listed, killed, leaving, released, leaves>>

Placed(c) == stage[c] = "placed"
Bump(f, S) == [c \in Creatures |-> IF c \in S THEN f[c] + 1 ELSE f[c]]
Bounded(c) == refs[c] < MaxRefs

AddCreatureCheck(c) ==
  /\ thinks' = thinks \cup {c}
  /\ listed' = listed \cup {c}

PlaceCreature(c) ==
  /\ stage[c] = "new"
  /\ stage' = [stage EXCEPT ![c] = "placed"]
  /\ AddCreatureCheck(c)
  /\ refs' = [refs EXCEPT ![c] = @ + 2]
  /\ UNCHANGED <<health, killed, leaving, released, leaves>>

\* A monster without anyone near does not think; it is taken from the list when its
\* turn comes, or thinks again before.
Sleep(c) ==
  /\ Placed(c) /\ c \notin Players /\ health[c] > 0
  /\ thinks' = thinks \ {c}
  /\ UNCHANGED <<stage, health, refs, listed, killed, leaving, released, leaves>>

Wake(c) ==
  /\ Placed(c) /\ c \notin Players /\ health[c] > 0 /\ Bounded(c)
  /\ AddCreatureCheck(c)
  /\ refs' = IF c \in listed THEN refs ELSE Bump(refs, {c})
  /\ UNCHANGED <<stage, health, killed, leaving, released, leaves>>

\* A step onto a tile holds a reference until the next cleanup.
Step(c) ==
  /\ Placed(c) /\ health[c] > 0 /\ Bounded(c)
  /\ refs' = Bump(refs, {c})
  /\ released' = Bump(released, {c})
  /\ UNCHANGED <<stage, health, thinks, listed, killed, leaving, leaves>>

\* changeHealth to nothing: executeDeath.  The second form counts no reference.
ExecuteDeath(c) == killed' = killed \cup {c} /\ refs' = Bump(refs, {c})
ExecuteDeathUncounted(c) == killed' = killed \cup {c} /\ refs' = refs
Killing(c) == ExecuteDeath(c)

Kill(c) ==
  /\ Placed(c) /\ health[c] > 0 /\ Bounded(c)
  /\ health' = [health EXCEPT ![c] = 0]
  /\ Killing(c)
  /\ UNCHANGED <<stage, thinks, listed, leaving, released, leaves>>

\* A player who waits for his death is saved, with one point of health.
SavePlayer(c) ==
  /\ Placed(c) /\ c \in Players /\ health[c] = 0
  /\ health' = [health EXCEPT ![c] = 1]
  /\ UNCHANGED <<stage, refs, thinks, listed, killed, leaving, released, leaves>>

ExecuteRemoveCreature(c) ==
  /\ refs' = Bump(refs, {c})
  /\ leaving' = leaving \cup {c}
  /\ leaves' = leaves \cup {c}

\* Asked by the player, once; or because the peer is silent, at every turn to think.
Logout(c) ==
  /\ Placed(c) /\ c \in Players /\ c \notin leaves /\ Bounded(c)
  /\ ExecuteRemoveCreature(c)
  /\ UNCHANGED <<stage, health, thinks, listed, killed, released>>

SendPing(c) ==
  /\ Placed(c) /\ c \in Players /\ c \in thinks /\ health[c] > 0 /\ Bounded(c)
  /\ ExecuteRemoveCreature(c)
  /\ UNCHANGED <<stage, health, thinks, listed, killed, released>>

\* What removeCreature does to the creatures of S.
Remove(S) ==
  /\ stage' = [c \in Creatures |-> IF c \in S THEN "removed" ELSE stage[c]]
  /\ released' = Bump(released, S)
  /\ thinks' = thinks \ S

\* A script, a spawn or a kick removes at once.
RemoveCreature(c) ==
  /\ Placed(c)
  /\ Remove({c})
  /\ UNCHANGED <<health, refs, listed, killed, leaving, leaves>>

\* Each of the killed dies, unless removed meanwhile; one who leaves no corpse (`spared`: a
\* player in a PvP zone) stays, healthy.  Then those who leave go, unless gone.
ProcessRemovedCreatures(spared) ==
  LET dying == {c \in killed : Placed(c)}
      dead == dying \ spared
      going == {c \in leaving : Placed(c) /\ c \notin dead}
      Less(c) == (IF c \in dying THEN 1 ELSE 0) + (IF c \in going THEN 1 ELSE 0)
  IN /\ spared \subseteq dying \cap Players
     /\ Remove(dead \cup going)
     /\ health' = [c \in Creatures |-> IF c \in spared THEN 1 ELSE health[c]]
     /\ refs' = [c \in Creatures |-> refs[c] - Less(c)]
     /\ killed' = {} /\ leaving' = {}
     /\ UNCHANGED <<listed, leaves>>

\* What is released loses its references, and at 0 its memory.
Cleanup(gone) ==
  LET left == [c \in Creatures |-> refs[c] - released[c] - (IF c \in gone THEN 1 ELSE 0)]
  IN /\ refs' = left
     /\ released' = [c \in Creatures |-> 0]
     /\ stage' = [c \in Creatures |-> IF stage[c] # "new" /\ left[c] = 0 THEN "freed" ELSE stage[c]]

\* The turn of the listed: who thinks no more is taken from the list and released.
CheckCreatures(turn) ==
  /\ turn \subseteq listed
  /\ listed' = listed \ (turn \ thinks)
  /\ Cleanup(turn \ thinks)
  /\ UNCHANGED <<health, thinks, killed, leaving, leaves>>

Init ==
  /\ stage = [c \in Creatures |-> "new"]
  /\ health = [c \in Creatures |-> 1]
  /\ refs = [c \in Creatures |-> 0]
  /\ thinks = {} /\ listed = {} /\ killed = {} /\ leaving = {} /\ leaves = {}
  /\ released = [c \in Creatures |-> 0]

Next ==
  \/ \E c \in Creatures : \/ PlaceCreature(c) \/ Sleep(c) \/ Wake(c) \/ Step(c)
                          \/ Kill(c) \/ SavePlayer(c)
                          \/ Logout(c) \/ SendPing(c) \/ RemoveCreature(c)
  \/ \E spared \in SUBSET Players : ProcessRemovedCreatures(spared)
  \/ \E turn \in SUBSET Creatures : CheckCreatures(turn)

Spec == Init /\ [][Next]_vars

-----------------------------------------------------------------------------
LivesTypeOK ==
  /\ stage \in [Creatures -> {"new", "placed", "removed", "freed"}]
  /\ health \in [Creatures -> {0, 1}]
  /\ refs \in [Creatures -> Nat] /\ released \in [Creatures -> Nat]
  /\ {thinks, listed, killed, leaving} \subseteq SUBSET Creatures
  /\ leaves \subseteq Players

\* How many pointers to the creature the game will still follow.
Held(c) ==
  released[c] + (IF Placed(c) THEN 1 ELSE 0) + Cardinality({S \in {"listed", "killed", "leaving"} :
    c \in CASE S = "listed" -> listed [] S = "killed" -> killed [] S = "leaving" -> leaving})

\* No pointer outlives its creature: each has its reference, and memory is freed only when
\* no pointer is left.
PointersHold ==
  \A c \in Creatures : /\ stage[c] \in {"placed", "removed"} => refs[c] >= Held(c)
                       /\ stage[c] = "freed" => Held(c) = 0

\* Nobody stands in the world dead with no death to come.
DeadAwaitDeath == \A c \in Creatures : Placed(c) /\ health[c] = 0 => c \in killed

\* References cover every pointer through death, leaving, removal and thinking in any order,
\* and whoever has no health dies.
LivesInv == LivesTypeOK /\ PointersHold /\ DeadAwaitDeath
=============================================================================
