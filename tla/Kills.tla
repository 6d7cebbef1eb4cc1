------------------------------- MODULE Kills --------------------------------
(***************************************************************************)
(* What a creature loses in combat, who is credited with it, and what the  *)
(* credited get when it dies (creature.cpp, Game::combatChangeHealth).     *)
(* Damage is written to a ring of few entries; what a summon does counts   *)
(* for its master, wholly when he plays and by half when he does not; mana *)
(* burnt by a shield counts for the hitter himself.  Death comes a round   *)
(* after the last blow; experience is a share of all damage received.      *)
(***************************************************************************)
EXTENDS Integers, FiniteSets, FiniteSetsExt

CONSTANTS
  Hitters,   \* the creatures around
  Fighters,  \* those of them that are players
  Master,    \* [Hitters -> Hitters \cup {None}]
  Leader,    \* the leader of the party the players share experience in
  None,
  MapSize,   \* CREATURE_DAMAGEMAP_SIZE
  Full,      \* greatest health
  FullMana,
  Worth,     \* experience the victim is worth
  MaxLost    \* bound: health and mana one victim loses

KillsAssumption ==
  /\ IsFiniteSet(Hitters) /\ None \notin Hitters /\ Fighters \subseteq Hitters /\ Leader \in Fighters
  /\ Master \in [Hitters -> Hitters \cup {None}] /\ \A f \in Fighters : Master[f] = None
  /\ MapSize \in Nat \ {0} /\ Full \in Nat /\ FullMana \in Nat /\ Worth \in Nat /\ MaxLost \in Nat

VARIABLES
  plays,     \* the victim is a player, with a mana shield
  health, mana,
  map,       \* Creature::damageMap: who, and how much
  entry,     \* actDamageEntry
  received,  \* totalCombatDamageReceived
  lastHit,   \* lastHitCreatureId
  here,      \* the creatures a lookup by id still finds
  lost       \* history: health and mana this victim lost to a creature

vars == <<plays, health, mana, map, entry, received, lastHit, here, lost>>

Nobody == [who |-> None, total |-> 0]
Least(a, b) == IF a < b THEN a ELSE b

\* The damage points of `who` in d = [map, entry, received]; nothing for nothing.
AddDamagePoints(d, who, points) ==
  LET old == {i \in 0..(MapSize - 1) : d.map[i].who = who}
      at == IF old # {} THEN Min(old) ELSE d.entry
      before == IF old # {} THEN d.map[at].total ELSE 0
  IN IF points <= 0 THEN d
     ELSE [map |-> [d.map EXCEPT ![at] = [who |-> who, total |-> before + points]],
           entry |-> IF old # {} THEN d.entry ELSE (d.entry + 1) % MapSize,
           received |-> d.received + points]

Credited(d, a, points) ==
  LET m == Master[a]
  IN CASE m \in Fighters -> AddDamagePoints(d, m, points)
       [] m = None -> AddDamagePoints(d, a, points)
       [] OTHER -> AddDamagePoints(AddDamagePoints(d, a, points \div 2), m, points \div 2)
\* The whole for both.
CreditedTwice(d, a, points) ==
  IF Master[a] = None THEN AddDamagePoints(d, a, points)
  ELSE AddDamagePoints(AddDamagePoints(d, a, points), Master[a], points)
OnAttackedCreatureDrainHealth(d, a, points) == Credited(d, a, points)

Damage == [map |-> map, entry |-> entry, received |-> received]
SetDamage(d) == map' = d.map /\ entry' = d.entry /\ received' = d.received

\* What a hit of `value` is after the scripts of the victim: none of them, an answer, or
\* an error, after which the value has lost its sign and the hit heals.
Scripted(value) ==
  {[heals |-> FALSE, value |-> v] : v \in 0..value} \cup {[heals |-> TRUE, value |-> value]}

\* combatChangeHealth of `value` by a, which is what the scripts of the mana have left of the
\* hit: the shield first, then the scripts of the health, then the health; those of a fatal
\* blow may call it off.
CombatChangeHealth(a, value) ==
  LET burnt == IF plays THEN Least(mana, value) ELSE 0
      shielded == IF a = None THEN Damage ELSE AddDamagePoints(Damage, a, burnt)
  IN /\ health > 0 /\ lost + value <= MaxLost
     /\ mana' = mana - burnt
     /\ \/ \E s \in IF burnt = value THEN {[heals |-> FALSE, value |-> 0]} ELSE Scripted(value - burnt),
              spared \in BOOLEAN :
             LET harm == IF s.heals THEN 0 ELSE Least(s.value, health)
                 off == harm = 0 \/ (harm = health /\ spared)
             IN IF off
                THEN /\ health' = IF s.heals THEN Least(health + s.value, Full) ELSE health
                     /\ SetDamage(shielded)
                     /\ lost' = lost + (IF a = None THEN 0 ELSE burnt)
                     /\ UNCHANGED lastHit
                ELSE /\ health' = health - harm
                     /\ lastHit' = a
                     /\ SetDamage(IF a = None THEN shielded
                                  ELSE OnAttackedCreatureDrainHealth(shielded, a, harm))
                     /\ lost' = lost + (IF a = None THEN 0 ELSE burnt + harm)
     /\ UNCHANGED <<plays, here>>

\* combatChangeMana of a drain.
CombatChangeMana(a, value) ==
  LET burnt == Least(mana, value)
  IN /\ plays /\ burnt > 0 /\ lost + burnt <= MaxLost
     /\ mana' = mana - burnt
     /\ SetDamage(AddDamagePoints(Damage, a, burnt))
     /\ lost' = lost + burnt
     /\ UNCHANGED <<plays, health, lastHit, here>>

Recover ==
  /\ health > 0
  /\ health' = Full /\ mana' = (IF plays THEN FullMana ELSE 0)
  /\ UNCHANGED <<plays, map, entry, received, lastHit, here, lost>>

OnIdleStatus ==
  /\ health > 0
  /\ lastHit' = None
  /\ UNCHANGED <<plays, health, mana, map, entry, received, here, lost>>

\* A creature leaves the game, its summons with it; who comes is another one.
Leave(a) ==
  /\ a \in here
  /\ here' = here \ ({a} \cup {b \in Hitters : Master[b] = a})
  /\ UNCHANGED <<plays, health, mana, map, entry, received, lastHit, lost>>

-----------------------------------------------------------------------------
Entries == {i \in 0..(MapSize - 1) : map[i].who \in here}

Share(i) == (map[i].total * Worth) \div received

\* distributeExperiencePoints: what the players of the party earn goes to their leader.
DistributeExperiencePoints ==
  IF plays THEN [a \in Hitters |-> 0]
  ELSE LET Of(a) == MapThenSumSet(Share, {i \in Entries : map[i].who = a})
       IN [a \in Hitters |->
             CASE a \notin Fighters -> Of(a)
               [] a = Leader -> MapThenSumSet(Share, {i \in Entries : map[i].who \in Fighters})
               [] OTHER -> 0]

NewVictim(p) ==
  /\ plays' = p
  /\ health' = Full /\ mana' = (IF p THEN FullMana ELSE 0)
  /\ map' = [i \in 0..(MapSize - 1) |-> Nobody]
  /\ entry' = 0 /\ received' = 0 /\ lastHit' = None /\ lost' = 0
  /\ here' = Hitters

\* A player killed in a PvP zone is healed and sent to his temple: the same creature, with
\* all that is written about it.  Otherwise the next victim is another one.
OnDeath ==
  /\ health = 0
  /\ \/ \E p \in BOOLEAN : NewVictim(p)
     \/ /\ plays
        /\ health' = Full /\ lastHit' = None
        /\ UNCHANGED <<plays, mana, map, entry, received, here, lost>>

-----------------------------------------------------------------------------
Init ==
  /\ plays \in BOOLEAN
  /\ health = Full /\ mana = (IF plays THEN FullMana ELSE 0)
  /\ map = [i \in 0..(MapSize - 1) |-> Nobody]
  /\ entry = 0 /\ received = 0 /\ lastHit = None /\ lost = 0
  /\ here = Hitters

Next ==
  \/ \E a \in here \cup {None}, v \in 1..2 : CombatChangeHealth(a, v)
  \/ \E a \in here : CombatChangeMana(a, 1)
  \/ \E a \in Hitters : Leave(a)
  \/ Recover \/ OnIdleStatus \/ OnDeath

Spec == Init /\ [][Next]_vars

-----------------------------------------------------------------------------
KillsTypeOK ==
  /\ plays \in BOOLEAN /\ health \in 0..Full /\ mana \in 0..FullMana
  /\ map \in [0..(MapSize - 1) -> [who : Hitters \cup {None}, total : 0..MaxLost]]
  /\ entry \in 0..(MapSize - 1) /\ received \in 0..MaxLost /\ lastHit \in Hitters \cup {None}
  /\ here \subseteq Hitters /\ lost \in 0..MaxLost

Total(i) == map[i].total

\* What is credited was lost, once (creature.cpp:681, 784): neither the halves of a summon
\* and its master, nor an entry that is written over, nor the mana of a shield count twice.
NothingMade ==
  /\ MapThenSumSet(Total, 0..(MapSize - 1)) <= received
  /\ received <= lost

\* Nobody has two entries, whoever's entry the ring has taken in between.
OneEntryEach ==
  \A i, j \in 0..(MapSize - 1) : map[i].who = map[j].who => i = j \/ map[i].who = None

\* A death hands out no more experience than the dead were worth (creature.cpp:389).
NoMoreThanWorth ==
  health = 0 => MapThenSumSet(LAMBDA a : DistributeExperiencePoints[a], Hitters) <= Worth

\* The player who hit last, himself or through his summon, shares in the experience.
LastHitCounts ==
  ~plays /\ lastHit # None
    => \A f \in Fighters : f \in {lastHit, Master[lastHit]} => \E i \in 0..(MapSize - 1) : map[i].who = f

\* Damage, credit and reward of the killers agree.
KillsInv == KillsTypeOK /\ NothingMade /\ OneEntryEach /\ NoMoreThanWorth /\ LastHitCounts
=============================================================================
