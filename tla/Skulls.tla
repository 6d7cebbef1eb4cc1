------------------------------- MODULE Skulls -------------------------------
(***************************************************************************)
(* Who is an aggressor, and who a murderer (player.cpp).  Being in fight   *)
(* is a condition each blow prolongs; a player remembers whom he attacked  *)
(* first until his fight or theirs ends; a white skull goes with the       *)
(* fight, a red one with playerKillerEnd.  A death counts against those    *)
(* who attacked a victim that had not attacked them, for the last blow and *)
(* for the most damage, in person or through a summon.  Time goes in steps *)
(* as long as pzLocked.  Nobody is of a group with access: addInFightTicks *)
(* does nothing for those, who may have a skull without a fight.           *)
(***************************************************************************)
EXTENDS Naturals, FiniteSets

CONSTANTS
  Persons,     \* players without access
  None,
  WhiteTime,   \* steps a killer stays in fight (whiteSkullTime)
  RedTime,     \* steps a red skull stays (redSkullDuration)
  KillsRed,    \* murders that make a red skull
  MaxMurders   \* bound: murders one commits

SkullsAssumption ==
  /\ None \notin Persons
  /\ WhiteTime \in Nat /\ RedTime \in Nat /\ KillsRed \in Nat /\ MaxMurders \in Nat

ASSUME SkullsAssumed == SkullsAssumption

VARIABLES
  fight,       \* steps of CONDITION_INFIGHT left, 0 without it
  pzLocked,
  skull,       \* none, white, red
  attacked,    \* Player::attackedSet
  grace,       \* formerLogoutTime or formerPartyTime has not passed
  killerEnd,   \* playerKillerEnd: 0 never set, else 1 + the steps left
  murders,     \* the size of murderTimeStamps
  unjust,      \* lastUnjustCreatureId
  partners,    \* whether they are of one party
  struck       \* history: whom each has struck since either's fight began

vars == <<fight, pzLocked, skull, attacked, grace, killerEnd, murders, unjust, partners, struck>>

Most(a, b) == IF a > b THEN a ELSE b
IsPartner(a, b) == partners /\ a # b

\* What the end of the fights of S does: onEndCondition.
EndedFor(S, set) == [p \in Persons |-> IF p \in S THEN {} ELSE set[p] \ S]
\* The others keep the one who calmed down among those they attacked.
EndedForOne(S, set) == [p \in Persons |-> IF p \in S THEN {} ELSE set[p]]
Forgotten(S, set) == EndedFor(S, set)

\* A death counts against a: addUnjustifiedDead, in the state m = [murders, unjust, skull, end].
AddUnjustifiedDead(m, a, v) ==
  IF m.unjust[a] = v THEN m
  ELSE LET n == m.murders[a] + 1
           red == n >= KillsRed
       IN [murders |-> [m.murders EXCEPT ![a] = n],
           unjust |-> [m.unjust EXCEPT ![a] = v],
           skull |-> IF red THEN [m.skull EXCEPT ![a] = "red"] ELSE m.skull,
           end |-> [m.end EXCEPT ![a] = IF red THEN 1 + RedTime ELSE IF @ = 0 THEN 1 + WhiteTime ELSE @]]

\* hasAttacked one who has not attacked back, has no skull, is no partner and no enemy in
\* war, and has been in the game and in no common party for a while.
Unjustified(a, v) ==
  /\ a # v /\ ~IsPartner(a, v)
  /\ v \in attacked[a] /\ a \notin attacked[v]
  /\ skull[v] = "none" /\ v \notin grace
UnjustifiedBlind(a, v) == a # v /\ ~IsPartner(a, v) /\ skull[v] = "none" /\ v \notin grace
Murder(a, v) == Unjustified(a, v)

-----------------------------------------------------------------------------
\* A blow, or the choice of a target: onAttackedCreature of a with target v, and onAttacked
\* of v.  `war`: between guilds at war.  (In a PvP zone v is only attacked.)
OnAttackedCreature(a, v, war) ==
  LET first == a \notin attacked[v] /\ ~war /\ ~IsPartner(a, v)
  IN /\ a # v
     /\ fight' = [fight EXCEPT ![a] = Most(@, 1), ![v] = Most(@, 1)]
     /\ pzLocked' = pzLocked \cup {a}
     /\ attacked' = IF first THEN [attacked EXCEPT ![a] = @ \cup {v}] ELSE attacked
     /\ skull' = IF first /\ skull[v] = "none" /\ skull[a] = "none" /\ v \notin grace
                 THEN [skull EXCEPT ![a] = "white"] ELSE skull
     /\ struck' = [struck EXCEPT ![a] = @ \cup {v}]
     /\ UNCHANGED <<grace, killerEnd, murders, unjust, partners>>

\* A monster's blow, or one in a PvP zone.
OnAttacked(p) ==
  /\ fight' = [fight EXCEPT ![p] = Most(@, 1)]
  /\ UNCHANGED <<pzLocked, skull, attacked, grace, killerEnd, murders, unjust, partners, struck>>

\* Time passes; the fights that are due end, and checkSkullTicks takes what is left of skulls
\* from those out of fight.
Tick ==
  LET calm == {p \in Persons : fight[p] <= 1}
      ended == {p \in calm : fight[p] = 1}
      cured == {p \in calm : skull[p] = "red" /\ killerEnd[p] <= 2}
  IN /\ fight' = [p \in Persons |-> IF fight[p] = 0 THEN 0 ELSE fight[p] - 1]
     /\ attacked' = Forgotten(ended, attacked)
     /\ struck' = EndedFor(ended, struck)
     /\ pzLocked' = pzLocked \ ended
     /\ skull' = [p \in Persons |-> IF p \in calm /\ (skull[p] = "white" \/ p \in cured)
                                    THEN "none" ELSE skull[p]]
     /\ grace' = cured
     /\ killerEnd' = [p \in Persons |-> IF killerEnd[p] > 1 THEN killerEnd[p] - 1 ELSE killerEnd[p]]
     /\ UNCHANGED <<murders, unjust, partners>>

\* v dies: `last` hit last (a summon's master through it, who is told as one who hit last but
\* answers nothing to Creature::onDeath), `most` did most.  onlyOneFragPerKill is `one`.
\* Then v forgets, is forgotten, and his fight ends.
OnDeath(v, last, most, summon, one) ==
  LET m0 == [murders |-> murders, unjust |-> unjust, skull |-> skull, end |-> killerEnd]
      lastHitUnjustified == last # None /\ Murder(last, v)
      m1 == IF lastHitUnjustified THEN AddUnjustifiedDead(m0, last, v) ELSE m0
      known == lastHitUnjustified /\ ~summon
      m2 == IF /\ most # None /\ Murder(most, v)
               /\ (~one \/ ~known) /\ (summon \/ last # most)
            THEN AddUnjustifiedDead(m1, most, v) ELSE m1
  IN /\ fight[v] > 0 /\ v \notin {last, most}
     /\ \A p \in {last, most} \ {None} : murders[p] < MaxMurders /\ v \in struck[p]
     /\ murders' = m2.murders /\ killerEnd' = m2.end
     \* who comes back is another creature, and may be killed again
     /\ unjust' = [p \in Persons |-> IF v \in {p, m2.unjust[p]} THEN None ELSE m2.unjust[p]]
     /\ partners' = FALSE /\ grace' = grace \ {v}
     /\ fight' = [p \in Persons |-> IF p = v THEN 0
                                    ELSE IF p = last /\ fight[p] > 0 THEN Most(fight[p], WhiteTime)
                                    ELSE fight[p]]
     /\ pzLocked' = (pzLocked \cup (IF last # None /\ fight[last] > 0 THEN {last} ELSE {})) \ {v}
     /\ attacked' = Forgotten({v}, attacked)
     /\ struck' = EndedFor({v}, struck)
     /\ skull' = [m2.skull EXCEPT ![v] = IF @ = "red" THEN @ ELSE "none"]

\* Logging out and in, or being kicked and coming back: only a red skull with its end is
\* stored; the others keep the old creature's id, which nobody has any more.
Reload(p) ==
  /\ fight' = [fight EXCEPT ![p] = 0]
  /\ attacked' = EndedFor({p}, attacked)
  /\ struck' = EndedFor({p}, struck)
  /\ skull' = [skull EXCEPT ![p] = IF @ = "red" /\ killerEnd[p] # 0 THEN "red" ELSE "none"]
  /\ unjust' = [q \in Persons |-> IF q = p \/ unjust[q] = p THEN None ELSE unjust[q]]
  /\ pzLocked' = pzLocked \ {p} /\ grace' = grace \ {p} /\ partners' = FALSE
  /\ UNCHANGED <<killerEnd, murders>>

\* joinParty, leaveParty: not in fight; leaving gives some seconds of grace to the one who
\* leaves.
JoinParty ==
  /\ ~partners /\ partners' = TRUE
  /\ UNCHANGED <<fight, pzLocked, skull, attacked, grace, killerEnd, murders, unjust, struck>>
LeaveParty(p) ==
  /\ partners /\ fight[p] = 0
  /\ partners' = FALSE /\ grace' = grace \cup {p}
  /\ UNCHANGED <<fight, pzLocked, skull, attacked, killerEnd, murders, unjust, struck>>

\* The seconds of grace pass.
GraceEnds ==
  /\ grace # {} /\ grace' = {}
  /\ UNCHANGED <<fight, pzLocked, skull, attacked, killerEnd, murders, unjust, partners, struck>>

-----------------------------------------------------------------------------
Init ==
  /\ fight = [p \in Persons |-> 0] /\ pzLocked = {} /\ skull = [p \in Persons |-> "none"]
  /\ attacked = [p \in Persons |-> {}] /\ grace = {} /\ killerEnd = [p \in Persons |-> 0]
  /\ murders = [p \in Persons |-> 0] /\ unjust = [p \in Persons |-> None]
  /\ partners = FALSE /\ struck = [p \in Persons |-> {}]

Next ==
  \/ \E a, v \in Persons, war \in BOOLEAN : OnAttackedCreature(a, v, war)
  \/ \E p \in Persons : OnAttacked(p) \/ Reload(p) \/ LeaveParty(p)
  \/ \E v \in Persons, last, most \in Persons \cup {None}, summon, one \in BOOLEAN :
       OnDeath(v, last, most, summon, one)
  \/ Tick \/ JoinParty \/ GraceEnds

Spec == Init /\ [][Next]_vars

-----------------------------------------------------------------------------
SkullsTypeOK ==
  /\ fight \in [Persons -> 0..Most(1, WhiteTime)] /\ pzLocked \subseteq Persons
  /\ skull \in [Persons -> {"none", "white", "red"}] /\ attacked \in [Persons -> SUBSET Persons]
  /\ grace \subseteq Persons /\ killerEnd \in [Persons -> Nat]
  /\ murders \in [Persons -> 0..MaxMurders] /\ unjust \in [Persons -> Persons \cup {None}]
  /\ partners \in BOOLEAN /\ struck \in [Persons -> SUBSET Persons]

\* Of two that fight one at most is the aggressor: whoever was attacked may strike back
\* without becoming one (player.cpp:3810).
OneAggressor == \A a, v \in Persons : v \in attacked[a] => a \notin attacked[v]

\* An aggressor has struck, and neither his fight nor his victim's has ended since
\* (player.cpp:3774): a stale entry would make a murder of a later, fair fight.
AggressorStruck ==
  \A a \in Persons : \A v \in attacked[a] : v \in struck[a] /\ fight[a] > 0 /\ fight[v] > 0

\* No skull without its reason: a white one and the lock on logging out go with the fight, a
\* red one was earned by murders and has an end.
SkullsHaveReason ==
  \A p \in Persons :
    /\ skull[p] = "white" \/ p \in pzLocked => fight[p] > 0
    /\ skull[p] = "red" => killerEnd[p] > 0 /\ murders[p] >= KillsRed

\* Aggression, skulls and murders agree.
SkullsInv == SkullsTypeOK /\ OneAggressor /\ AggressorStruck /\ SkullsHaveReason
=============================================================================
