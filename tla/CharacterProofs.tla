-------------------------- MODULE CharacterProofs --------------------------
(***************************************************************************)
(* Aggression, skulls and murders agree for any number of players, any     *)
(* durations and any number of murders that make a red skull; and what a   *)
(* client shows of a tile, of creatures and of open containers is what is  *)
(* there, for any items, creatures, containers and limits; level, health,  *)
(* mana and skills follow from what was gained and lost, for any tables    *)
(* and gains of which Levels' LevelsAssumption holds; coins, weights and   *)
(* places of items add up, for any stacks, bags, slots and sizes of which  *)
(* Items' ItemsAssumption holds.                                           *)
(*                                                                         *)
(* SkullsInv is inductive as it stands: that nobody is the aggressor of    *)
(* his aggressor needs only the guard of onAttackedCreature; that an       *)
(* aggressor has struck and fights on needs that the end of a fight        *)
(* removes both what one remembers and what is remembered of him.          *)
(*                                                                         *)
(* KnownIInv, WindowsIInv, SpecIInv and, in TileProofs, TileIInv and       *)
(* ItemsIInv are what is kept of creatures, of windows, of the map, of a   *)
(* tile and of items.  LevelsIInv says of a player what LevelsInv says,    *)
(* and what a mage needs to have the mana of his level: that he chose at   *)
(* level 8 or later, and that he is at level 6 or above unless a script    *)
(* took experience from him.                                               *)
(***************************************************************************)
EXTENDS TileProofs

-----------------------------------------------------------------------------
(* Fights and skulls.                                                      *)

LEMMA MostIsGreater ==
  ASSUME NEW a \in Nat, NEW b \in Nat
  PROVE  Most(a, b) \in Nat /\ Most(a, b) >= a /\ Most(a, b) >= b /\ Most(a, b) \in {a, b}
BY DEF Most

\* What the end of fights leaves was there before, and is of none of those whose fight ended.
LEMMA EndedForLess ==
  ASSUME NEW S0 \in SUBSET Persons, NEW set \in [Persons -> SUBSET Persons]
  PROVE  /\ EndedFor(S0, set) \in [Persons -> SUBSET Persons]
         /\ \A a \in Persons : \A v \in EndedFor(S0, set)[a] :
              v \in set[a] /\ a \notin S0 /\ v \notin S0
         /\ \A a \in Persons \ S0 : EndedFor(S0, set)[a] = set[a] \ S0
BY DEF EndedFor

-----------------------------------------------------------------------------
\* The books of murders while a death is judged.
Books ==
  [murders : [Persons -> Nat], unjust : [Persons -> Persons \cup {None}],
   skull : [Persons -> {"none", "white", "red"}], end : [Persons -> Nat]]

RedEarned(m) ==
  \A p \in Persons : m.skull[p] = "red" => m.end[p] > 0 /\ m.murders[p] >= KillsRed

\* A death that counts against a changes the books of a alone, by one murder at most, gives
\* no white skull, and a red one only with its reason; it counts once for one victim.
CountedOnce(m, n, a, v) ==
  /\ \A p \in Persons \ {a} : n.murders[p] = m.murders[p]
  /\ n.murders[a] <= m.murders[a] + 1
  /\ n.unjust[a] = v
  /\ m.unjust[a] = v => n = m
  /\ \A p \in Persons : n.skull[p] = "white" => m.skull[p] = "white"

LEMMA DeathCounts ==
  ASSUME SkullsAssumption, NEW m \in Books, RedEarned(m), NEW a \in Persons, NEW v \in Persons
  PROVE  /\ AddUnjustifiedDead(m, a, v) \in Books /\ RedEarned(AddUnjustifiedDead(m, a, v))
         /\ CountedOnce(m, AddUnjustifiedDead(m, a, v), a, v)
<1> DEFINE n == AddUnjustifiedDead(m, a, v)
<1>1. CASE m.unjust[a] = v
  BY <1>1, SMT DEF AddUnjustifiedDead, Books, CountedOnce
<1>2. CASE m.unjust[a] # v
  <2> DEFINE k == m.murders[a] + 1
             red == k >= KillsRed
  <2>1. /\ n.murders = [m.murders EXCEPT ![a] = k]
        /\ n.unjust = [m.unjust EXCEPT ![a] = v]
        /\ n.skull = IF red THEN [m.skull EXCEPT ![a] = "red"] ELSE m.skull
        /\ n.end = [m.end EXCEPT ![a] = IF red THEN 1 + RedTime ELSE IF @ = 0 THEN 1 + WhiteTime ELSE @]
        /\ n = [murders |-> n.murders, unjust |-> n.unjust, skull |-> n.skull, end |-> n.end]
    BY <1>2 DEF AddUnjustifiedDead
  <2> HIDE DEF n
  <2>2. k \in Nat
    BY DEF Books
  <2>3. n \in Books
    BY <2>1, <2>2 DEF Books, SkullsAssumption
  <2>4. RedEarned(n)
    BY <2>1, <2>2 DEF Books, RedEarned, SkullsAssumption
  <2>5. \A p \in Persons : n.skull[p] = "white" => m.skull[p] = "white"
    BY <2>1 DEF Books
  <2>6. /\ \A p \in Persons \ {a} : n.murders[p] = m.murders[p]
        /\ n.murders[a] <= m.murders[a] + 1
        /\ n.unjust[a] = v
    BY <2>1, <2>2 DEF Books
  <2> QED BY <1>2, <2>3, <2>4, <2>5, <2>6 DEF n, CountedOnce
<1> QED BY <1>1, <1>2

-----------------------------------------------------------------------------
LEMMA SkullsInit == ASSUME SkullsAssumption, Init PROVE SkullsInv
<1>1. SkullsTypeOK
  <2>1. fight \in [Persons -> 0..Most(1, WhiteTime)]
    BY DEF Init, SkullsAssumption, Most
  <2>2. attacked \in [Persons -> SUBSET Persons] /\ struck \in [Persons -> SUBSET Persons]
    BY DEF Init
  <2>3. /\ skull \in [Persons -> {"none", "white", "red"}]
        /\ killerEnd \in [Persons -> Nat]
        /\ murders \in [Persons -> 0..MaxMurders]
        /\ unjust \in [Persons -> Persons \cup {None}]
    BY DEF Init, SkullsAssumption
  <2> QED BY <2>1, <2>2, <2>3 DEF Init, SkullsTypeOK
<1>2. OneAggressor /\ AggressorStruck /\ SkullsHaveReason
  BY DEF Init, OneAggressor, AggressorStruck, SkullsHaveReason
<1> QED BY <1>1, <1>2 DEF SkullsInv

LEMMA Blow ==
  ASSUME SkullsAssumption, SkullsInv, NEW a \in Persons, NEW v \in Persons, NEW war \in BOOLEAN,
         OnAttackedCreature(a, v, war)
  PROVE  SkullsInv'
<1> USE DEF SkullsInv
<1>1. /\ \A p \in Persons : fight'[p] \in 0..Most(1, WhiteTime) /\ fight'[p] >= fight[p]
      /\ fight' \in [Persons -> 0..Most(1, WhiteTime)]
      /\ fight'[a] > 0 /\ fight'[v] > 0
  BY DEF OnAttackedCreature, SkullsTypeOK, SkullsAssumption, Most
<1>2. /\ a # v
      /\ attacked' \in [Persons -> SUBSET Persons]
      /\ \A p \in Persons : \A q \in attacked'[p] :
           q \in attacked[p] \/ (p = a /\ q = v /\ a \notin attacked[v])
  BY DEF OnAttackedCreature, SkullsTypeOK
<1>3. /\ struck' \in [Persons -> SUBSET Persons]
      /\ \A p \in Persons : struck[p] \subseteq struck'[p]
      /\ v \in struck'[a]
  BY DEF OnAttackedCreature, SkullsTypeOK
<1>4. /\ skull' \in [Persons -> {"none", "white", "red"}]
      /\ \A p \in Persons : skull'[p] = skull[p] \/ (p = a /\ skull'[p] = "white")
      /\ pzLocked' = pzLocked \cup {a}
      /\ UNCHANGED <<grace, killerEnd, murders, unjust, partners>>
  BY DEF OnAttackedCreature, SkullsTypeOK
<1>5. SkullsTypeOK'
  BY <1>1, <1>2, <1>3, <1>4 DEF SkullsTypeOK
<1>6. OneAggressor'
  BY <1>2 DEF OneAggressor
<1>7. AggressorStruck'
  BY <1>1, <1>2, <1>3 DEF AggressorStruck, SkullsTypeOK, SkullsAssumption, Most
<1>8. SkullsHaveReason'
  BY <1>1, <1>4 DEF SkullsHaveReason, SkullsTypeOK, SkullsAssumption, Most
<1> QED BY <1>5, <1>6, <1>7, <1>8

LEMMA BlowOfMonster ==
  ASSUME SkullsAssumption, SkullsInv, NEW p \in Persons, OnAttacked(p)
  PROVE  SkullsInv'
<1> USE DEF SkullsInv, OnAttacked
<1>1. /\ \A q \in Persons : fight'[q] \in 0..Most(1, WhiteTime) /\ fight'[q] >= fight[q]
      /\ fight' \in [Persons -> 0..Most(1, WhiteTime)]
  BY DEF SkullsTypeOK, SkullsAssumption, Most
<1>2. SkullsTypeOK'
  BY <1>1 DEF SkullsTypeOK
<1>3. OneAggressor'
  BY DEF OneAggressor
<1>4. AggressorStruck'
  BY <1>1 DEF AggressorStruck, SkullsTypeOK, SkullsAssumption, Most
<1>5. SkullsHaveReason'
  BY <1>1 DEF SkullsHaveReason, SkullsTypeOK, SkullsAssumption, Most
<1> QED BY <1>2, <1>3, <1>4, <1>5

LEMMA TimePasses ==
  ASSUME SkullsAssumption, SkullsInv, Tick
  PROVE  SkullsInv'
<1> DEFINE calm == {p \in Persons : fight[p] <= 1}
           ended == {p \in calm : fight[p] = 1}
<1>1. ended \in SUBSET Persons /\ attacked \in [Persons -> SUBSET Persons]
      /\ struck \in [Persons -> SUBSET Persons]
  BY DEF SkullsInv, SkullsTypeOK
<1>2. attacked' = EndedFor(ended, attacked) /\ struck' = EndedFor(ended, struck)
  BY DEF Tick, Forgotten
<1>3. /\ fight' \in [Persons -> 0..Most(1, WhiteTime)]
      /\ \A p \in Persons : fight[p] > 0 /\ p \notin ended => fight'[p] > 0
  BY DEF Tick, SkullsInv, SkullsTypeOK, SkullsAssumption, Most
<1>4. /\ pzLocked' \subseteq pzLocked \ ended
      /\ skull' \in [Persons -> {"none", "white", "red"}]
      /\ \A p \in Persons : skull'[p] = "white" => skull[p] = "white" /\ fight[p] > 1
      /\ \A p \in Persons : skull'[p] = "red" => skull[p] = "red"
  BY DEF Tick, SkullsInv, SkullsTypeOK, SkullsAssumption, Most
<1>5. /\ killerEnd' \in [Persons -> Nat]
      /\ \A p \in Persons : killerEnd[p] > 0 => killerEnd'[p] > 0
  BY DEF Tick, SkullsInv, SkullsTypeOK
<1>6. grace' \subseteq Persons /\ UNCHANGED <<murders, unjust, partners>>
  BY DEF Tick
<1>7. SkullsTypeOK'
  BY <1>1, <1>2, <1>3, <1>4, <1>5, <1>6, EndedForLess DEF SkullsInv, SkullsTypeOK
<1>8. OneAggressor'
  BY <1>1, <1>2, EndedForLess DEF SkullsInv, OneAggressor
<1>9. AggressorStruck'
  <2> SUFFICES ASSUME NEW a \in Persons, NEW v \in attacked'[a]
               PROVE  v \in struck'[a] /\ fight'[a] > 0 /\ fight'[v] > 0
    BY DEF AggressorStruck
  <2>1. v \in attacked[a] /\ a \notin ended /\ v \notin ended /\ v \in Persons
    BY <1>1, <1>2, EndedForLess
  <2>2. v \in struck[a] /\ fight[a] > 0 /\ fight[v] > 0
    BY <2>1 DEF SkullsInv, AggressorStruck
  <2>3. struck'[a] = struck[a] \ ended
    BY <1>1, <1>2, <2>1, EndedForLess
  <2> QED BY <1>3, <2>1, <2>2, <2>3
<1>10. SkullsHaveReason'
  BY <1>3, <1>4, <1>5, <1>6 DEF SkullsInv, SkullsHaveReason, SkullsTypeOK, SkullsAssumption, Most
<1> QED BY <1>7, <1>8, <1>9, <1>10 DEF SkullsInv

LEMMA Reloaded ==
  ASSUME SkullsAssumption, SkullsInv, NEW p \in Persons, Reload(p)
  PROVE  SkullsInv'
<1>1. attacked \in [Persons -> SUBSET Persons] /\ struck \in [Persons -> SUBSET Persons]
  BY DEF SkullsInv, SkullsTypeOK
<1>2. attacked' = EndedFor({p}, attacked) /\ struck' = EndedFor({p}, struck) /\ {p} \in SUBSET Persons
  BY DEF Reload
<1>3. /\ fight' \in [Persons -> 0..Most(1, WhiteTime)]
      /\ \A q \in Persons : q # p => fight'[q] = fight[q]
  BY DEF Reload, SkullsInv, SkullsTypeOK, SkullsAssumption, Most
<1>4. /\ skull' \in [Persons -> {"none", "white", "red"}]
      /\ \A q \in Persons : skull'[q] = "white" => skull[q] = "white" /\ q # p
      /\ \A q \in Persons : skull'[q] = "red" => skull[q] = "red"
      /\ unjust' \in [Persons -> Persons \cup {None}]
      /\ pzLocked' = pzLocked \ {p} /\ grace' \subseteq Persons /\ partners' \in BOOLEAN
      /\ UNCHANGED <<killerEnd, murders>>
  BY DEF Reload, SkullsInv, SkullsTypeOK
<1>5. SkullsTypeOK'
  BY <1>1, <1>2, <1>3, <1>4, EndedForLess DEF SkullsInv, SkullsTypeOK
<1>6. OneAggressor'
  BY <1>1, <1>2, EndedForLess DEF SkullsInv, OneAggressor
<1>7. AggressorStruck'
  <2> SUFFICES ASSUME NEW a \in Persons, NEW v \in attacked'[a]
               PROVE  v \in struck'[a] /\ fight'[a] > 0 /\ fight'[v] > 0
    BY DEF AggressorStruck
  <2>1. v \in attacked[a] /\ a # p /\ v # p /\ v \in Persons
    BY <1>1, <1>2, EndedForLess
  <2>2. v \in struck[a] /\ fight[a] > 0 /\ fight[v] > 0
    BY <2>1 DEF SkullsInv, AggressorStruck
  <2>3. struck'[a] = struck[a] \ {p}
    BY <1>1, <1>2, <2>1, EndedForLess
  <2> QED BY <1>3, <2>1, <2>2, <2>3
<1>8. SkullsHaveReason'
  BY <1>3, <1>4 DEF SkullsInv, SkullsHaveReason, SkullsTypeOK
<1> QED BY <1>5, <1>6, <1>7, <1>8 DEF SkullsInv

LEMMA Died ==
  ASSUME SkullsAssumption, SkullsInv,
         NEW v \in Persons, NEW last \in Persons \cup {None}, NEW most \in Persons \cup {None},
         NEW summon \in BOOLEAN, NEW one \in BOOLEAN, OnDeath(v, last, most, summon, one)
  PROVE  SkullsInv'
<1> DEFINE m0 == [murders |-> murders, unjust |-> unjust, skull |-> skull, end |-> killerEnd]
           counts == last # None /\ Murder(last, v)
           m1 == IF counts THEN AddUnjustifiedDead(m0, last, v) ELSE m0
           also == /\ most # None /\ Murder(most, v)
                   /\ (~one \/ ~(counts /\ ~summon)) /\ (summon \/ last # most)
           m2 == IF also THEN AddUnjustifiedDead(m1, most, v) ELSE m1
           killers == {last, most} \ {None}
<1>1. /\ v \notin {last, most} /\ killers \subseteq Persons
      /\ \A p \in killers : murders[p] < MaxMurders
      /\ murders' = m2.murders /\ killerEnd' = m2.end
      /\ unjust' = [p \in Persons |-> IF v \in {p, m2.unjust[p]} THEN None ELSE m2.unjust[p]]
      /\ partners' = FALSE /\ grace' = grace \ {v}
      /\ fight' = [p \in Persons |-> IF p = v THEN 0
                                     ELSE IF p = last /\ fight[p] > 0 THEN Most(fight[p], WhiteTime)
                                     ELSE fight[p]]
      /\ pzLocked' = (pzLocked \cup (IF last # None /\ fight[last] > 0 THEN {last} ELSE {})) \ {v}
      /\ attacked' = EndedFor({v}, attacked)
      /\ struck' = EndedFor({v}, struck)
      /\ skull' = [m2.skull EXCEPT ![v] = IF @ = "red" THEN @ ELSE "none"]
  BY DEF OnDeath, Forgotten
<1>2. m0 \in Books /\ RedEarned(m0) /\ \A p \in Persons : m0.murders[p] \in 0..MaxMurders
  BY DEF SkullsInv, SkullsTypeOK, SkullsHaveReason, Books, RedEarned, SkullsAssumption
<1> HIDE DEF m0
<1>3. /\ m1 \in Books /\ RedEarned(m1)
      /\ \A p \in Persons : m1.skull[p] = "white" => m0.skull[p] = "white"
      /\ \A p \in Persons : m1.murders[p] = m0.murders[p]
                            \/ (p = last /\ m1.unjust[p] = v /\ m1.murders[p] <= m0.murders[p] + 1)
  <2>1. CASE counts
    <3>1. last \in Persons /\ m1 = AddUnjustifiedDead(m0, last, v)
      BY <2>1
    <3> HIDE DEF m1
    <3>2. m0.murders[last] \in Nat
      BY <1>2, <3>1 DEF Books
    <3>3. m1 \in Books /\ RedEarned(m1) /\ CountedOnce(m0, m1, last, v)
      BY <1>2, <3>1, DeathCounts
    <3> QED BY <1>2, <3>1, <3>2, <3>3 DEF CountedOnce
  <2>2. CASE ~counts
    <3>1. m1 = m0
      BY <2>2
    <3> QED BY <1>2, <3>1
  <2> QED BY <2>1, <2>2
<1> HIDE DEF m1
<1>4. /\ m2 \in Books /\ RedEarned(m2)
      /\ \A p \in Persons : m2.skull[p] = "white" => m0.skull[p] = "white"
      /\ \A p \in Persons : m2.murders[p] = m0.murders[p]
                            \/ (p \in killers /\ m2.murders[p] <= m0.murders[p] + 1)
  <2>0. \A p \in Persons : m0.murders[p] \in Nat /\ m1.murders[p] \in Nat
    BY <1>2, <1>3 DEF Books
  <2>1. CASE also
    <3>1. most \in Persons /\ m2 = AddUnjustifiedDead(m1, most, v)
      BY <2>1
    <3> HIDE DEF m2
    <3>0. m2 \in Books /\ RedEarned(m2) /\ CountedOnce(m1, m2, most, v)
      BY <1>3, <3>1, DeathCounts
    <3>2. /\ \A p \in Persons \ {most} : m2.murders[p] = m1.murders[p]
          /\ m2.murders[most] <= m1.murders[most] + 1
          /\ m1.unjust[most] = v => m2 = m1
          /\ \A p \in Persons : m2.skull[p] = "white" => m1.skull[p] = "white"
      BY <3>0 DEF CountedOnce
    <3>3. \A p \in Persons \ {most} : m2.murders[p] = m0.murders[p]
             \/ (p \in killers /\ m2.murders[p] <= m0.murders[p] + 1)
      BY <1>3, <3>2 DEF SkullsAssumption
    <3>4. most \in killers /\ m2.murders[most] <= m0.murders[most] + 1
      <4>1. CASE m1.unjust[most] = v
        BY <1>3, <2>0, <3>1, <3>2, <4>1 DEF SkullsAssumption
      <4>2. CASE m1.unjust[most] # v
        BY <1>3, <3>1, <3>2, <4>2 DEF SkullsAssumption
      <4> QED BY <4>1, <4>2
    <3> QED BY <1>3, <3>0, <3>1, <3>2, <3>3, <3>4
  <2>2. CASE ~also
    <3>1. m2 = m1
      BY <2>2
    <3> QED BY <1>3, <3>1 DEF SkullsAssumption
  <2> QED BY <2>1, <2>2
<1> HIDE DEF m2
<1>5. m0.murders = murders /\ m0.skull = skull
  BY DEF m0
<1>6. /\ fight' \in [Persons -> 0..Most(1, WhiteTime)]
      /\ \A q \in Persons : q # v => fight'[q] >= fight[q]
  BY <1>1 DEF SkullsInv, SkullsTypeOK, SkullsAssumption, Most
<1>7. /\ {v} \in SUBSET Persons
      /\ attacked \in [Persons -> SUBSET Persons] /\ struck \in [Persons -> SUBSET Persons]
  BY DEF SkullsInv, SkullsTypeOK
<1>8. /\ skull' \in [Persons -> {"none", "white", "red"}]
      /\ \A q \in Persons : skull'[q] = "white" => skull[q] = "white" /\ q # v
      /\ \A q \in Persons : skull'[q] = "red" => m2.skull[q] = "red"
  BY <1>1, <1>4, <1>5 DEF Books
<1>9. murders' \in [Persons -> 0..MaxMurders]
  <2>1. \A p \in Persons : m2.murders[p] \in 0..MaxMurders
    BY <1>1, <1>2, <1>4, <1>5 DEF Books, SkullsAssumption
  <2> QED BY <1>1, <1>4, <2>1 DEF Books
<1>10. SkullsTypeOK'
  <2>1. /\ killerEnd' \in [Persons -> Nat] /\ unjust' \in [Persons -> Persons \cup {None}]
        /\ partners' \in BOOLEAN /\ grace' \subseteq Persons /\ pzLocked' \subseteq Persons
    BY <1>1, <1>4 DEF Books, SkullsInv, SkullsTypeOK
  <2> QED BY <1>1, <1>6, <1>7, <1>8, <1>9, <2>1, EndedForLess DEF SkullsTypeOK
<1>11. OneAggressor'
  BY <1>1, <1>7, EndedForLess DEF SkullsInv, OneAggressor
<1>12. AggressorStruck'
  <2> SUFFICES ASSUME NEW a \in Persons, NEW w \in attacked'[a]
               PROVE  w \in struck'[a] /\ fight'[a] > 0 /\ fight'[w] > 0
    BY DEF AggressorStruck
  <2>1. w \in attacked[a] /\ a # v /\ w # v /\ w \in Persons
    BY <1>1, <1>7, EndedForLess
  <2>2. w \in struck[a] /\ fight[a] > 0 /\ fight[w] > 0
    BY <2>1 DEF SkullsInv, AggressorStruck
  <2>3. struck'[a] = struck[a] \ {v}
    BY <1>1, <1>7, <2>1, EndedForLess
  <2>4. fight[a] \in Nat /\ fight[w] \in Nat /\ fight'[a] \in Nat /\ fight'[w] \in Nat
    BY <1>6, <2>1 DEF SkullsInv, SkullsTypeOK, SkullsAssumption, Most
  <2> QED BY <1>6, <2>1, <2>2, <2>3, <2>4
<1>13. SkullsHaveReason'
  <2>1. \A p \in Persons : fight[p] \in Nat /\ fight'[p] \in Nat
    BY <1>6 DEF SkullsInv, SkullsTypeOK, SkullsAssumption, Most
  <2>2. \A p \in Persons : skull'[p] = "white" \/ p \in pzLocked' => fight'[p] > 0
    <3> SUFFICES ASSUME NEW p \in Persons, skull'[p] = "white" \/ p \in pzLocked'
                 PROVE  p # v /\ fight[p] > 0
      BY <1>6, <2>1
    <3>1. p # v
      BY <1>1, <1>8
    <3>2. fight[p] > 0
      BY <1>1, <1>8 DEF SkullsInv, SkullsHaveReason
    <3> QED BY <3>1, <3>2
  <2>3. \A p \in Persons : skull'[p] = "red" => killerEnd'[p] > 0 /\ murders'[p] >= KillsRed
    BY <1>1, <1>4, <1>8 DEF RedEarned
  <2> QED BY <2>2, <2>3 DEF SkullsHaveReason
<1> QED BY <1>10, <1>11, <1>12, <1>13 DEF SkullsInv

-----------------------------------------------------------------------------
LEMMA SkullsStep == ASSUME SkullsAssumption, SkullsInv, [Next]_vars PROVE SkullsInv'
<1>1. CASE \E a, v \in Persons, war \in BOOLEAN : OnAttackedCreature(a, v, war)
  BY <1>1, Blow
<1>2. CASE \E p \in Persons : OnAttacked(p)
  BY <1>2, BlowOfMonster
<1>3. CASE \E p \in Persons : Reload(p)
  BY <1>3, Reloaded
<1>4. CASE \E p \in Persons : LeaveParty(p)
  BY <1>4 DEF LeaveParty, SkullsInv, SkullsTypeOK, OneAggressor, AggressorStruck, SkullsHaveReason
<1>5. CASE \E v \in Persons, last, most \in Persons \cup {None}, summon, one \in BOOLEAN :
             OnDeath(v, last, most, summon, one)
  BY <1>5, Died
<1>6. CASE Tick
  BY <1>6, TimePasses
<1>7. CASE JoinParty
  BY <1>7 DEF JoinParty, SkullsInv, SkullsTypeOK, OneAggressor, AggressorStruck, SkullsHaveReason
<1>8. CASE GraceEnds
  BY <1>8 DEF GraceEnds, SkullsInv, SkullsTypeOK, OneAggressor, AggressorStruck, SkullsHaveReason
<1>9. CASE UNCHANGED vars
  BY <1>9 DEF vars, SkullsInv, SkullsTypeOK, OneAggressor, AggressorStruck, SkullsHaveReason
<1> QED BY <1>1, <1>2, <1>3, <1>4, <1>5, <1>6, <1>7, <1>8, <1>9 DEF Next

\* Of two that fight one at most is the aggressor, he has struck and still fights, and nobody
\* wears a skull without its reason (player.cpp:3774, 3787, 4272).
THEOREM SkullsAgree == Spec => []SkullsInv
<1>1. Init => SkullsInv
  BY SkullsInit, SkullsAssumed
<1>2. SkullsInv /\ [Next]_vars => SkullsInv'
  BY SkullsStep, SkullsAssumed
<1> QED BY <1>1, <1>2, PTL DEF Spec

-----------------------------------------------------------------------------
(* What a client knows of creatures.                                       *)

KnownIInv == K!KnownInv /\ IsFiniteSet(u3)

LEMMA KnownCount == ASSUME NEW S0 PROVE K!Cardinality(S0) = Cardinality(S0)
BY DEF K!Cardinality, Cardinality

LEMMA SendKeeps ==
  ASSUME K!KnownAssumption, KnownIInv, NEW c \in Known, NEW onMap \in BOOLEAN, K!Send(c, onMap),
         u2' \in SUBSET Known, u1' \in SUBSET Known, u7' = u7,
         \A x \in u5 : K!SeesThen(x), onMap => K!SeesThen(c)
  PROVE  KnownIInv'
<1> USE DEF KnownIInv, K!KnownInv
<1>1. /\ u1 \subseteq Known /\ u2 \subseteq Known /\ u3 \subseteq Known /\ u4 \subseteq Known
      /\ u5 \subseteq Known
  BY DEF K!KnownTypeOK
<1>2. IsFiniteSet(u3) /\ Cardinality(u3) \in Nat /\ Cardinality(u3) <= KnownMax
  BY FS_CardinalityType, KnownCount DEF K!ClientKnows
<1>3. CASE c \in u3
  BY <1>1, <1>2, <1>3 DEF K!Send, K!KnownTypeOK, K!ClientKnows, K!ShownAreKnown, K!CanSee, K!SeesThen
<1>4. CASE c \notin u3 /\ Cardinality(u3) < KnownMax
  <2>1. u3' = u3 \cup {c} /\ K!Describe(c, {}, onMap) /\ u6' = u6
    BY <1>4, KnownCount DEF K!Send
  <2>2. IsFiniteSet(u3') /\ Cardinality(u3') = Cardinality(u3) + 1
    BY <1>2, <1>4, <2>1, FS_AddElement
  <2>3. K!ClientKnows'
    BY <1>2, <1>4, <2>1, <2>2, KnownCount DEF K!ClientKnows, K!Describe, K!KnownAssumption
  <2> QED BY <1>1, <2>1, <2>2, <2>3 DEF K!KnownTypeOK, K!ShownAreKnown, K!CanSee, K!SeesThen, K!Describe
<1>5. CASE c \notin u3 /\ ~(Cardinality(u3) < KnownMax)
  <2>1. PICK x \in K!Forgettable(c) :
          /\ u3' = (u3 \cup {c}) \ {x} /\ K!Describe(c, {x}, onMap)
          /\ u6' = (u6 \/ \A y \in u3 \cup {c} : K!SeesThen(y))
    BY <1>5, KnownCount DEF K!Send
  <2>2. x \in u3 \cup {c} /\ (u6' \/ ~K!SeesThen(x))
    BY <2>1 DEF K!Forgettable
  <2>3. IsFiniteSet(u3 \cup {c}) /\ Cardinality(u3 \cup {c}) = Cardinality(u3) + 1
    BY <1>2, <1>5, FS_AddElement
  <2>4. IsFiniteSet(u3') /\ Cardinality(u3') = Cardinality(u3)
    <3>1. Cardinality((u3 \cup {c}) \ {x}) = Cardinality(u3 \cup {c}) - 1 /\ IsFiniteSet((u3 \cup {c}) \ {x})
      BY <2>2, <2>3, FS_RemoveElement
    <3> QED BY <1>2, <2>1, <2>3, <3>1
  <2>5. K!ClientKnows'
    BY <1>2, <2>1, <2>4, KnownCount DEF K!ClientKnows, K!Describe
  <2>6. u4' = (u4 \ {x}) \cup {c} /\ u5' = IF onMap THEN u5 \cup {c} ELSE u5
    BY <2>1 DEF K!Describe
  <2>7. K!ShownAreKnown'
    <3>1. \A y \in u5' : K!SeesThen(y)
      BY <2>6
    <3>2. u6' \/ u7' \/ u5' \subseteq u4'
      BY <1>1, <2>1, <2>2, <2>6, <3>1 DEF K!ShownAreKnown
    <3> QED BY <3>1, <3>2 DEF K!ShownAreKnown, K!CanSee, K!SeesThen
  <2>8. K!KnownTypeOK'
    BY <1>1, <2>1, <2>6 DEF K!KnownTypeOK
  <2> QED BY <2>4, <2>5, <2>7, <2>8
<1> QED BY <1>3, <1>4, <1>5

LEMMA KnownInit == ASSUME K!KnownAssumption, K!Init PROVE KnownIInv
BY FS_EmptySet, KnownCount DEF K!Init, K!KnownAssumption, KnownIInv, K!KnownInv, K!KnownTypeOK, K!ClientKnows, K!ShownAreKnown

LEMMA KnownStep == ASSUME K!KnownAssumption, KnownIInv, [K!Next]_(K!vars) PROVE KnownIInv'
<1>1. /\ u1 \subseteq Known /\ u2 \subseteq Known /\ u3 \subseteq Known /\ u4 \subseteq Known
      /\ u5 \subseteq Known
  BY DEF KnownIInv, K!KnownInv, K!KnownTypeOK
<1>2. \A x \in u5 : K!CanSee(x)
  BY DEF KnownIInv, K!KnownInv, K!ShownAreKnown
<1> USE DEF K!SeesThen, K!CanSee
<1>3. ASSUME NEW c \in Known, K!Appear(c) PROVE KnownIInv'
  <2>1. CASE c \in u2
    BY <1>1, <1>2, <1>3, <2>1 DEF K!Appear, KnownIInv, K!KnownInv, K!KnownTypeOK, K!ClientKnows, K!ShownAreKnown
  <2>2. CASE c \notin u2
    BY <1>1, <1>2, <1>3, <2>2, SendKeeps DEF K!Appear
  <2> QED BY <2>1, <2>2
<1>4. ASSUME NEW c \in Known, K!PlaceHidden(c) PROVE KnownIInv'
  BY <1>1, <1>2, <1>4, SendKeeps DEF K!PlaceHidden
<1>5. ASSUME NEW c \in Known, K!Disappear(c) \/ K!Hide(c) PROVE KnownIInv'
  BY <1>1, <1>2, <1>5 DEF K!Disappear, K!Hide, KnownIInv, K!KnownInv, K!KnownTypeOK, K!ClientKnows, K!ShownAreKnown
<1>6. ASSUME NEW c \in Known, K!Reveal(c) PROVE KnownIInv'
  <2>1. CASE c \in u1
    BY <1>1, <1>2, <1>6, <2>1, SendKeeps DEF K!Reveal
  <2>2. CASE c \notin u1
    BY <1>1, <1>2, <1>6, <2>2 DEF K!Reveal, KnownIInv, K!KnownInv, K!KnownTypeOK, K!ClientKnows, K!ShownAreKnown
  <2> QED BY <2>1, <2>2
<1>7. ASSUME NEW c \in Known, K!Refresh(c) PROVE KnownIInv'
  BY <1>1, <1>2, <1>7, SendKeeps DEF K!Refresh
<1>8. ASSUME NEW c \in Known, K!Rename(c) PROVE KnownIInv'
  <2>1. CASE c \notin u3
    BY <1>1, <1>2, <1>8, <2>1, SendKeeps DEF K!Rename
  <2>2. CASE c \in u3
    <3>1. PICK forget \in {{}} \cup {{x} : x \in Known} :
            /\ K!Describe(c, forget, TRUE) /\ u7' = (u7 \/ forget \ {c} # {}) /\ UNCHANGED <<u3, u6>>
      BY <1>8, <2>2 DEF K!Rename
    <3> QED BY <1>1, <1>2, <1>8, <2>2, <3>1
            DEF K!Rename, K!Describe, KnownIInv, K!KnownInv, K!KnownTypeOK, K!ClientKnows, K!ShownAreKnown
  <2> QED BY <2>1, <2>2
<1>9. ASSUME K!Relog PROVE KnownIInv'
  BY <1>1, <1>9, FS_EmptySet, KnownCount DEF K!Relog, K!KnownAssumption, KnownIInv, K!KnownInv, K!KnownTypeOK, K!ClientKnows, K!ShownAreKnown
<1>10. ASSUME UNCHANGED K!vars PROVE KnownIInv'
  BY <1>1, <1>2, <1>10 DEF K!vars, KnownIInv, K!KnownInv, K!KnownTypeOK, K!ClientKnows, K!ShownAreKnown
<1> QED BY <1>3, <1>4, <1>5, <1>6, <1>7, <1>8, <1>9, <1>10 DEF K!Next

-----------------------------------------------------------------------------
(* Who is told of what happens where.                                      *)

LEMMA DivMono ==
  ASSUME NEW i \in Nat, NEW j \in Nat, i <= j
  PROVE  i \div 8 \in Nat /\ j \div 8 \in Nat /\ i \div 8 <= j \div 8
OBVIOUS

\* From where to where the walks go.
North(centre) == S!Most(0, centre[2] - S!maxViewportY + (centre[3] - S!MaxZ(centre[3]))) \div S!FLOOR_SIZE
West(centre) == S!Most(0, centre[1] - S!maxViewportX + (centre[3] - S!MaxZ(centre[3]))) \div S!FLOOR_SIZE
South(centre) == (centre[2] + S!maxViewportY + (centre[3] - S!MinZ(centre[3]))) \div S!FLOOR_SIZE
East(centre) == (centre[1] + S!maxViewportX + (centre[3] - S!MinZ(centre[3]))) \div S!FLOOR_SIZE

\* The leaf of whoever is in range is on a walk.
LEMMA NearBy ==
  ASSUME NEW q \in Nat \X Nat \X (0 .. 15), NEW r \in Nat \X Nat \X (0 .. 15), S!InRange(q, r)
  PROVE  /\ North(q) \in Nat /\ West(q) \in Nat /\ S!LeafOf(r) \in Nat \X Nat
         /\ North(q) <= S!LeafOf(r)[2] /\ S!LeafOf(r)[2] <= South(q)
         /\ West(q) <= S!LeafOf(r)[1] /\ S!LeafOf(r)[1] <= East(q)
<1> DEFINE up == S!MaxZ(q[3])
           down == S!MinZ(q[3])
           o == q[3] - r[3]
           n == S!Most(0, q[2] - 10 + (q[3] - up))
           w == S!Most(0, q[1] - 12 + (q[3] - up))
           s == q[2] + 10 + (q[3] - down)
           e == q[1] + 12 + (q[3] - down)
<1>1. up \in Int /\ down \in Int
  BY DEF S!MaxZ, S!MinZ, S!Least
<1>2. r[3] \in down .. up /\ r[1] - q[1] - o \in -12 .. 12 /\ r[2] - q[2] - o \in -10 .. 10
  BY DEF S!InRange, S!maxViewportX, S!maxViewportY
<1>3. /\ n \in Nat /\ w \in Nat /\ s \in Nat /\ e \in Nat
      /\ n <= r[2] /\ r[2] <= s /\ w <= r[1] /\ r[1] <= e
  <2>1. q[1] \in Nat /\ q[2] \in Nat /\ q[3] \in Int /\ r[1] \in Nat /\ r[2] \in Nat /\ r[3] \in Int
    OBVIOUS
  <2> HIDE DEF up, down
  <2>2. ASSUME NEW i \in Int, NEW k \in Nat, NEW j \in Int, i \in -k .. k PROVE -k <= i /\ i <= k
    BY <2>2
  <2>a. /\ r[1] - q[1] - o \in Int /\ r[2] - q[2] - o \in Int /\ o \in Int
        /\ r[3] >= down /\ r[3] <= up
    BY <1>1, <1>2, <2>1
  <2>b. /\ r[1] - q[1] - o >= -12 /\ r[1] - q[1] - o <= 12
        /\ r[2] - q[2] - o >= -10 /\ r[2] - q[2] - o <= 10
    BY <1>2, <2>2, <2>a
  <2>c. q[3] - up <= o /\ o <= q[3] - down /\ q[3] - up \in Int /\ q[3] - down \in Int
    <3>1. ASSUME NEW i \in Int, NEW j \in Int, NEW k \in Int, NEW m \in Int, m <= j, j <= k
          PROVE  i - k <= i - j /\ i - j <= i - m /\ i - k \in Int /\ i - m \in Int
      BY <3>1
    <3> QED BY <1>1, <2>1, <2>a, <3>1
  <2>d. ASSUME NEW i \in Int, NEW j \in Int, NEW k \in Int, NEW ll \in Int, NEW hh \in Int, NEW m \in Nat,
               j - i - k >= -m, j - i - k <= m, ll <= k, k <= hh
        PROVE  i - m + ll \in Int /\ i - m + ll <= j /\ i + m + hh >= j /\ i + m + hh \in Int
    BY <2>d
  <2>3. /\ q[2] - 10 + (q[3] - up) \in Int /\ q[2] - 10 + (q[3] - up) <= r[2]
        /\ q[1] - 12 + (q[3] - up) \in Int /\ q[1] - 12 + (q[3] - up) <= r[1]
        /\ s >= r[2] /\ e >= r[1] /\ s \in Int /\ e \in Int
    <3> HIDE DEF o
    <3> QED BY <2>1, <2>a, <2>b, <2>c, <2>d
  <2>4. s \in Nat /\ e \in Nat
    BY <2>1, <2>3
  <2>5. ASSUME NEW i \in Int, NEW j \in Nat, i <= j PROVE S!Most(0, i) \in Nat /\ S!Most(0, i) <= j
    BY <2>5 DEF S!Most
  <2>6. n \in Nat /\ n <= r[2] /\ w \in Nat /\ w <= r[1]
    <3> HIDE DEF s, e
    <3> QED BY <2>1, <2>3, <2>5
  <2> QED BY <2>3, <2>4, <2>6
<1>4. /\ North(q) = n \div 8 /\ West(q) = w \div 8 /\ South(q) = s \div 8 /\ East(q) = e \div 8
      /\ S!LeafOf(r) = <<r[1] \div 8, r[2] \div 8>>
  BY DEF North, West, South, East, S!LeafOf, S!FLOOR_SIZE, S!maxViewportX, S!maxViewportY
<1> HIDE DEF n, w, s, e
<1>5. r[1] \in Nat /\ r[2] \in Nat
  OBVIOUS
<1>6. /\ n \div 8 \in Nat /\ n \div 8 <= r[2] \div 8 /\ r[2] \div 8 <= s \div 8
      /\ w \div 8 \in Nat /\ w \div 8 <= r[1] \div 8 /\ r[1] \div 8 <= e \div 8
      /\ r[1] \div 8 \in Nat /\ r[2] \div 8 \in Nat
  BY <1>3, <1>5, DivMono
<1> QED BY <1>4, <1>6

LEMMA CornersAre ==
  ASSUME NEW q \in Nat \X Nat \X (0 .. 15)
  PROVE  North(q) \in Nat /\ West(q) \in Nat /\ South(q) \in Int /\ East(q) \in Int
<1>1. S!MaxZ(q[3]) \in Int /\ S!MinZ(q[3]) \in Int /\ S!MinZ(q[3]) <= q[3]
  BY DEF S!MaxZ, S!MinZ, S!Least
<1>2. ASSUME NEW i \in Int PROVE S!Most(0, i) \in Nat
  BY DEF S!Most
<1> DEFINE a == S!Most(0, q[2] - 10 + (q[3] - S!MaxZ(q[3])))
           b == S!Most(0, q[1] - 12 + (q[3] - S!MaxZ(q[3])))
           c == q[2] + 10 + (q[3] - S!MinZ(q[3]))
           d == q[1] + 12 + (q[3] - S!MinZ(q[3]))
<1>3. a \in Nat /\ b \in Nat /\ c \in Nat /\ d \in Nat
  <2>1. q[2] - 10 + (q[3] - S!MaxZ(q[3])) \in Int /\ q[1] - 12 + (q[3] - S!MaxZ(q[3])) \in Int
    BY <1>1
  <2>2. c \in Nat /\ d \in Nat
    BY <1>1
  <2> QED BY <1>2, <2>1, <2>2
<1> HIDE DEF a, b, c, d
<1>4. a \div 8 \in Nat /\ b \div 8 \in Nat /\ c \div 8 \in Nat /\ d \div 8 \in Nat
  BY <1>3
<1> QED BY <1>4 DEF a, b, c, d, North, West, South, East, S!FLOOR_SIZE, S!maxViewportX, S!maxViewportY

\* The walks visit just the leafs there are from one corner to the other.
LEMMA VisitedIs ==
  ASSUME u2 \subseteq Nat \X Nat, None \notin Nat \X Nat, LinksOf(u3, <<1, 0>>), LinksOf(u4, <<0, 1>>),
         NEW q \in Nat \X Nat \X (0 .. 15)
  PROVE  S!Visited(q) =
           {l \in u2 : l[1] \in West(q) .. East(q) /\ l[2] \in North(q) .. South(q)}
<1> DEFINE x == West(q)
           y == North(q)
           columns == East(q) - x
           rows == South(q) - y
           first == S!Walk(S!LeafAt(<<x, y>>), u4, <<x, y>>, <<0, 1>>, rows)
           row(j) == S!Walk(first[j], u3, <<x, y + j>>, <<1, 0>>, columns)
<1>1. x \in Nat /\ y \in Nat /\ columns \in Int /\ rows \in Int
  BY CornersAre
<1>2. S!Visited(q) = (UNION {{row(j)[i] : i \in 0 .. columns} : j \in 0 .. rows}) \ {None}
  BY DEF S!Visited, North, West, South, East
<1> HIDE DEF x, y, columns, rows
<1>3. \A j \in 0 .. rows : first[j] = S!LeafAt(<<x, y + j>>)
  <2>1. <<x, y>> \in Nat \X Nat /\ <<0, 1>> \in Nat \X Nat
    BY <1>1
  <2>a. Finds(S!LeafAt(<<x, y>>), u4, <<x, y>>, <<0, 1>>, rows)
    BY <1>1, <2>1, WalkFinds
  <2>2. \A j \in 0 .. rows : first[j] = S!LeafAt(<<<<x, y>>[1] + j * <<0, 1>>[1], <<x, y>>[2] + j * <<0, 1>>[2]>>)
    BY <2>a DEF Finds
  <2>3. \A j \in 0 .. rows : <<<<x, y>>[1] + j * <<0, 1>>[1], <<x, y>>[2] + j * <<0, 1>>[2]>> = <<x, y + j>>
    BY <1>1
  <2> HIDE DEF first
  <2> QED BY <2>2, <2>3
<1> HIDE DEF first
<1>4. \A j \in 0 .. rows : \A i \in 0 .. columns : row(j)[i] = S!LeafAt(<<x + i, y + j>>)
  <2> TAKE j \in 0 .. rows
  <2> DEFINE l == <<x, y + j>>
  <2>1. l \in Nat \X Nat /\ <<1, 0>> \in Nat \X Nat
    BY <1>1
  <2>2. first[j] = S!LeafAt(l)
    BY <1>3
  <2> HIDE DEF l
  <2>a. Finds(first[j], u3, l, <<1, 0>>, columns)
    BY <1>1, <2>1, <2>2, WalkFinds
  <2>3. \A i \in 0 .. columns : S!Walk(first[j], u3, l, <<1, 0>>, columns)[i] = S!LeafAt(<<l[1] + i * <<1, 0>>[1], l[2] + i * <<1, 0>>[2]>>)
    BY <2>a DEF Finds
  <2>4. \A i \in 0 .. columns : <<l[1] + i * <<1, 0>>[1], l[2] + i * <<1, 0>>[2]>> = <<x + i, y + j>>
    BY <1>1 DEF l
  <2>5. \A i \in 0 .. columns : row(j)[i] = S!Walk(first[j], u3, l, <<1, 0>>, columns)[i]
    BY DEF l
  <2> HIDE DEF row
  <2> QED BY <2>3, <2>4, <2>5
<1> HIDE DEF row
<1>5. ASSUME NEW l \in S!Visited(q)
      PROVE  l \in u2 /\ l[1] \in x .. East(q) /\ l[2] \in y .. South(q)
  <2>1. PICK j \in 0 .. rows, i \in 0 .. columns : l = row(j)[i] /\ l # None
    BY <1>2
  <2>2. l = <<x + i, y + j>> /\ l \in u2
    BY <1>4, <2>1 DEF S!LeafAt
  <2>3. x + i \in x .. East(q) /\ y + j \in y .. South(q)
    BY <1>1, CornersAre DEF columns, rows
  <2> QED BY <2>2, <2>3
<1>6. ASSUME NEW l \in u2, l[1] \in x .. East(q), l[2] \in y .. South(q)
      PROVE  l \in S!Visited(q)
  <2> DEFINE i == l[1] - x
             j == l[2] - y
  <2>1. i \in 0 .. columns /\ j \in 0 .. rows /\ x + i = l[1] /\ y + j = l[2] /\ l = <<l[1], l[2]>>
    <3>1. l[1] \in Nat /\ l[2] \in Nat /\ l = <<l[1], l[2]>>
      BY <1>6
    <3>2. East(q) \in Int /\ South(q) \in Int
      BY CornersAre
    <3>3. ASSUME NEW m \in Nat, NEW k \in Nat, NEW n \in Int, k \in m .. n
          PROVE  k - m \in 0 .. (n - m) /\ m + (k - m) = k
      BY <3>3
    <3> QED BY <1>1, <1>6, <3>1, <3>2, <3>3 DEF columns, rows
  <2> HIDE DEF i, j
  <2>2. row(j)[i] = l /\ l # None
    BY <1>4, <2>1 DEF S!LeafAt
  <2> QED BY <1>2, <2>1, <2>2
<1> QED BY <1>5, <1>6 DEF x, y

\* Who is in range of q when the creatures are where `place` says.
InRangeOf(q, place) == {c \in Walkers : place[c] # None /\ S!InRange(q, place[c])}
ListsFor(listed, place) ==
  \A l \in u2 : listed[l] = {c \in Walkers : place[c] # None /\ S!LeafOf(place[c]) = l}

LEMMA FoundIs ==
  ASSUME u2 \subseteq Nat \X Nat, None \notin Nat \X Nat, LinksOf(u3, <<1, 0>>), LinksOf(u4, <<0, 1>>),
         NEW q \in Nat \X Nat \X (0 .. 15), NEW place, NEW listed, ListsFor(listed, place),
         \A c \in Walkers : place[c] # None =>
            place[c] \in Nat \X Nat \X (0 .. 15) /\ S!LeafOf(place[c]) \in u2
  PROVE  S!Found(q, listed, place) = InRangeOf(q, place)
<1>1. ASSUME NEW c \in S!Found(q, listed, place) PROVE c \in InRangeOf(q, place)
  <2>1. PICK l \in S!Visited(q) : c \in listed[l] /\ S!InRange(q, place[c])
    BY DEF S!Found
  <2>2. l \in u2
    BY VisitedIs
  <2> QED BY <2>1, <2>2 DEF ListsFor, InRangeOf
<1>2. ASSUME NEW c \in InRangeOf(q, place) PROVE c \in S!Found(q, listed, place)
  <2>1. c \in Walkers /\ place[c] # None /\ S!InRange(q, place[c])
    BY DEF InRangeOf
  <2> DEFINE l == S!LeafOf(place[c])
  <2>2. l \in u2 /\ c \in listed[l]
    BY <2>1 DEF ListsFor
  <2>3. l[1] \in West(q) .. East(q) /\ l[2] \in North(q) .. South(q)
    <3>1. place[c] \in Nat \X Nat \X (0 .. 15)
      BY <2>1
    <3>2. /\ North(q) \in Nat /\ West(q) \in Nat /\ l \in Nat \X Nat
          /\ North(q) <= l[2] /\ l[2] <= South(q) /\ West(q) <= l[1] /\ l[1] <= East(q)
      <4> DEFINE r == place[c]
      <4> HIDE DEF r
      <4>1. r \in Nat \X Nat \X (0 .. 15) /\ S!InRange(q, r) /\ l = S!LeafOf(r)
        BY <2>1, <3>1 DEF r
      <4> QED BY <4>1, NearBy
    <3>3. South(q) \in Int /\ East(q) \in Int
      BY CornersAre
    <3> HIDE DEF l
    <3> QED BY <3>2, <3>3
  <2> HIDE DEF l
  <2>4. l \in S!Visited(q)
    BY <2>2, <2>3, VisitedIs
  <2> QED BY <2>1, <2>2, <2>4 DEF S!Found
<1> QED BY <1>1, <1>2

\* The tree of leafs is that of the tiles, the links and the lists are complete.
SpecShape ==
  /\ u1 \subseteq Tiles /\ u2 = {S!LeafOf(q) : q \in u1}
  /\ LinksOf(u3, <<1, 0>>) /\ LinksOf(u4, <<0, 1>>)
  /\ u5 \in [u2 -> SUBSET Walkers] /\ ListsFor(u5, u6)
  /\ u6 \in [Walkers -> u1 \cup {None}]
\* What is kept is who is in range now.
SpecKept ==
  /\ DOMAIN u7 = Tiles /\ DOMAIN u8 = Tiles
  /\ \A q \in Tiles : u7[q] \in {None, InRangeOf(q, u6)} /\ u8[q] \in {None, InRangeOf(q, u6) \cap Seers}
SpecIInv == SpecShape /\ SpecKept /\ u9 \in [Seers -> (0 .. 21) \X (0 .. 17)]

LEMMA LeafIs ==
  ASSUME S!SpectatorsAssumption, NEW q \in Tiles
  PROVE  q \in Nat \X Nat \X (0 .. 15) /\ S!LeafOf(q) \in Nat \X Nat
<1>1. q \in Nat \X Nat \X (0 .. 15)
  BY DEF S!SpectatorsAssumption
<1>2. ASSUME NEW i \in Nat PROVE i \div 8 \in Nat
  BY <1>2
<1>3. q[1] \in Nat /\ q[2] \in Nat
  BY <1>1
<1>4. q[1] \div 8 \in Nat /\ q[2] \div 8 \in Nat
  BY <1>2, <1>3
<1> QED BY <1>1, <1>4 DEF S!LeafOf, S!FLOOR_SIZE

LEMMA LeafsAre ==
  ASSUME S!SpectatorsAssumption, SpecShape
  PROVE  u2 \subseteq Nat \X Nat /\ None \notin Nat \X Nat /\ None \notin Tiles
BY LeafIs DEF SpecShape, S!SpectatorsAssumption

LEMMA ScanIs ==
  ASSUME S!SpectatorsAssumption, SpecShape, NEW q \in Tiles
  PROVE  S!Scan(q) = InRangeOf(q, u6)
<1>1. \A c \in Walkers : u6[c] # None => u6[c] \in Nat \X Nat \X (0 .. 15) /\ S!LeafOf(u6[c]) \in u2
  <2> SUFFICES ASSUME NEW c \in Walkers, u6[c] # None
               PROVE  u6[c] \in Nat \X Nat \X (0 .. 15) /\ S!LeafOf(u6[c]) \in u2
    OBVIOUS
  <2>1. u6[c] \in u1 /\ u6[c] \in Tiles
    BY DEF SpecShape
  <2> QED BY <2>1, LeafIs DEF SpecShape
<1>2. q \in Nat \X Nat \X (0 .. 15) /\ ListsFor(u5, u6) /\ LinksOf(u3, <<1, 0>>) /\ LinksOf(u4, <<0, 1>>)
  BY LeafIs DEF SpecShape
<1>3. S!Found(q, u5, u6) = InRangeOf(q, u6)
  BY <1>1, <1>2, LeafsAre, FoundIs
<1> QED BY <1>3 DEF S!Scan

LEMMA SpecInit == ASSUME S!SpectatorsAssumption, S!Init PROVE SpecIInv
BY DEF S!Init, SpecIInv, SpecShape, SpecKept, LinksOf, ListsFor, S!Empty

LEMMA SetTileKeeps ==
  ASSUME S!SpectatorsAssumption, SpecIInv, NEW q \in Tiles, S!SetTile(q) PROVE SpecIInv'
<1> DEFINE l == S!LeafOf(q)
<1>1. /\ u1' = u1 \cup {q} /\ UNCHANGED <<u6, u7, u8, u9>>
      /\ IF l \in u2 THEN UNCHANGED <<u2, u3, u4, u5>>
         ELSE /\ u2' = u2 \cup {l}
              /\ u4' = [m \in u2 \cup {l} |-> IF m = <<l[1], l[2] - 1>> THEN l
                                  ELSE IF m = l THEN S!LeafAt(<<l[1], l[2] + 1>>) ELSE u4[m]]
              /\ u3' = [m \in u2 \cup {l} |-> IF m = <<l[1] - 1, l[2]>> THEN l
                                  ELSE IF m = l THEN S!LeafAt(<<l[1] + 1, l[2]>>) ELSE u3[m]]
              /\ u5' = [m \in u2 \cup {l} |-> IF m = l THEN {} ELSE u5[m]]
  BY DEF S!SetTile
<1>2. l \in Nat \X Nat /\ u2 \subseteq Nat \X Nat
  BY LeafIs, LeafsAre DEF SpecIInv
<1>3. u2' = u2 \cup {l} /\ u2' = {S!LeafOf(r) : r \in u1'} /\ u1' \subseteq Tiles
  <2> HIDE DEF l
  <2>1. u2' = u2 \cup {l}
    BY <1>1
  <2>2. u2 = {S!LeafOf(r) : r \in u1} /\ u1 \subseteq Tiles
    BY DEF SpecIInv, SpecShape
  <2> QED BY <1>1, <2>1, <2>2 DEF l
<1>4. \A c \in Walkers : u6[c] # None => S!LeafOf(u6[c]) \in u2
  BY DEF SpecIInv, SpecShape
<1>5. SpecKept' /\ (u9 \in [Seers -> (0 .. 21) \X (0 .. 17)])'
  BY <1>1 DEF SpecIInv, SpecKept
<1>6. (u6 \in [Walkers -> u1 \cup {None}])'
  BY <1>1 DEF SpecIInv, SpecShape
<1>7. CASE l \in u2
  <2> HIDE DEF l
  <2>1. u2' = u2 /\ u3' = u3 /\ u4' = u4 /\ u5' = u5 /\ u6' = u6
    BY <1>1, <1>7
  <2> QED BY <1>3, <1>5, <1>6, <2>1 DEF SpecIInv, SpecShape, LinksOf, S!LeafAt, ListsFor
<1>8. CASE l \notin u2
  <2> HIDE DEF l
  <2>1. u5' \in [u2' -> SUBSET Walkers] /\ ListsFor(u5, u6)'
    BY <1>1, <1>3, <1>4, <1>8 DEF SpecIInv, SpecShape, ListsFor
  <2>2. \A m \in u2' : m \in Nat \X Nat
    BY <1>2, <1>3
  <2>3. LinksOf(u4, <<0, 1>>)'
    <3> SUFFICES ASSUME NEW m \in u2' PROVE u4'[m] = S!LeafAt(Ahead(m, <<0, 1>>))'
      BY DEF LinksOf
    <3>1. m \in Nat \X Nat /\ m[1] + 0 = m[1]
      BY <2>2
    <3>2. m = <<m[1], m[2]>> /\ l = <<l[1], l[2]>>
      BY <1>2, <3>1
    <3>3. (m = <<l[1], l[2] - 1>>) <=> <<m[1], m[2] + 1>> = l
      <4>1. l[1] \in Nat /\ l[2] \in Nat /\ m[1] \in Nat /\ m[2] \in Nat
        BY <1>2, <3>1
      <4>2. (m[2] = l[2] - 1) <=> (m[2] + 1 = l[2])
        BY <4>1
      <4>3. (<<m[1], m[2]>> = <<l[1], l[2] - 1>>) <=> (m[1] = l[1] /\ m[2] = l[2] - 1)
        OBVIOUS
      <4>4. (<<m[1], m[2] + 1>> = <<l[1], l[2]>>) <=> (m[1] = l[1] /\ m[2] + 1 = l[2])
        OBVIOUS
      <4> QED BY <3>2, <4>2, <4>3, <4>4
    <3>a. Ahead(m, <<0, 1>>) = <<m[1], m[2] + 1>>
      BY <3>1 DEF Ahead
    <3>4. CASE m = <<l[1], l[2] - 1>>
      BY <1>1, <1>3, <1>8, <3>1, <3>3, <3>a, <3>4 DEF S!LeafAt
    <3>5. CASE m # <<l[1], l[2] - 1>> /\ m = l
      BY <1>1, <1>3, <1>8, <3>1, <3>3, <3>a, <3>5 DEF S!LeafAt
    <3>6. CASE m # <<l[1], l[2] - 1>> /\ m # l
      <4>1. m \in u2 /\ u4'[m] = u4[m]
        BY <1>1, <1>3, <1>8, <3>6
      <4>2. u4[m] = S!LeafAt(<<m[1] + 0, m[2] + 1>>)
        BY <4>1 DEF SpecIInv, SpecShape, LinksOf, Ahead
      <4> QED BY <1>3, <3>1, <3>3, <3>6, <3>a, <4>1, <4>2 DEF S!LeafAt
    <3> QED BY <3>4, <3>5, <3>6
  <2>4. LinksOf(u3, <<1, 0>>)'
    <3> SUFFICES ASSUME NEW m \in u2' PROVE u3'[m] = S!LeafAt(Ahead(m, <<1, 0>>))'
      BY DEF LinksOf
    <3>1. m \in Nat \X Nat /\ m[2] + 0 = m[2]
      BY <2>2
    <3>2. m = <<m[1], m[2]>> /\ l = <<l[1], l[2]>>
      BY <1>2, <3>1
    <3>3. (m = <<l[1] - 1, l[2]>>) <=> <<m[1] + 1, m[2]>> = l
      <4>1. l[1] \in Nat /\ l[2] \in Nat /\ m[1] \in Nat /\ m[2] \in Nat
        BY <1>2, <3>1
      <4>2. (m[1] = l[1] - 1) <=> (m[1] + 1 = l[1])
        BY <4>1
      <4>3. (<<m[1], m[2]>> = <<l[1] - 1, l[2]>>) <=> (m[1] = l[1] - 1 /\ m[2] = l[2])
        OBVIOUS
      <4>4. (<<m[1] + 1, m[2]>> = <<l[1], l[2]>>) <=> (m[1] + 1 = l[1] /\ m[2] = l[2])
        OBVIOUS
      <4> QED BY <3>2, <4>2, <4>3, <4>4
    <3>a. Ahead(m, <<1, 0>>) = <<m[1] + 1, m[2]>>
      BY <3>1 DEF Ahead
    <3>4. CASE m = <<l[1] - 1, l[2]>>
      BY <1>1, <1>3, <1>8, <3>1, <3>3, <3>a, <3>4 DEF S!LeafAt
    <3>5. CASE m # <<l[1] - 1, l[2]>> /\ m = l
      BY <1>1, <1>3, <1>8, <3>1, <3>3, <3>a, <3>5 DEF S!LeafAt
    <3>6. CASE m # <<l[1] - 1, l[2]>> /\ m # l
      <4>1. m \in u2 /\ u3'[m] = u3[m]
        BY <1>1, <1>3, <1>8, <3>6
      <4>2. u3[m] = S!LeafAt(<<m[1] + 1, m[2] + 0>>)
        BY <4>1 DEF SpecIInv, SpecShape, LinksOf, Ahead
      <4> QED BY <1>3, <3>1, <3>3, <3>6, <3>a, <4>1, <4>2 DEF S!LeafAt
    <3> QED BY <3>4, <3>5, <3>6
  <2> QED BY <1>3, <1>5, <1>6, <2>1, <2>3, <2>4 DEF SpecIInv, SpecShape
<1> QED BY <1>7, <1>8

\* Creatures come, go and move among leafs and links that stay as they are.
LEMMA ShapeKept ==
  ASSUME S!SpectatorsAssumption, SpecShape, UNCHANGED <<u1, u2, u3, u4>>,
         u5' \in [u2 -> SUBSET Walkers], u6' \in [Walkers -> u1 \cup {None}],
         \A l \in u2 : u5'[l] = {c \in Walkers : u6'[c] # None /\ S!LeafOf(u6'[c]) = l}
  PROVE  SpecShape'
BY DEF SpecShape, LinksOf, ListsFor, S!LeafAt

LEMMA PlaceKeeps ==
  ASSUME S!SpectatorsAssumption, SpecIInv, NEW x \in Walkers, NEW q \in Tiles, S!PlaceCreature(x, q)
  PROVE  SpecIInv'
<1>1. /\ u6[x] = None /\ q \in u1 /\ UNCHANGED <<u1, u2, u3, u4, u9>>
      /\ u6' = [u6 EXCEPT ![x] = q]
      /\ u5' = [u5 EXCEPT ![S!LeafOf(q)] = @ \cup {x}]
      /\ u7' = [S!Empty EXCEPT ![q] = S!Found(q, u5', u6')]
      /\ u8' = IF x \in Seers THEN S!Empty ELSE u8
  BY DEF S!PlaceCreature
<1>2. S!LeafOf(q) \in u2 /\ None \notin Tiles
  BY <1>1, LeafsAre DEF SpecIInv, SpecShape
<1>3. SpecShape'
  BY <1>1, <1>2, ShapeKept DEF SpecIInv, SpecShape, ListsFor
<1>4. S!Found(q, u5', u6') = InRangeOf(q, u6')
  <2>1. \A c \in Walkers : u6'[c] # None => u6'[c] \in Nat \X Nat \X (0 .. 15) /\ S!LeafOf(u6'[c]) \in u2
    <3> SUFFICES ASSUME NEW c \in Walkers, u6'[c] # None
                 PROVE  u6'[c] \in Nat \X Nat \X (0 .. 15) /\ S!LeafOf(u6'[c]) \in u2
      OBVIOUS
    <3>1. u6'[c] \in u1 /\ u6'[c] \in Tiles
      BY <1>1 DEF SpecIInv, SpecShape
    <3> QED BY <3>1, LeafIs DEF SpecIInv, SpecShape
  <2>2. q \in Nat \X Nat \X (0 .. 15) /\ LinksOf(u3, <<1, 0>>) /\ LinksOf(u4, <<0, 1>>)
    BY LeafIs DEF SpecIInv, SpecShape
  <2>3. ListsFor(u5', u6')
    BY <1>1, <1>3 DEF SpecShape, ListsFor
  <2>4. u2 \subseteq Nat \X Nat /\ None \notin Nat \X Nat
    BY LeafsAre DEF SpecIInv
  <2> DEFINE listed == u5'
             place == u6'
  <2>5. ListsFor(listed, place) /\ \A c \in Walkers : place[c] # None => place[c] \in Nat \X Nat \X (0 .. 15) /\ S!LeafOf(place[c]) \in u2
    BY <2>1, <2>3
  <2> HIDE DEF listed, place
  <2>6. S!Found(q, listed, place) = InRangeOf(q, place)
    BY <2>2, <2>4, <2>5, FoundIs
  <2> QED BY <2>6 DEF listed, place
<1>5. x \notin Seers => \A r \in Tiles : InRangeOf(r, u6') \cap Seers = InRangeOf(r, u6) \cap Seers
  BY <1>1 DEF SpecIInv, SpecShape, InRangeOf
<1>6. SpecKept'
  <2>1. DOMAIN u7' = Tiles /\ \A r \in Tiles : u7'[r] \in {None, InRangeOf(r, u6')}
    BY <1>1, <1>4 DEF S!Empty
  <2>2. DOMAIN u8' = Tiles /\ \A r \in Tiles : u8'[r] \in {None, InRangeOf(r, u6') \cap Seers}
    BY <1>1, <1>5 DEF S!Empty, SpecIInv, SpecKept
  <2> QED BY <2>1, <2>2 DEF SpecKept
<1> QED BY <1>1, <1>3, <1>6 DEF SpecIInv

LEMMA ClearedKeeps ==
  ASSUME SpecIInv, NEW x \in Walkers, S!Cleared(x), u6' \in [Walkers -> u1 \cup {None}],
         \A c \in Walkers \ {x} : u6'[c] = u6[c]
  PROVE  SpecKept'
<1>1. u7' = S!Empty /\ u8' = IF x \in Seers THEN S!Empty ELSE u8
  BY DEF S!Cleared
<1>2. x \notin Seers => \A r \in Tiles : InRangeOf(r, u6') \cap Seers = InRangeOf(r, u6) \cap Seers
  BY DEF InRangeOf
<1>3. DOMAIN u7' = Tiles /\ \A r \in Tiles : u7'[r] \in {None, InRangeOf(r, u6')}
  BY <1>1 DEF S!Empty
<1>4. DOMAIN u8' = Tiles /\ \A r \in Tiles : u8'[r] \in {None, InRangeOf(r, u6') \cap Seers}
  BY <1>1, <1>2 DEF S!Empty, SpecIInv, SpecKept
<1> QED BY <1>3, <1>4 DEF SpecKept

LEMMA MoveKeeps ==
  ASSUME S!SpectatorsAssumption, SpecIInv, NEW x \in Walkers, NEW q \in Tiles, S!MoveCreature(x, q)
  PROVE  SpecIInv'
<1> DEFINE from == S!LeafOf(u6[x])
           to == S!LeafOf(q)
<1>1. /\ u6[x] # None /\ q \in u1 /\ UNCHANGED <<u1, u2, u3, u4, u9>>
      /\ u6' = [u6 EXCEPT ![x] = q] /\ S!Cleared(x)
      /\ u5' = IF from = to THEN u5 ELSE [u5 EXCEPT ![from] = @ \ {x}, ![to] = @ \cup {x}]
  BY DEF S!MoveCreature
<1>2. to \in u2 /\ from \in u2 /\ None \notin Tiles
  BY <1>1, LeafsAre DEF SpecIInv, SpecShape
<1>3. u6' \in [Walkers -> u1 \cup {None}] /\ u6'[x] = q /\ q # None /\ \A c \in Walkers \ {x} : u6'[c] = u6[c]
  BY <1>1, <1>2 DEF SpecIInv, SpecShape
<1>4. SpecShape'
  <2> HIDE DEF to
  <2>1. \A l \in u2 : u5[l] = {c \in Walkers : u6[c] # None /\ S!LeafOf(u6[c]) = l}
    BY DEF SpecIInv, SpecShape, ListsFor
  <2>2. u5 \in [u2 -> SUBSET Walkers]
    BY DEF SpecIInv, SpecShape
  <2>3. u5' \in [u2 -> SUBSET Walkers]
    BY <1>1, <1>2, <2>2
  <2>4. ASSUME NEW l \in u2 PROVE u5'[l] = {c \in Walkers : u6'[c] # None /\ S!LeafOf(u6'[c]) = l}
    <3>1. u5'[l] = IF from = to THEN u5[l] ELSE IF l = from THEN u5[l] \ {x} ELSE IF l = to THEN u5[l] \cup {x} ELSE u5[l]
      BY <1>1, <1>2, <2>2
    <3>2. u5[l] = {c \in Walkers : u6[c] # None /\ S!LeafOf(u6[c]) = l}
      BY <2>1
    <3>3. S!LeafOf(u6'[x]) = to
      BY <1>3 DEF to
    <3> QED BY <1>1, <1>3, <3>1, <3>2, <3>3
  <2> QED BY <1>1, <1>3, <2>3, <2>4, ShapeKept DEF SpecIInv
<1>5. SpecKept'
  BY <1>1, <1>3, ClearedKeeps
<1> QED BY <1>1, <1>4, <1>5 DEF SpecIInv

LEMMA RemoveKeeps ==
  ASSUME S!SpectatorsAssumption, SpecIInv, NEW x \in Walkers, S!RemoveCreature(x) PROVE SpecIInv'
<1> DEFINE from == S!LeafOf(u6[x])
<1>1. /\ u6[x] # None /\ UNCHANGED <<u1, u2, u3, u4, u9>>
      /\ u6' = [u6 EXCEPT ![x] = None] /\ S!Cleared(x)
      /\ u5' = [u5 EXCEPT ![from] = @ \ {x}]
  BY DEF S!RemoveCreature
<1>2. from \in u2
  BY <1>1 DEF SpecIInv, SpecShape
<1>3. u6' \in [Walkers -> u1 \cup {None}] /\ u6'[x] = None /\ \A c \in Walkers \ {x} : u6'[c] = u6[c]
  BY <1>1 DEF SpecIInv, SpecShape
<1>4. SpecShape'
  <2>1. \A l \in u2 : u5[l] = {c \in Walkers : u6[c] # None /\ S!LeafOf(u6[c]) = l}
    BY DEF SpecIInv, SpecShape, ListsFor
  <2>2. u5 \in [u2 -> SUBSET Walkers]
    BY DEF SpecIInv, SpecShape
  <2>3. u5' \in [u2 -> SUBSET Walkers]
    BY <1>1, <1>2, <2>2
  <2>4. ASSUME NEW l \in u2 PROVE u5'[l] = {c \in Walkers : u6'[c] # None /\ S!LeafOf(u6'[c]) = l}
    <3>1. u5'[l] = IF l = from THEN u5[l] \ {x} ELSE u5[l]
      BY <1>1, <1>2, <2>2
    <3>2. u5[l] = {c \in Walkers : u6[c] # None /\ S!LeafOf(u6[c]) = l}
      BY <2>1
    <3> QED BY <1>1, <1>3, <3>1, <3>2
  <2> QED BY <1>1, <1>3, <2>3, <2>4, ShapeKept DEF SpecIInv
<1>5. SpecKept'
  BY <1>1, <1>3, ClearedKeeps
<1> QED BY <1>1, <1>4, <1>5 DEF SpecIInv

LEMMA QueryKeeps ==
  ASSUME S!SpectatorsAssumption, SpecIInv, NEW q \in Tiles, NEW onlyPlayers \in BOOLEAN,
         S!GetSpectators(q, onlyPlayers)
  PROVE  SpecIInv'
<1>1. S!Scan(q) = InRangeOf(q, u6)
  BY ScanIs DEF SpecIInv
<1>2. /\ UNCHANGED <<u1, u2, u3, u4, u5, u6, u9>>
      /\ u7' = (IF onlyPlayers THEN u7 ELSE [u7 EXCEPT ![q] = InRangeOf(q, u6)])
      /\ u8' = (IF onlyPlayers THEN [u8 EXCEPT ![q] = InRangeOf(q, u6) \cap Seers] ELSE u8)
  BY <1>1 DEF S!GetSpectators
<1>3. SpecShape'
  BY <1>2, ShapeKept DEF SpecIInv, SpecShape, ListsFor
<1>4. SpecKept'
  BY <1>2 DEF SpecIInv, SpecKept
<1> QED BY <1>2, <1>3, <1>4 DEF SpecIInv

LEMMA AwareKeeps ==
  ASSUME S!SpectatorsAssumption, SpecIInv, NEW v \in Seers, NEW size \in Ranges, S!UpdateAwareRange(v, size)
  PROVE  SpecIInv'
<1>1. size[1] \in Nat /\ size[2] \in Nat
  BY DEF S!SpectatorsAssumption
<1>2. ASSUME NEW n \in Nat, NEW a \in {11, 15}, NEW b \in 17 .. 21, NEW c \in Nat, c >= b
      PROVE  S!Odd(S!Least(c, S!Least(b, S!Most(a, n)))) \in 0 .. b
  <2> DEFINE m == S!Least(c, S!Least(b, S!Most(a, n)))
  <2>1. m \in 11 .. b
    BY <1>2 DEF S!Least, S!Most
  <2> HIDE DEF m
  <2>2. S!Odd(m) \in 0 .. b
    BY <2>1 DEF S!Odd
  <2> QED BY <2>2 DEF m
<1>3. /\ S!Odd(S!Least(S!maxViewportX * 2 - 1, S!Least((S!maxViewportX - 2) * 2 + 1, S!Most(15, size[1])))) \in 0 .. 21
      /\ S!Odd(S!Least(S!maxViewportY * 2 - 1, S!Least((S!maxViewportY - 2) * 2 + 1, S!Most(11, size[2])))) \in 0 .. 17
  <2>1. /\ S!maxViewportX * 2 - 1 = 23 /\ (S!maxViewportX - 2) * 2 + 1 = 21
        /\ S!maxViewportY * 2 - 1 = 19 /\ (S!maxViewportY - 2) * 2 + 1 = 17
    BY DEF S!maxViewportX, S!maxViewportY
  <2>2. /\ S!Odd(S!Least(23, S!Least(21, S!Most(15, size[1])))) \in 0 .. 21
        /\ S!Odd(S!Least(19, S!Least(17, S!Most(11, size[2])))) \in 0 .. 17
    BY <1>1, <1>2
  <2> QED BY <2>1, <2>2
<1>4. UNCHANGED <<u1, u2, u3, u4, u5, u6, u7, u8>> /\ u9' \in [Seers -> (0 .. 21) \X (0 .. 17)]
  BY <1>3 DEF S!UpdateAwareRange, SpecIInv
<1>5. SpecShape' /\ SpecKept'
  BY <1>4, ShapeKept DEF SpecIInv, SpecShape, SpecKept, ListsFor
<1> QED BY <1>4, <1>5 DEF SpecIInv

LEMMA SpecStep == ASSUME S!SpectatorsAssumption, SpecIInv, [S!Next]_(S!vars) PROVE SpecIInv'
<1>1. CASE UNCHANGED S!vars
  <2>1. UNCHANGED <<u1, u2, u3, u4, u5, u6, u7, u8, u9>>
    BY <1>1 DEF S!vars
  <2> QED BY <2>1, ShapeKept DEF SpecIInv, SpecShape, SpecKept, ListsFor
<1>2. CASE S!Next
  <2>1. Asked \subseteq Tiles
    BY DEF S!SpectatorsAssumption
  <2> QED BY <1>2, <2>1, SetTileKeeps, PlaceKeeps, MoveKeeps, RemoveKeeps, QueryKeeps, AwareKeeps DEF S!Next
<1> QED BY <1>1, <1>2

\* A client shows no more than the range of getSpectators.
Shows(my, q, w, h) ==
  /\ IF my[3] <= 7 THEN q[3] <= 7 ELSE my[3] - q[3] \in -2 .. 2
  /\ q[1] - my[1] - (my[3] - q[3]) \in -w .. (1 + w)
  /\ q[2] - my[2] - (my[3] - q[3]) \in -h .. (1 + h)

LEMMA SeenIsInRange ==
  ASSUME NEW my \in Nat \X Nat \X (0 .. 15), NEW q \in Nat \X Nat \X (0 .. 15),
         NEW w \in 0 .. 10, NEW h \in 0 .. 8, Shows(my, q, w, h)
  PROVE  S!InRange(q, my)
<1> DEFINE x1 == q[1]
           x2 == q[2]
           x3 == q[3]
           m1 == my[1]
           m2 == my[2]
           m3 == my[3]
<1>1. /\ x1 \in Int /\ x2 \in Int /\ x3 \in 0 .. 15
      /\ m1 \in Int /\ m2 \in Int /\ m3 \in 0 .. 15
  OBVIOUS
<1>2. /\ IF m3 <= 7 THEN x3 <= 7 ELSE m3 - x3 \in -2 .. 2
      /\ x1 - m1 - (m3 - x3) \in -w .. (1 + w)
      /\ x2 - m2 - (m3 - x3) \in -h .. (1 + h)
  BY DEF Shows
<1>a. S!InRange(q, my) <=>
        m3 \in S!MinZ(x3) .. S!MaxZ(x3) /\ m1 - x1 - (x3 - m3) \in -12 .. 12 /\ m2 - x2 - (x3 - m3) \in -10 .. 10
  BY DEF S!InRange, S!maxViewportX, S!maxViewportY
<1> HIDE DEF x1, x2, x3, m1, m2, m3
<1>3. m3 \in S!MinZ(x3) .. S!MaxZ(x3)
  BY <1>1, <1>2 DEF S!MinZ, S!MaxZ, S!Least
<1>4. ASSUME NEW i \in Int, NEW j \in Int, NEW k \in Int, NEW n \in Int, NEW g \in Nat, NEW r \in Nat, g + 1 <= r,
             i - j - (k - n) \in -g .. (1 + g)
      PROVE  j - i - (n - k) \in -r .. r
  BY <1>4
<1>5. m1 - x1 - (x3 - m3) \in -12 .. 12
  BY <1>1, <1>2, <1>4
<1>6. m2 - x2 - (x3 - m3) \in -10 .. 10
  BY <1>1, <1>2, <1>4
<1> QED BY <1>a, <1>3, <1>5, <1>6

LEMMA SpecInvHolds ==
  ASSUME S!SpectatorsAssumption, SpecIInv PROVE S!SpectatorsInv
<1>1. \A q \in Tiles : S!Scan(q) = InRangeOf(q, u6)
  BY ScanIs DEF SpecIInv
<1>2. S!Listed
  BY DEF S!Listed, S!OnMap, SpecIInv, SpecShape, ListsFor
<1>3. S!ScanComplete
  BY <1>1 DEF S!ScanComplete, S!OnMap, InRangeOf, SpecIInv, SpecShape
<1>4. S!CachesFresh
  BY <1>1 DEF S!CachesFresh, SpecIInv, SpecKept
<1>5. S!SeenIsTold
  <2> SUFFICES ASSUME NEW v \in Seers, NEW q \in u1, S!OnMap(v), S!CanSee(v, q)
               PROVE  v \in S!Answer(q, TRUE) /\ v \in S!Answer(q, FALSE)
    BY DEF S!SeenIsTold
  <2>1. v \in Walkers /\ q \in Tiles /\ u6[v] \in Tiles /\ u6[v] # None
    BY DEF S!SpectatorsAssumption, SpecIInv, SpecShape, S!OnMap
  <2>2. S!InRange(q, u6[v])
    <3> DEFINE my == u6[v]
               w == u9[v][1] \div 2
               h == u9[v][2] \div 2
    <3>1. my \in Nat \X Nat \X (0 .. 15) /\ q \in Nat \X Nat \X (0 .. 15)
      BY <2>1, LeafIs
    <3>2. w \in 0 .. 10 /\ h \in 0 .. 8
      <4>1. u9[v][1] \in 0 .. 21 /\ u9[v][2] \in 0 .. 17
        BY DEF SpecIInv
      <4>2. \A i \in 0 .. 21 : i \div 2 \in 0 .. 10
        OBVIOUS
      <4>3. \A i \in 0 .. 17 : i \div 2 \in 0 .. 8
        OBVIOUS
      <4> QED BY <4>1, <4>2, <4>3
    <3>3. Shows(my, q, w, h)
      BY DEF S!CanSee, Shows
    <3> HIDE DEF my, w, h
    <3>4. S!InRange(q, my)
      BY <3>1, <3>2, <3>3, SeenIsInRange
    <3> QED BY <3>4 DEF my
  <2>3. v \in InRangeOf(q, u6)
    BY <2>1, <2>2 DEF InRangeOf
  <2>4. S!Scan(q) = InRangeOf(q, u6) /\ u7[q] \in {None, S!Scan(q)} /\ u8[q] \in {None, S!Scan(q) \cap Seers}
    BY <1>1, <1>4, <2>1 DEF S!CachesFresh
  <2> QED BY <2>3, <2>4 DEF S!Answer
<1> QED BY <1>2, <1>3, <1>4, <1>5 DEF S!SpectatorsInv

-----------------------------------------------------------------------------
(* What a client's windows show.                                           *)

LEMMA CasesCount == W!Cardinality(Cases) = Cardinality(Cases)
  BY DEF Cardinality, W!Cardinality

LEMMA AroundIs ==
  ASSUME NEW w, NEW b PROVE W!Around(w, b) = Outward(w, Cases, b)
  BY CasesCount DEF W!Around, Outward

LEMMA CasesAssumed ==
  ASSUME W!WindowsAssumption
  PROVE  /\ IsFiniteSet(Cases) /\ None \notin Cases /\ Nowhere \notin Cases
         /\ Cases \cap Spots = {} /\ Cases \cap Watchers = {} /\ Nowhere \notin Spots \cup Watchers
         /\ 1 \in Spots /\ Cids \subseteq Nat
<1>1. W!IsFiniteSet(Cases) = IsFiniteSet(Cases)
  BY DEF IsFiniteSet, W!IsFiniteSet
<1>2. W!IsFiniteSet(Cases) /\ Cases \subseteq W!Things /\ W!Things \cap (Spots \cup Watchers \cup {Nowhere}) = {} /\ None \notin Cases
  BY DEF W!WindowsAssumption, W!Things
<1>3. Nowhere \notin Spots \cup Watchers /\ 1 \in Spots /\ Cids \subseteq Nat
  BY DEF W!WindowsAssumption
<1> HIDE DEF W!Things
<1> QED BY <1>1, <1>2, <1>3

LEMMA TopOf ==
  ASSUME W!WindowsAssumption, NEW w, NoLoop(w, Cases), NEW b
  PROVE  /\ W!Top(w, b) \in Outward(w, Cases, b) \ Cases
         /\ \A t \in Outward(w, Cases, b) \ Cases : t = W!Top(w, b)
<1>0. IsFiniteSet(Cases)
  BY CasesAssumed
<1>1. \E t \in Outward(w, Cases, b) : t \notin Cases
  BY <1>0, TopExists
<1>2. W!Top(w, b) = CHOOSE t \in Outward(w, Cases, b) : t \notin Cases
  BY AroundIs DEF W!Top
<1>3. W!Top(w, b) \in Outward(w, Cases, b) \ Cases
  BY <1>1, <1>2
<1>4. \A t \in Outward(w, Cases, b) \ Cases : t = W!Top(w, b)
  BY <1>0, <1>3, OneTop
<1> QED BY <1>3, <1>4

LEMMA TopInside ==
  ASSUME W!WindowsAssumption, NEW w, NoLoop(w, Cases), NEW b, NEW y \in Outward(w, Cases, b)
  PROVE  W!Top(w, y) = W!Top(w, b)
<1>1. W!Top(w, y) \in Outward(w, Cases, y) \ Cases
  BY TopOf
<1>2. Outward(w, Cases, y) \subseteq Outward(w, Cases, b)
  BY CasesAssumed, OutGoesOn
<1>3. W!Top(w, y) \in Outward(w, Cases, b) \ Cases
  BY <1>1, <1>2
<1> QED BY <1>3, TopOf

LEMMA TopSame ==
  ASSUME NEW w, NEW v, NEW b, Outward(w, Cases, b) = Outward(v, Cases, b)
  PROVE  W!Top(w, b) = W!Top(v, b)
  BY AroundIs DEF W!Top

-----------------------------------------------------------------------------
Holders == Spots \cup Watchers \cup Cases \cup {Nowhere}

\* What lies where, as the containers and the things themselves know it.
LiesWell(w, cs) ==
  /\ w \in [W!Things -> Holders] /\ cs \in [Cases -> Seq(W!Things)]
  /\ \A b \in Cases : Once(cs[b])
  /\ \A b \in Cases, x \in W!Things : w[x] = b <=> x \in Members(cs[b])
  /\ NoLoop(w, Cases)

Shown == [bag : Cases, content : Seq(W!Things), up : BOOLEAN]
Views == [w : [Cids -> Cases \cup {None}], s : [Cids -> Shown \cup {None}]]

\* p can reach b, and nobody else carries it.
Sees(w, st, p, b) == W!InRange(w, st, p, b) /\ W!Top(w, b) \notin Watchers \ {p}

\* Window i of p shows what is there, or comes from a container in two windows.
Fine(v, i, w, cs, st, p, d) ==
  /\ v.w[i] # None => Sees(w, st, p, v.w[i])
  /\ v.s[i] # None => v.w[i] # None /\ v.s[i] = W!Screen(w, cs, v.w[i])
  /\ v.w[i] # None /\ v.s[i] = None => d

GoodView(v, w, cs, st, p, d) ==
  v \in Views /\ (\A i \in Cids : Fine(v, i, w, cs, st, p, d)) /\ (W!Twice(v) => d)

WindowsIInv ==
  /\ LiesWell(u1, u2) /\ u3 \in [Watchers -> Spots] /\ u6 \in SUBSET Watchers
  /\ u4 \in [Watchers -> [Cids -> Cases \cup {None}]]
  /\ u5 \in [Watchers -> [Cids -> Shown \cup {None}]]
  /\ \A p \in Watchers : GoodView(W!View(p), u1, u2, u3, p, p \in u6)

NoneIsNotShown == None \notin Shown

LEMMA ScreenIs ==
  ASSUME NEW w, NEW cs, LiesWell(w, cs), NEW b \in Cases
  PROVE  W!Screen(w, cs, b) \in Shown /\ W!Screen(w, cs, b).bag = b
<1>1. (w[b] \in Cases) \in BOOLEAN /\ cs[b] \in Seq(W!Things)
  BY DEF LiesWell
<1> QED BY <1>1 DEF W!Screen, Shown

\* Fewer windows are not more often two on one container.
LEMMA TwiceLess ==
  ASSUME NEW v, NEW z, \A i \in Cids : z.w[i] \in {v.w[i], None}, W!Twice(z)
  PROVE  W!Twice(v)
  BY DEF W!Twice

FineBut(v, ids, w, cs, st, p, d) ==
  /\ v \in Views /\ (W!Twice(v) => d)
  /\ \A i \in Cids \ ids : Fine(v, i, w, cs, st, p, d)

LEMMA ShutGood ==
  ASSUME NEW w, NEW cs, NEW st, NEW p, NEW d, NEW v, NEW ids, FineBut(v, ids, w, cs, st, p, d)
  PROVE  GoodView(W!Shut(v, ids), w, cs, st, p, d)
<1> DEFINE z == W!Shut(v, ids)
<1>1. v \in Views
  BY DEF FineBut
<1>2. /\ z.w = [j \in Cids |-> IF j \in ids THEN None ELSE v.w[j]]
      /\ z.s = [j \in Cids |-> IF j \in ids THEN None ELSE v.s[j]] /\ z \in Views
  <2> DEFINE a == [j \in Cids |-> IF j \in ids THEN None ELSE v.w[j]]
             e == [j \in Cids |-> IF j \in ids THEN None ELSE v.s[j]]
  <2>1. a \in [Cids -> Cases \cup {None}] /\ e \in [Cids -> Shown \cup {None}]
    BY <1>1 DEF Views
  <2>2. z = [v EXCEPT !.w = a, !.s = e]
    BY DEF W!Shut
  <2> HIDE DEF a, e, z
  <2>3. z.w = a /\ z.s = e /\ z \in Views
    BY <1>1, <2>1, <2>2 DEF Views
  <2> QED BY <2>3 DEF a, e
<1> HIDE DEF z
<1>3. \A i \in Cids : Fine(z, i, w, cs, st, p, d)
  BY <1>2 DEF Fine, FineBut
<1>4. \A i \in Cids : z.w[i] \in {v.w[i], None}
  BY <1>2
<1>5. W!Twice(z) => d
  BY <1>4, TwiceLess DEF FineBut
<1> QED BY <1>2, <1>3, <1>5 DEF z, GoodView

LEMMA SentGood ==
  ASSUME W!WindowsAssumption, NoneIsNotShown, NEW w, NEW cs, LiesWell(w, cs), NEW st, NEW p, NEW d,
         NEW v, NEW b \in Cases, FineBut(v, {i \in Cids : v.w[i] = b}, w, cs, st, p, d),
         \A i \in Cids : v.w[i] = b => Sees(w, st, p, b)
  PROVE  GoodView(W!Sent(v, w, cs, b), w, cs, st, p, d)
<1> DEFINE z == W!Sent(v, w, cs, b)
<1>0. None \notin Cases /\ v \in Views
  BY CasesAssumed DEF FineBut
<1>1. W!Screen(w, cs, b) \in Shown
  BY ScreenIs
<1>2. z.w = v.w /\ z.s = [j \in Cids |-> IF v.w[j] = b THEN W!Screen(w, cs, b) ELSE v.s[j]] /\ z \in Views
  BY <1>0, <1>1 DEF W!Sent, Views
<1> HIDE DEF z
<1>3. ASSUME NEW i \in Cids PROVE Fine(z, i, w, cs, st, p, d)
  <2>1. CASE v.w[i] = b
    BY <1>0, <1>1, <1>2, <2>1 DEF Fine, NoneIsNotShown
  <2>2. CASE v.w[i] # b
    <3>1. Fine(v, i, w, cs, st, p, d)
      BY <2>2 DEF FineBut
    <3> QED BY <1>2, <2>2, <3>1 DEF Fine
  <2> QED BY <2>1, <2>2
<1>4. W!Twice(z) => d
  BY <1>2 DEF FineBut, W!Twice
<1> QED BY <1>2, <1>3, <1>4 DEF z, GoodView

LEMMA OnlyForKeeps ==
  ASSUME WindowsIInv, NEW p \in Watchers, NEW v, W!OnlyFor(p, v),
         u1' = u1, u2' = u2, u3' \in [Watchers -> Spots], u6' \in SUBSET Watchers,
         GoodView(v, u1, u2, u3', p, p \in u6'),
         \A q \in Watchers \ {p} : GoodView(W!View(q), u1, u2, u3', q, q \in u6')
  PROVE  WindowsIInv'
<1> DEFINE new == [q \in Watchers |-> IF q = p THEN v ELSE W!View(q)]
<1>1. u4' = [q \in Watchers |-> new[q].w] /\ u5' = [q \in Watchers |-> new[q].s]
  BY DEF W!OnlyFor, W!Show
<1>2. \A q \in Watchers : new[q] \in Views /\ GoodView(new[q], u1, u2, u3', q, q \in u6')
  BY DEF GoodView
<1> HIDE DEF new
<1>3. /\ u4' \in [Watchers -> [Cids -> Cases \cup {None}]]
      /\ u5' \in [Watchers -> [Cids -> Shown \cup {None}]]
  BY <1>1, <1>2 DEF Views
<1>4. \A q \in Watchers : W!View(q)' = new[q]
  BY <1>1, <1>2 DEF W!View, Views
<1>5. LiesWell(u1, u2)' = LiesWell(u1, u2)
  BY DEF LiesWell
<1>6. \A q \in Watchers : GoodView(W!View(q), u1, u2, u3, q, q \in u6)'
  <2> SUFFICES ASSUME NEW q \in Watchers PROVE GoodView(W!View(q), u1, u2, u3, q, q \in u6)'
    OBVIOUS
  <2>1. W!View(q)' = new[q] /\ GoodView(new[q], u1, u2, u3', q, q \in u6')
    BY <1>2, <1>4
  <2> QED BY <2>1
<1> QED BY <1>3, <1>5, <1>6 DEF WindowsIInv

LEMMA ViewIs ==
  ASSUME WindowsIInv, NEW p \in Watchers
  PROVE  /\ W!View(p) \in Views /\ W!View(p).w = u4[p] /\ W!View(p).s = u5[p]
         /\ \A i \in Cids : Fine(W!View(p), i, u1, u2, u3, p, p \in u6)
         /\ W!Twice(W!View(p)) => p \in u6
  BY DEF WindowsIInv, GoodView, W!View

LEMMA CloseKeeps ==
  ASSUME WindowsIInv, NEW p \in Watchers, NEW i \in Cids, W!Close(p, i)
  PROVE  WindowsIInv'
<1>1. /\ W!OnlyFor(p, W!Shut(W!View(p), {i}))
      /\ u1' = u1 /\ u2' = u2 /\ u3' = u3 /\ u6' = u6
  BY DEF W!Close
<1>2. GoodView(W!Shut(W!View(p), {i}), u1, u2, u3', p, p \in u6')
  <2> DEFINE v == W!View(p)
             z == W!Shut(v, {i})
  <2>1. v \in Views /\ (\A j \in Cids : Fine(v, j, u1, u2, u3, p, p \in u6)) /\ (W!Twice(v) => p \in u6)
    BY ViewIs
  <2> HIDE DEF v
  <2>2. FineBut(v, {i}, u1, u2, u3, p, p \in u6)
    BY <2>1 DEF FineBut
  <2>3. GoodView(z, u1, u2, u3, p, p \in u6)
    BY <2>2, ShutGood
  <2> QED BY <1>1, <2>3 DEF v
<1>3. \A q \in Watchers \ {p} : GoodView(W!View(q), u1, u2, u3', q, q \in u6')
  BY <1>1 DEF WindowsIInv
<1>4. u3' \in [Watchers -> Spots] /\ u6' \in SUBSET Watchers
  BY <1>1 DEF WindowsIInv
<1> QED BY <1>1, <1>2, <1>3, <1>4, OnlyForKeeps

LEMMA WalkKeeps ==
  ASSUME W!WindowsAssumption, WindowsIInv, NEW p \in Watchers, NEW spot \in Spots, W!Walk(p, spot)
  PROVE  WindowsIInv'
<1> DEFINE st == [u3 EXCEPT ![p] = spot]
           far == {i \in Cids : u4[p][i] # None /\ ~W!InRange(u1, st, p, u4[p][i])}
<1>1. W!OnlyFor(p, W!Shut(W!View(p), far)) /\ u1' = u1 /\ u2' = u2 /\ u3' = st /\ u6' = u6
  BY DEF W!Walk
<1>2. st \in [Watchers -> Spots] /\ \A q \in Watchers \ {p} : st[q] = u3[q]
  BY DEF WindowsIInv
<1>3. GoodView(W!Shut(W!View(p), far), u1, u2, st, p, p \in u6)
  <2> DEFINE v == W!View(p)
             z == W!Shut(v, far)
  <2>1. /\ v \in Views /\ v.w = u4[p] /\ (\A j \in Cids : Fine(v, j, u1, u2, u3, p, p \in u6))
        /\ (W!Twice(v) => p \in u6)
    BY ViewIs
  <2> HIDE DEF v
  <2>2. \A j \in Cids : j \notin far => Fine(v, j, u1, u2, st, p, p \in u6)
    <3> HIDE DEF st
    <3> QED BY <2>1 DEF Fine, Sees
  <2> HIDE DEF far, st
  <2>3. FineBut(v, far, u1, u2, st, p, p \in u6)
    BY <2>1, <2>2 DEF FineBut
  <2> QED BY <2>3, ShutGood DEF v
<1>4. \A q \in Watchers \ {p} : GoodView(W!View(q), u1, u2, st, q, q \in u6)
  <2> SUFFICES ASSUME NEW q \in Watchers \ {p} PROVE GoodView(W!View(q), u1, u2, st, q, q \in u6)
    OBVIOUS
  <2> DEFINE v == W!View(q)
  <2>1. /\ v \in Views /\ (\A j \in Cids : Fine(v, j, u1, u2, u3, q, q \in u6))
        /\ (W!Twice(v) => q \in u6)
    BY ViewIs
  <2> HIDE DEF v, st, far
  <2>2. \A b : Sees(u1, u3, q, b) => Sees(u1, st, q, b)
    BY <1>2 DEF Sees, W!InRange, W!Spot
  <2>3. \A j \in Cids : Fine(v, j, u1, u2, st, q, q \in u6)
    BY <2>1, <2>2 DEF Fine
  <2> QED BY <2>1, <2>3 DEF GoodView, v
<1>5. u6' \in SUBSET Watchers
  BY <1>1 DEF WindowsIInv
<1> HIDE DEF st, far
<1> QED BY <1>1, <1>2, <1>3, <1>4, <1>5, OnlyForKeeps

LEMMA UpdateKeeps ==
  ASSUME W!WindowsAssumption, NoneIsNotShown, WindowsIInv, NEW p \in Watchers, NEW i \in Cids, W!Update(p, i)
  PROVE  WindowsIInv'
<1> DEFINE v == W!View(p)
           b == u4[p][i]
           s == W!Screen(u1, u2, b)
           z == [v EXCEPT !.s[i] = s]
<1>1. b # None /\ W!OnlyFor(p, z) /\ u1' = u1 /\ u2' = u2 /\ u3' = u3 /\ u6' = u6
  BY DEF W!Update
<1>2. /\ v \in Views /\ v.w = u4[p] /\ (\A j \in Cids : Fine(v, j, u1, u2, u3, p, p \in u6))
      /\ (W!Twice(v) => p \in u6)
  BY ViewIs
<1> HIDE DEF v
<1>3. b \in Cases /\ b = v.w[i] /\ s \in Shown
  <2>1. b \in Cases /\ b = v.w[i]
    BY <1>1, <1>2 DEF WindowsIInv
  <2> HIDE DEF b
  <2> QED BY <2>1, ScreenIs DEF WindowsIInv
<1> HIDE DEF s, b
<1>4. z \in Views /\ z.w = v.w /\ z.s = [v.s EXCEPT ![i] = s]
  BY <1>2, <1>3 DEF Views
<1> HIDE DEF z
<1>5. \A j \in Cids : Fine(z, j, u1, u2, u3, p, p \in u6)
  <2> TAKE j \in Cids
  <2>1. Fine(v, j, u1, u2, u3, p, p \in u6)
    BY <1>2
  <2>2. z.w[j] = v.w[j] /\ z.s[j] = IF j = i THEN s ELSE v.s[j]
    BY <1>2, <1>4 DEF Views
  <2> QED BY <1>1, <1>3, <2>1, <2>2 DEF Fine, s, NoneIsNotShown
<1>6. W!Twice(z) => W!Twice(v)
  BY <1>4 DEF W!Twice
<1>7. GoodView(z, u1, u2, u3', p, p \in u6')
  BY <1>1, <1>2, <1>4, <1>5, <1>6 DEF GoodView
<1>8. \A q \in Watchers \ {p} : GoodView(W!View(q), u1, u2, u3', q, q \in u6')
  BY <1>1 DEF WindowsIInv
<1>9. u3' \in [Watchers -> Spots] /\ u6' \in SUBSET Watchers
  BY <1>1 DEF WindowsIInv
<1> QED BY <1>1, <1>7, <1>8, <1>9, OnlyForKeeps

LEMMA MoveUpKeeps ==
  ASSUME W!WindowsAssumption, NoneIsNotShown, WindowsIInv, NEW p \in Watchers, NEW i \in Cids, W!MoveUp(p, i)
  PROVE  WindowsIInv'
<1> DEFINE v == W!View(p)
           c == u4[p][i]
           b == u1[c]
           s == W!Screen(u1, u2, b)
           z == [v EXCEPT !.w[i] = b, !.s[i] = s]
<1>1. /\ c # None /\ b \in Cases /\ W!OnlyFor(p, z) /\ u1' = u1 /\ u2' = u2 /\ u3' = u3
      /\ u6' = IF W!Twice(z) THEN u6 \cup {p} ELSE u6
  BY DEF W!MoveUp
<1>2. /\ v \in Views /\ v.w = u4[p] /\ (\A j \in Cids : Fine(v, j, u1, u2, u3, p, p \in u6))
      /\ (W!Twice(v) => p \in u6)
  BY ViewIs
<1> HIDE DEF v
<1>3. c \in Cases /\ c = v.w[i] /\ Sees(u1, u3, p, c)
  <2>1. c \in Cases /\ c = v.w[i]
    BY <1>1, <1>2 DEF WindowsIInv
  <2>2. Fine(v, i, u1, u2, u3, p, p \in u6)
    BY <1>2
  <2> QED BY <1>1, <2>1, <2>2 DEF Fine
<1> HIDE DEF c
<1>4. s \in Shown
  <2> HIDE DEF b
  <2> QED BY <1>1, ScreenIs DEF WindowsIInv
<1>5. Sees(u1, u3, p, b)
  <2>1. IsFiniteSet(Cases) /\ NoLoop(u1, Cases)
    BY CasesAssumed DEF WindowsIInv, LiesWell
  <2>2. b \in Outward(u1, Cases, c)
    BY <1>3, <2>1, OutwardIs DEF Closed
  <2>3. W!Top(u1, b) = W!Top(u1, c)
    BY <2>1, <2>2, TopInside
  <2> QED BY <1>3, <2>3 DEF Sees, W!InRange
<1> HIDE DEF s, b
<1>6. z \in Views /\ z.w = [v.w EXCEPT ![i] = b] /\ z.s = [v.s EXCEPT ![i] = s]
  <2> DEFINE y == [v EXCEPT !.w = [v.w EXCEPT ![i] = b]]
  <2>1. y \in Views /\ y.w = [v.w EXCEPT ![i] = b] /\ y.s = v.s
    BY <1>1, <1>2 DEF Views
  <2>2. z = [y EXCEPT !.s = [v.s EXCEPT ![i] = s]]
    BY <1>2 DEF Views
  <2> HIDE DEF y, z
  <2>3. [v.s EXCEPT ![i] = s] \in [Cids -> Shown \cup {None}]
    BY <1>2, <1>4 DEF Views
  <2> QED BY <2>1, <2>2, <2>3 DEF Views
<1> HIDE DEF z
<1>7. \A j \in Cids : Fine(z, j, u1, u2, u3, p, p \in u6')
  <2> TAKE j \in Cids
  <2>1. Fine(v, j, u1, u2, u3, p, p \in u6)
    BY <1>2
  <2>2. z.w[j] = IF j = i THEN b ELSE v.w[j]
    BY <1>2, <1>6 DEF Views
  <2>3. z.s[j] = IF j = i THEN s ELSE v.s[j]
    BY <1>2, <1>6 DEF Views
  <2>4. b # None
    BY <1>1, CasesAssumed
  <2>5. p \in u6 => p \in u6'
    BY <1>1
  <2>6. s # None /\ s = W!Screen(u1, u2, b)
    BY <1>4 DEF s, NoneIsNotShown
  <2> QED BY <1>5, <2>1, <2>2, <2>3, <2>4, <2>5, <2>6 DEF Fine
<1>8. GoodView(z, u1, u2, u3', p, p \in u6')
  BY <1>1, <1>6, <1>7 DEF GoodView
<1>9. \A q \in Watchers \ {p} : GoodView(W!View(q), u1, u2, u3', q, q \in u6')
  <2> TAKE q \in Watchers \ {p}
  <2>1. GoodView(W!View(q), u1, u2, u3, q, q \in u6)
    BY DEF WindowsIInv
  <2>2. (q \in u6') = (q \in u6)
    BY <1>1
  <2> QED BY <1>1, <2>1, <2>2
<1>10. u3' \in [Watchers -> Spots] /\ u6' \in SUBSET Watchers
  BY <1>1 DEF WindowsIInv
<1> QED BY <1>1, <1>8, <1>9, <1>10, OnlyForKeeps

LEMMA UseKeeps ==
  ASSUME W!WindowsAssumption, NoneIsNotShown, WindowsIInv, NEW p \in Watchers, NEW b \in Cases, NEW i \in Cids,
         W!Use(p, b, i)
  PROVE  WindowsIInv'
<1> DEFINE v == W!View(p)
           open == {j \in Cids : v.w[j] = b}
           first == CHOOSE j \in open : \A k \in open : j <= k
           y == [v EXCEPT !.w[i] = b]
           z == [v EXCEPT !.w[first] = None, !.s = [j \in Cids |-> IF j \in open THEN None ELSE v.s[j]]]
<1>1. /\ Sees(u1, u3, p, b)
      /\ W!OnlyFor(p, IF open = {} THEN W!Sent(y, u1, u2, b) ELSE z)
      /\ u1' = u1 /\ u2' = u2 /\ u3' = u3 /\ u6' = u6
  BY DEF W!Use, Sees
<1>2. /\ v \in Views /\ v.w = u4[p] /\ (\A j \in Cids : Fine(v, j, u1, u2, u3, p, p \in u6))
      /\ (W!Twice(v) => p \in u6)
  BY ViewIs
<1>3. LiesWell(u1, u2) /\ None \notin Cases
  BY CasesAssumed DEF WindowsIInv
<1> HIDE DEF v
<1>4. \A q \in Watchers \ {p} : GoodView(W!View(q), u1, u2, u3', q, q \in u6')
  BY <1>1 DEF WindowsIInv
<1>5. u3' \in [Watchers -> Spots] /\ u6' \in SUBSET Watchers
  BY <1>1 DEF WindowsIInv
<1>6. CASE open = {}
  <2>1. y \in Views /\ y.w = [v.w EXCEPT ![i] = b] /\ y.s = v.s
    BY <1>2 DEF Views
  <2>2. \A j \in Cids : y.w[j] = IF j = i THEN b ELSE v.w[j]
    BY <1>2, <2>1 DEF Views
  <2> HIDE DEF y
  <2>3. W!Twice(y) => W!Twice(v)
    BY <1>6, <2>2 DEF W!Twice
  <2>4. FineBut(y, {j \in Cids : y.w[j] = b}, u1, u2, u3, p, p \in u6)
    <3>1. \A j \in Cids : y.w[j] # b => Fine(y, j, u1, u2, u3, p, p \in u6)
      BY <1>2, <2>1, <2>2 DEF Fine
    <3> QED BY <1>2, <2>1, <2>3, <3>1 DEF FineBut
  <2>5. GoodView(W!Sent(y, u1, u2, b), u1, u2, u3, p, p \in u6)
    BY <1>1, <1>3, <2>4, SentGood
  <2>6. W!OnlyFor(p, W!Sent(y, u1, u2, b))
    BY <1>1, <1>6
  <2>7. GoodView(W!Sent(y, u1, u2, b), u1, u2, u3', p, p \in u6')
    BY <1>1, <2>5
  <2> QED BY <1>1, <1>4, <1>5, <2>6, <2>7, OnlyForKeeps
<1>7. CASE open # {}
  <2>1. first \in open
    <3>1. open \in SUBSET Nat
      BY CasesAssumed
    <3> HIDE DEF open
    <3>2. \E j \in open : \A k \in open : j <= k
      BY <1>7, <3>1, LeastExists
    <3> QED BY <3>2
  <2> HIDE DEF first
  <2> DEFINE e == [j \in Cids |-> IF j \in open THEN None ELSE v.s[j]]
  <2>2. e \in [Cids -> Shown \cup {None}]
    BY <1>2 DEF Views
  <2>3. z \in Views /\ z.w = [v.w EXCEPT ![first] = None] /\ z.s = e
    <3> DEFINE x == [v EXCEPT !.w = [v.w EXCEPT ![first] = None]]
    <3>1. x \in Views /\ x.w = [v.w EXCEPT ![first] = None] /\ x.s = v.s
      BY <1>2 DEF Views
    <3>2. z = [x EXCEPT !.s = e]
      BY <1>2 DEF Views
    <3> HIDE DEF x, z, e
    <3> QED BY <2>2, <3>1, <3>2 DEF Views
  <2>4. \A j \in Cids : z.w[j] = (IF j = first THEN None ELSE v.w[j]) /\ z.s[j] = IF j \in open THEN None ELSE v.s[j]
    <3> HIDE DEF z, open
    <3> QED BY <1>2, <2>3 DEF Views
  <2> HIDE DEF z, e
  <2>5. ASSUME NEW j \in Cids PROVE Fine(z, j, u1, u2, u3, p, p \in u6)
    <3>1. Fine(v, j, u1, u2, u3, p, p \in u6)
      BY <1>2
    <3>2. CASE j \notin open
      BY <2>1, <2>4, <3>1, <3>2 DEF Fine
    <3>3. CASE j = first
      BY <2>1, <2>4, <3>3 DEF Fine
    <3>4. CASE j \in open /\ j # first
      <4>1. W!Twice(v)
        BY <1>3, <2>1, <3>4 DEF W!Twice
      <4> QED BY <1>2, <2>4, <3>1, <3>4, <4>1 DEF Fine
    <3> QED BY <3>2, <3>3, <3>4
  <2>6. W!Twice(z) => W!Twice(v)
    <3>1. \A j \in Cids : z.w[j] \in {v.w[j], None}
      BY <2>4
    <3> QED BY <3>1, TwiceLess
  <2>7. GoodView(z, u1, u2, u3', p, p \in u6')
    BY <1>1, <1>2, <2>3, <2>5, <2>6 DEF GoodView
  <2>8. W!OnlyFor(p, z)
    BY <1>1, <1>7
  <2> QED BY <1>1, <1>4, <1>5, <2>7, <2>8, OnlyForKeeps
<1> QED BY <1>6, <1>7

LEMMA WindowsInit ==
  ASSUME W!WindowsAssumption, W!Init PROVE WindowsIInv
<1>0. /\ IsFiniteSet(Cases) /\ None \notin Cases /\ Nowhere \notin Cases
      /\ Cases \cap Spots = {} /\ 1 \in Spots
  BY CasesAssumed
<1>1. /\ u1 = [x \in W!Things |-> 1] /\ u2 = [b \in Cases |-> <<>>]
      /\ u3 = [p \in Watchers |-> 1] /\ u6 = {}
      /\ u4 = [p \in Watchers |-> [i \in Cids |-> None]]
      /\ u5 = [p \in Watchers |-> [i \in Cids |-> None]]
  BY DEF W!Init
<1>2. NoLoop(u1, Cases)
  <2> SUFFICES ASSUME NEW x \in Cases PROVE x \notin Outward(u1, Cases, u1[x])
    BY DEF NoLoop
  <2>1. u1[x] = 1 /\ 1 \notin Cases
    BY <1>0, <1>1 DEF W!Things
  <2>2. Outward(u1, Cases, 1) = {1}
    BY <1>0, <2>1, OutNext
  <2> QED BY <2>1, <2>2
<1>3. LiesWell(u1, u2)
  <2>1. u1 \in [W!Things -> Holders]
    BY <1>0, <1>1 DEF Holders
  <2>2. \A b \in Cases : u2[b] = <<>> /\ Once(u2[b]) /\ Members(u2[b]) = {} /\ u2[b] \in Seq(W!Things)
    <3> TAKE b \in Cases
    <3>1. u2[b] = <<>>
      BY <1>1
    <3>2. Len(<<>>) = 0 /\ 1 .. 0 = {}
      OBVIOUS
    <3> QED BY <3>1, <3>2 DEF Once, Members
  <2>3. u2 \in [Cases -> Seq(W!Things)]
    BY <1>1, <2>2
  <2>4. \A b \in Cases, x \in W!Things : u1[x] # b
    BY <1>0, <1>1
  <2> QED BY <1>2, <2>1, <2>2, <2>3, <2>4 DEF LiesWell
<1>4. \A p \in Watchers : GoodView(W!View(p), u1, u2, u3, p, p \in u6)
  <2> TAKE p \in Watchers
  <2>1. u4[p] = [i \in Cids |-> None] /\ u5[p] = [i \in Cids |-> None]
    BY <1>1
  <2>2. W!View(p) = [w |-> u4[p], s |-> u5[p]]
    BY DEF W!View
  <2>3. W!View(p).w = u4[p] /\ W!View(p).s = u5[p] /\ W!View(p) \in Views
    BY <2>1, <2>2 DEF Views
  <2> QED BY <2>1, <2>3 DEF GoodView, Fine, W!Twice
<1>5. /\ u4 \in [Watchers -> [Cids -> Cases \cup {None}]]
      /\ u5 \in [Watchers -> [Cids -> Shown \cup {None}]]
      /\ u3 \in [Watchers -> Spots]
  BY <1>0, <1>1
<1> QED BY <1>1, <1>3, <1>4, <1>5 DEF WindowsIInv

LEMMA WindowsInvHolds ==
  ASSUME W!WindowsAssumption, WindowsIInv PROVE W!WindowsInv
<1>0. None \notin Cases
  BY CasesAssumed
<1>1. W!WindowsTypeOK
  <2>1. \A b \in Cases : W!Range(u2[b]) = Members(u2[b])
    <3> TAKE b \in Cases
    <3>1. u2[b] \in Seq(W!Things)
      BY DEF WindowsIInv, LiesWell
    <3>2. DOMAIN u2[b] = 1 .. Len(u2[b])
      BY <3>1
    <3> QED BY <3>2 DEF W!Range, Members
  <2>2. \A x \in W!Things : u1[x] \in Spots \cup Watchers \cup Cases \cup {Nowhere}
    BY DEF WindowsIInv, LiesWell, Holders
  <2> QED BY <2>1, <2>2 DEF W!WindowsTypeOK, WindowsIInv, LiesWell
<1>2. ASSUME NEW p \in Watchers, NEW i \in Cids
      PROVE  /\ u4[p][i] # None => Sees(u1, u3, p, u4[p][i])
             /\ u5[p][i] # None => u4[p][i] = u5[p][i].bag /\ u5[p][i] = W!Screen(u1, u2, u4[p][i])
             /\ u4[p][i] # None /\ u5[p][i] = None => p \in u6
  <2>1. Fine(W!View(p), i, u1, u2, u3, p, p \in u6) /\ W!View(p).w = u4[p] /\ W!View(p).s = u5[p]
    BY ViewIs
  <2>2. u4[p][i] # None => W!Screen(u1, u2, u4[p][i]).bag = u4[p][i]
    BY DEF W!Screen
  <2> QED BY <2>1, <2>2 DEF Fine
<1>3. W!InReach
  BY <1>2 DEF W!InReach, Sees
<1>4. W!ScreensAgree
  BY <1>2 DEF W!ScreensAgree
<1> QED BY <1>1, <1>3, <1>4 DEF W!WindowsInv

LEMMA WithoutIs ==
  ASSUME NEW s \in Seq(W!Things), NEW x
  PROVE  /\ W!Without(s, x) \in Seq(W!Things)
         /\ Once(s) => Once(W!Without(s, x)) /\ Members(W!Without(s, x)) = Members(s) \ {x}
<1> DEFINE i == W!Index(x, s)
<1>1. W!Range(s) = Members(s) /\ DOMAIN s = 1 .. Len(s)
  BY DEF W!Range, Members
<1>2. CASE x \in Members(s)
  <2>1. i \in 1 .. Len(s) /\ s[i] = x
    <3>1. \E j \in DOMAIN s : s[j] = x
      BY <1>1, <1>2 DEF Members
    <3> QED BY <1>1, <3>1 DEF W!Index
  <2>2. W!Without(s, x) = Skipped(s, i)
    BY <1>1, <1>2 DEF W!Without, W!RemoveAt, Skipped
  <2> HIDE DEF i
  <2>3. Skipped(s, i) \in Seq(W!Things)
    BY <2>1, SkippedIs
  <2>4. Once(s) => Once(Skipped(s, i)) /\ Members(Skipped(s, i)) = Members(s) \ {s[i]}
    BY <2>1, SkippedKeeps
  <2> QED BY <2>1, <2>2, <2>3, <2>4
<1>3. CASE x \notin Members(s)
  BY <1>1, <1>3 DEF W!Without
<1> QED BY <1>2, <1>3

\* A view whose windows on b show new content.
Anew(v, b, n) ==
  [v EXCEPT !.s = [i \in Cids |-> IF v.w[i] = b /\ v.s[i] # None
                                  THEN [v.s[i] EXCEPT !.content = n[i]] ELSE v.s[i]]]

LEMMA AnewIs ==
  ASSUME NoneIsNotShown, NEW v \in Views, NEW b, NEW n \in [Cids -> Seq(W!Things)]
  PROVE  /\ Anew(v, b, n) \in Views /\ Anew(v, b, n).w = v.w
         /\ \A i \in Cids : Anew(v, b, n).s[i] = IF v.w[i] = b /\ v.s[i] # None
                                        THEN [v.s[i] EXCEPT !.content = n[i]] ELSE v.s[i]
<1> DEFINE New(i) == IF v.w[i] = b /\ v.s[i] # None
                     THEN [v.s[i] EXCEPT !.content = n[i]] ELSE v.s[i]
           e == [i \in Cids |-> New(i)]
<1>1. \A i \in Cids : New(i) \in Shown \cup {None}
  <2> TAKE i \in Cids
  <2> DEFINE s == v.s[i]
  <2>1. s \in Shown \cup {None}
    BY DEF Views
  <2> HIDE DEF s
  <2>3. s # None => [s EXCEPT !.content = n[i]] \in Shown
    BY <2>1 DEF Shown
  <2> QED BY <2>1, <2>3 DEF s
<1>2. Anew(v, b, n) = [v EXCEPT !.s = e]
  BY DEF Anew
<1>3. e \in [Cids -> Shown \cup {None}]
  <2> HIDE DEF New
  <2> QED BY <1>1
<1>4. \A i \in Cids : e[i] = New(i)
  <2> HIDE DEF New
  <2> QED OBVIOUS
<1> HIDE DEF e, New
<1>5. [v EXCEPT !.s = e] \in Views /\ [v EXCEPT !.s = e].w = v.w /\ [v EXCEPT !.s = e].s = e
  BY <1>3 DEF Views
<1> QED BY <1>2, <1>4, <1>5 DEF New

OutOf(v, b, x) == W!Edited(v, b, LAMBDA s : W!Without(s, x))
InTo(v, b, x) == W!Edited(v, b, LAMBDA s : <<x>> \o s)

LEMMA ToldOut ==
  ASSUME NoneIsNotShown, NEW v \in Views, NEW b, NEW x, NEW z, z = OutOf(v, b, x)
  PROVE  /\ z \in Views /\ z.w = v.w
         /\ \A i \in Cids : z.s[i] = IF v.w[i] = b /\ v.s[i] # None
                              THEN [v.s[i] EXCEPT !.content = W!Without(v.s[i].content, x)] ELSE v.s[i]
<1> DEFINE n == [i \in Cids |-> IF v.s[i] # None THEN W!Without(v.s[i].content, x) ELSE <<>>]
<1>1. n \in [Cids -> Seq(W!Things)]
  <2>1. \A i \in Cids : v.s[i] # None => v.s[i].content \in Seq(W!Things)
    BY DEF Views, Shown
  <2>2. \A i \in Cids : v.s[i] # None => W!Without(v.s[i].content, x) \in Seq(W!Things)
    BY <2>1, WithoutIs
  <2> QED BY <2>2
<1>2. z = Anew(v, b, n)
  BY DEF OutOf, W!Edited, Anew
<1>3. \A i \in Cids : v.s[i] # None => n[i] = W!Without(v.s[i].content, x)
  OBVIOUS
<1> HIDE DEF n
<1>4. /\ z \in Views /\ z.w = v.w
      /\ \A i \in Cids : z.s[i] = IF v.w[i] = b /\ v.s[i] # None
                                  THEN [v.s[i] EXCEPT !.content = n[i]] ELSE v.s[i]
  BY <1>1, <1>2, AnewIs
<1>5. \A i \in Cids : v.s[i] # None => [v.s[i] EXCEPT !.content = n[i]] = [v.s[i] EXCEPT !.content = W!Without(v.s[i].content, x)]
  BY <1>3
<1> QED BY <1>4, <1>5

LEMMA ToldIn ==
  ASSUME NoneIsNotShown, NEW v \in Views, NEW b, NEW x \in W!Things, NEW z, z = InTo(v, b, x)
  PROVE  /\ z \in Views /\ z.w = v.w
         /\ \A i \in Cids : z.s[i] = IF v.w[i] = b /\ v.s[i] # None
                              THEN [v.s[i] EXCEPT !.content = <<x>> \o v.s[i].content] ELSE v.s[i]
<1> DEFINE n == [i \in Cids |-> IF v.s[i] # None THEN <<x>> \o v.s[i].content ELSE <<>>]
<1>1. n \in [Cids -> Seq(W!Things)]
  <2>1. \A i \in Cids : v.s[i] # None => v.s[i].content \in Seq(W!Things)
    BY DEF Views, Shown
  <2>2. \A i \in Cids : v.s[i] # None => <<x>> \o v.s[i].content \in Seq(W!Things)
    BY <2>1, FirstIs
  <2> QED BY <2>2
<1>2. z = Anew(v, b, n)
  BY DEF InTo, W!Edited, Anew
<1>3. \A i \in Cids : v.s[i] # None => n[i] = <<x>> \o v.s[i].content
  OBVIOUS
<1> HIDE DEF n
<1>4. /\ z \in Views /\ z.w = v.w
      /\ \A i \in Cids : z.s[i] = IF v.w[i] = b /\ v.s[i] # None
                                  THEN [v.s[i] EXCEPT !.content = n[i]] ELSE v.s[i]
  BY <1>1, <1>2, AnewIs
<1>5. \A i \in Cids : v.s[i] # None => [v.s[i] EXCEPT !.content = n[i]] = [v.s[i] EXCEPT !.content = <<x>> \o v.s[i].content]
  BY <1>3
<1> QED BY <1>4, <1>5

\* What a window shows after the two packets.
Edit(c, b, x, from, to) ==
  IF b = from THEN W!Without(c, x) ELSE IF b = to THEN <<x>> \o c ELSE c

LEMMA ToldIs ==
  ASSUME W!WindowsAssumption, NoneIsNotShown, NEW v \in Views, NEW x \in W!Things, NEW from, NEW to, to # from
  PROVE  LET z == W!Told(v, x, from, to)
         IN /\ z \in Views /\ z.w = v.w
            /\ \A i \in Cids : v.s[i] = None => z.s[i] = None
            /\ \A i \in Cids : v.s[i] # None /\ v.w[i] \in Cases =>
                 /\ z.s[i] = [v.s[i] EXCEPT !.content = Edit(v.s[i].content, v.w[i], x, from, to)]
                 /\ z.s[i] \in Shown
<1> DEFINE y == IF from \in Cases THEN OutOf(v, from, x) ELSE v
           z == IF to \in Cases THEN InTo(y, to, x) ELSE y
<1>1. W!Told(v, x, from, to) = z
  BY DEF W!Told, OutOf, InTo, W!Edited
<1>2. /\ y \in Views /\ y.w = v.w
      /\ \A i \in Cids : y.s[i] = IF from \in Cases /\ v.w[i] = from /\ v.s[i] # None
                           THEN [v.s[i] EXCEPT !.content = W!Without(v.s[i].content, x)] ELSE v.s[i]
  <2>1. CASE from \in Cases
    <3>1. y = OutOf(v, from, x)
      BY <2>1
    <3> HIDE DEF y
    <3> QED BY <2>1, <3>1, ToldOut
  <2>2. CASE from \notin Cases
    BY <2>2
  <2> QED BY <2>1, <2>2
<1> HIDE DEF y
<1>3. /\ z \in Views /\ z.w = v.w
      /\ \A i \in Cids : z.s[i] = IF to \in Cases /\ v.w[i] = to /\ y.s[i] # None
                           THEN [y.s[i] EXCEPT !.content = <<x>> \o y.s[i].content] ELSE y.s[i]
  <2>1. CASE to \in Cases
    <3>1. z = InTo(y, to, x)
      BY <2>1
    <3> HIDE DEF z
    <3> QED BY <1>2, <2>1, <3>1, ToldIn
  <2>2. CASE to \notin Cases
    BY <1>2, <2>2
  <2> QED BY <2>1, <2>2
<1> HIDE DEF z
<1>4. \A i \in Cids : v.s[i] = None => z.s[i] = None
  BY <1>2, <1>3
<1>5. ASSUME NEW i \in Cids, v.s[i] # None, v.w[i] \in Cases
      PROVE  /\ z.s[i] = [v.s[i] EXCEPT !.content = Edit(v.s[i].content, v.w[i], x, from, to)]
             /\ z.s[i] \in Shown
  <2> DEFINE s == v.s[i]
  <2>1. s \in Shown /\ s # None
    BY <1>5 DEF Views
  <2>5. z.s[i] = [s EXCEPT !.content = Edit(s.content, v.w[i], x, from, to)]
    <3>2. CASE v.w[i] = from
      BY <1>2, <1>3, <1>5, <3>2 DEF Edit
    <3>3. CASE v.w[i] # from /\ v.w[i] = to
      BY <1>2, <1>3, <1>5, <3>3 DEF Edit
    <3>4. CASE v.w[i] # from /\ v.w[i] # to
      <4>1. z.s[i] = s /\ Edit(s.content, v.w[i], x, from, to) = s.content
        BY <1>2, <1>3, <3>4 DEF Edit
      <4> HIDE DEF s
      <4>2. [s EXCEPT !.content = s.content] = s
        BY <2>1 DEF Shown
      <4> QED BY <4>1, <4>2
    <3> QED BY <3>2, <3>3, <3>4
  <2>6. Edit(s.content, v.w[i], x, from, to) \in Seq(W!Things)
    <3>1. s.content \in Seq(W!Things)
      BY <2>1 DEF Shown
    <3> HIDE DEF s
    <3> QED BY <3>1, WithoutIs, FirstIs DEF Edit
  <2> DEFINE c == Edit(s.content, v.w[i], x, from, to)
  <2>7. [s EXCEPT !.content = c] \in Shown
    <3> HIDE DEF s, c
    <3>1. c \in Seq(W!Things)
      BY <2>6 DEF c
    <3> QED BY <2>1, <3>1 DEF Shown
  <2> QED BY <2>5, <2>7
<1> QED BY <1>1, <1>3, <1>4, <1>5

LEMMA ToldFine ==
  ASSUME W!WindowsAssumption, NoneIsNotShown, WindowsIInv, NEW p \in Watchers, NEW i \in Cids, NEW x \in W!Things,
         NEW from, NEW to, to # from, NEW w, NEW cs, NEW st, NEW b, b = u4[p][i],
         b # None => /\ cs[b] = Edit(u2[b], b, x, from, to)
                     /\ (w[b] \in Cases) = (u1[b] \in Cases) /\ Sees(w, st, p, b)
  PROVE  Fine(W!Told(W!View(p), x, from, to), i, w, cs, st, p, p \in u6)
<1> DEFINE v == W!View(p)
           z == W!Told(v, x, from, to)
<1>1. v \in Views /\ v.w = u4[p] /\ Fine(v, i, u1, u2, u3, p, p \in u6)
  BY ViewIs
<1> HIDE DEF v
<1>2. /\ z \in Views /\ z.w = v.w
      /\ v.s[i] = None => z.s[i] = None
      /\ v.s[i] # None /\ v.w[i] \in Cases =>
                 /\ z.s[i] = [v.s[i] EXCEPT !.content = Edit(v.s[i].content, v.w[i], x, from, to)]
                 /\ z.s[i] \in Shown
  BY <1>1, ToldIs
<1> HIDE DEF z
<1>3. CASE v.s[i] = None
  BY <1>1, <1>2, <1>3 DEF Fine, z, v
<1>4. CASE v.s[i] # None
  <2>1. b \in Cases /\ v.w[i] = b /\ v.s[i] = W!Screen(u1, u2, b)
    BY <1>1, <1>4 DEF Fine, Views
  <2>2. b # None
    BY <2>1, CasesAssumed
  <2>3. z.s[i] = W!Screen(w, cs, b)
    BY <1>2, <1>4, <2>1, <2>2 DEF W!Screen
  <2>4. z.s[i] # None
    BY <1>2, <1>4, <2>1 DEF NoneIsNotShown
  <2> QED BY <1>2, <2>1, <2>2, <2>3, <2>4 DEF Fine, z, v
<1> QED BY <1>3, <1>4

LEMMA ThingsApart ==
  ASSUME W!WindowsAssumption
  PROVE  NoneIsNotShown /\ Cases \subseteq W!Things /\ \A x \in W!Things : x \notin Spots \cup Watchers \cup {Nowhere}
  BY DEF W!WindowsAssumption, NoneIsNotShown, Shown, W!Things

LEMMA ShowKeeps ==
  ASSUME WindowsIInv, NEW new, u4' = [p \in Watchers |-> new[p].w], u5' = [p \in Watchers |-> new[p].s],
         u3' = u3, u6' = u6, LiesWell(u1', u2'),
         \A p \in Watchers : GoodView(new[p], u1', u2', u3, p, p \in u6)
  PROVE  WindowsIInv'
<1>2. \A p \in Watchers : new[p] \in Views
  BY DEF GoodView
<1>3. /\ u4' \in [Watchers -> [Cids -> Cases \cup {None}]]
      /\ u5' \in [Watchers -> [Cids -> Shown \cup {None}]]
  BY <1>2 DEF Views
<1>4. \A p \in Watchers : W!View(p)' = new[p]
  BY <1>2 DEF W!View, Views
<1>5. LiesWell(u1, u2)'
  BY DEF LiesWell
<1>6. \A p \in Watchers : GoodView(W!View(p), u1, u2, u3, p, p \in u6)'
  <2> SUFFICES ASSUME NEW p \in Watchers PROVE GoodView(W!View(p), u1, u2, u3, p, p \in u6)'
    OBVIOUS
  <2>1. W!View(p)' = new[p] /\ GoodView(new[p], u1', u2', u3, p, p \in u6)
    BY <1>4
  <2> QED BY <2>1
<1> QED BY <1>3, <1>5, <1>6 DEF WindowsIInv

\* Who has a window on x or on what lies in x hears of what happens where x is.
LEMMA HearsIs ==
  ASSUME W!WindowsAssumption, WindowsIInv, NEW x \in Cases, NEW w,
         u1[x] \in Cases => Outward(w, Cases, u1[x]) = Outward(u1, Cases, u1[x]),
         NEW p \in Watchers, NEW i \in Cids, NEW b, b = u4[p][i], b # None, x \in Outward(u1, Cases, b)
  PROVE  W!Hears(p, w, u1[x]) /\ W!Top(u1, b) = W!Top(u1, x)
<1>0. IsFiniteSet(Cases) /\ NoLoop(u1, Cases)
  BY CasesAssumed DEF WindowsIInv, LiesWell
<1>1. W!Top(u1, b) = W!Top(u1, x)
  BY <1>0, TopInside
<1>2. Sees(u1, u3, p, b)
  <2>1. Fine(W!View(p), i, u1, u2, u3, p, p \in u6) /\ W!View(p).w = u4[p]
    BY ViewIs
  <2> QED BY <2>1 DEF Fine
<1>3. u1[x] \in Outward(u1, Cases, x)
  BY <1>0, OutwardIs DEF Closed
<1>4. (IF u1[x] \in Cases THEN W!Top(w, u1[x]) ELSE u1[x]) = W!Top(u1, x)
  <2>1. CASE u1[x] \in Cases
    <3>1. W!Top(w, u1[x]) = W!Top(u1, u1[x])
      BY <2>1, TopSame
    <3>2. W!Top(u1, u1[x]) = W!Top(u1, x)
      BY <1>0, <1>3, TopInside
    <3> QED BY <2>1, <3>1, <3>2
  <2>2. CASE u1[x] \notin Cases
    BY <1>0, <1>3, <2>2, TopOf
  <2> QED BY <2>1, <2>2
<1>5. W!Top(u1, x) \notin Watchers \/ W!Top(u1, x) = p
  BY <1>1, <1>2 DEF Sees
<1>6. W!Hears(p, w, u1[x])
  BY <1>4, <1>5 DEF W!Hears
<1> QED BY <1>1, <1>6

LEMMA GoodIsFineBut ==
  ASSUME NEW v, NEW w, NEW cs, NEW st, NEW p, NEW d, GoodView(v, w, cs, st, p, d), NEW ids
  PROVE  FineBut(v, ids, w, cs, st, p, d)
  BY DEF GoodView, FineBut

LEMMA MoveLies ==
  ASSUME W!WindowsAssumption, LiesWell(u1, u2), NEW x \in W!Things, NEW to \in Spots \cup Watchers \cup Cases,
         to # u1[x], to \in Cases => x \notin Outward(u1, Cases, to),
         NEW w, w = [u1 EXCEPT ![x] = to], NEW cs, cs \in [Cases -> Seq(W!Things)],
         \A b \in Cases : cs[b] = Edit(u2[b], b, x, u1[x], to)
  PROVE  LiesWell(w, cs)
<1>0. IsFiniteSet(Cases) /\ NoLoop(u1, Cases) /\ u1 \in [W!Things -> Holders]
  BY CasesAssumed DEF LiesWell
<1>1. w \in [W!Things -> Holders] /\ w[x] = to /\ \A y \in W!Things \ {x} : w[y] = u1[y]
  BY <1>0 DEF Holders
<1>2. NoLoop(w, Cases)
  <2>1. CASE x \in Cases
    <3>1. x \notin Outward(u1, Cases, to)
      BY <1>0, <2>1, OutNext
    <3>2. \A y \in Cases \ {x} : w[y] = u1[y]
      BY <1>1, ThingsApart
    <3>3. Put(u1, w, Cases, x, to)
      BY <1>1, <2>1, <3>1, <3>2 DEF Put
    <3> QED BY <1>0, <3>3, OutMoved
  <2>2. CASE x \notin Cases
    <3>1. \A y \in Cases : w[y] = u1[y] /\ y # Nowhere
      BY <1>1, <2>2, ThingsApart, CasesAssumed
    <3>2. Nowhere \notin Cases
      BY CasesAssumed
    <3> QED BY <1>0, <3>1, <3>2, OutLess
  <2> QED BY <2>1, <2>2
<1>3. ASSUME NEW b \in Cases
      PROVE  Once(cs[b]) /\ Members(cs[b]) = IF b = u1[x] THEN Members(u2[b]) \ {x} ELSE IF b = to THEN Members(u2[b]) \cup {x} ELSE Members(u2[b])
  <2>1. u2[b] \in Seq(W!Things) /\ Once(u2[b]) /\ (x \in Members(u2[b]) => b = u1[x])
    BY DEF LiesWell
  <2>2. cs[b] = Edit(u2[b], b, x, u1[x], to)
    OBVIOUS
  <2>3. CASE b = u1[x]
    BY <2>1, <2>2, <2>3, WithoutIs DEF Edit
  <2>4. CASE b # u1[x] /\ b = to
    BY <2>1, <2>2, <2>4, FirstIs DEF Edit
  <2>5. CASE b # u1[x] /\ b # to
    BY <2>1, <2>2, <2>5 DEF Edit
  <2> QED BY <2>3, <2>4, <2>5
<1>4. ASSUME NEW b \in Cases, NEW y \in W!Things PROVE w[y] = b <=> y \in Members(cs[b])
  <2>1. u1[y] = b <=> y \in Members(u2[b])
    BY DEF LiesWell
  <2> QED BY <1>1, <1>3, <2>1
<1> QED BY <1>1, <1>2, <1>3, <1>4 DEF LiesWell

LEMMA CloseIsGood ==
  ASSUME W!WindowsAssumption, NEW w, NEW cs, NEW st, NEW p, NEW d, NEW v, NEW a, NEW x,
         FineBut(v, {i \in Cids : v.w[i] # None /\ x \in Outward(a, Cases, v.w[i])}, w, cs, st, p, d)
  PROVE  GoodView(W!AutoClose(v, a, x), w, cs, st, p, d)
<1> DEFINE ids == {i \in Cids : v.w[i] # None /\ {x, Nowhere} \cap W!Around(a, v.w[i]) # {}}
<1>1. W!AutoClose(v, a, x) = W!Shut(v, ids)
  BY DEF W!AutoClose
<1>2. \A i \in Cids : v.w[i] # None /\ x \in Outward(a, Cases, v.w[i]) => i \in ids
  BY AroundIs
<1> HIDE DEF ids
<1>3. FineBut(v, ids, w, cs, st, p, d)
  BY <1>2 DEF FineBut
<1> QED BY <1>1, <1>3, ShutGood

LEMMA SentAgain ==
  ASSUME W!WindowsAssumption, NoneIsNotShown, NEW w, NEW cs, LiesWell(w, cs), NEW st, NEW p, NEW d,
         NEW v, NEW b \in Cases, GoodView(v, w, cs, st, p, d)
  PROVE  GoodView(W!Sent(v, w, cs, b), w, cs, st, p, d)
<1>1. FineBut(v, {i \in Cids : v.w[i] = b}, w, cs, st, p, d)
  BY GoodIsFineBut
<1>2. \A i \in Cids : v.w[i] = b => Sees(w, st, p, b)
  BY CasesAssumed DEF GoodView, Fine
<1> QED BY <1>1, <1>2, SentGood

\* A player is told of a container that is moved, as far as it matters to his windows.
LEMMA NotifiedGood ==
  ASSUME W!WindowsAssumption, WindowsIInv, NEW x \in Cases, NEW to \in Spots \cup Watchers \cup Cases,
         to # u1[x], NEW w, NEW cs, LiesWell(w, cs), Put(u1, w, Cases, x, to),
         \A b \in Cases : cs[b] = Edit(u2[b], b, x, u1[x], to),
         NEW p \in Watchers
  PROVE  GoodView(W!Notified(W!Told(W!View(p), x, u1[x], to), w, cs, p, x, u1[x], to), w, cs, u3, p, p \in u6)
<1> DEFINE from == u1[x]
           v == W!View(p)
           z == W!Told(v, x, from, to)
           d == (p \in u6)
           In(i) == u4[p][i] # None /\ x \in Outward(u1, Cases, u4[p][i])
           old == IF W!Hears(p, w, from) THEN W!AfterRemoval(z, w, cs, u3, p, x) ELSE z
<1>0. /\ IsFiniteSet(Cases) /\ NoLoop(u1, Cases) /\ NoLoop(w, Cases) /\ None \notin Cases
      /\ x \in W!Things /\ NoneIsNotShown
  BY CasesAssumed, ThingsApart DEF WindowsIInv, LiesWell
<1>1. v \in Views /\ v.w = u4[p] /\ (W!Twice(v) => d) /\ \A i \in Cids : Fine(v, i, u1, u2, u3, p, d)
  BY ViewIs
<1>2. z \in Views /\ z.w = u4[p]
  <2> HIDE DEF v, from
  <2>1. to # from
    BY DEF from
  <2> QED BY <1>0, <1>1, <2>1, ToldIs
<1>3. \A c : x \notin Outward(u1, Cases, c) => Outward(w, Cases, c) = Outward(u1, Cases, c)
  BY <1>0, OutMoved
<1>4. \A c : x \in Outward(u1, Cases, c) => x \in Outward(w, Cases, c)
  BY <1>0, OutMoved
<1>5. \A c : c \in Cases /\ c # x => w[c] = u1[c]
  BY DEF Put
<1>6. ASSUME NEW i \in Cids, u4[p][i] # None => Sees(w, u3, p, u4[p][i]), u4[p][i] # x
      PROVE  Fine(z, i, w, cs, u3, p, d)
  <2> DEFINE b == u4[p][i]
  <2>1. b # None => b \in Cases
    BY <1>1 DEF Views
  <2>2. b # None => /\ cs[b] = Edit(u2[b], b, x, from, to)
                    /\ (w[b] \in Cases) = (u1[b] \in Cases) /\ Sees(w, u3, p, b)
    BY <1>5, <1>6, <2>1
  <2> HIDE DEF b, from
  <2>3. to # from /\ b = u4[p][i]
    BY DEF b, from
  <2> QED BY <1>0, <2>2, <2>3, ToldFine
<1>7. ASSUME NEW i \in Cids, ~In(i) PROVE Fine(z, i, w, cs, u3, p, d)
  <2> DEFINE b == u4[p][i]
  <2>1. b # None => Sees(u1, u3, p, b)
    BY <1>1 DEF Fine
  <2>2. b # None => b # x /\ Outward(w, Cases, b) = Outward(u1, Cases, b)
    BY <1>0, <1>3, <1>7, OutwardIs
  <2>3. b # None => W!Top(w, b) = W!Top(u1, b)
    BY <2>2, TopSame
  <2>4. b # None => Sees(w, u3, p, b)
    BY <2>1, <2>3 DEF Sees, W!InRange, W!Spot
  <2>5. b # x
    BY <1>0, <2>2
  <2> QED BY <1>6, <2>4, <2>5
<1>8. (W!Twice(z) => d)
  BY <1>1, <1>2 DEF W!Twice
<1>9. FineBut(z, {i \in Cids : In(i)}, w, cs, u3, p, d)
  BY <1>2, <1>7, <1>8 DEF FineBut
<1>10. GoodView(old, w, cs, u3, p, d)
  <2>1. CASE ~W!Hears(p, w, from)
    <3>1. \A i \in Cids : ~In(i)
      <4> SUFFICES ASSUME NEW i \in Cids, In(i) PROVE FALSE
        OBVIOUS
      <4> DEFINE b == u4[p][i]
      <4>1. from \in Cases => Outward(w, Cases, from) = Outward(u1, Cases, from)
        BY <1>0, <1>3 DEF NoLoop
      <4>2. b = u4[p][i] /\ b # None /\ x \in Outward(u1, Cases, b)
        OBVIOUS
      <4> HIDE DEF b
      <4>3. W!Hears(p, w, u1[x])
        BY <4>1, <4>2, HearsIs
      <4> QED BY <2>1, <4>3
    <3>2. \A i \in Cids : Fine(z, i, w, cs, u3, p, d)
      BY <1>7, <3>1
    <3> QED BY <1>2, <1>8, <2>1, <3>2 DEF GoodView
  <2>2. CASE W!Hears(p, w, from) /\ ~Sees(w, u3, p, x)
    <3>1. old = W!AutoClose(z, w, x)
      BY <2>2 DEF W!AfterRemoval, Sees
    <3>2. \A i \in Cids : In(i) => z.w[i] # None /\ x \in Outward(w, Cases, z.w[i])
      BY <1>2, <1>4
    <3>3. FineBut(z, {i \in Cids : z.w[i] # None /\ x \in Outward(w, Cases, z.w[i])}, w, cs, u3, p, d)
      <4> HIDE DEF z, In
      <4> QED BY <1>9, <3>2 DEF FineBut
    <3> HIDE DEF z, old
    <3> QED BY <3>1, <3>3, CloseIsGood
  <2>3. CASE W!Hears(p, w, from) /\ Sees(w, u3, p, x)
    <3>1. old = W!Sent(z, w, cs, x)
      BY <2>3 DEF W!AfterRemoval, Sees
    <3>2. ASSUME NEW i \in Cids, u4[p][i] # x PROVE Fine(z, i, w, cs, u3, p, d)
      <4>1. CASE ~In(i)
        BY <1>7, <4>1
      <4>2. CASE In(i)
        <5> DEFINE b == u4[p][i]
        <5>1. W!Top(w, x) = W!Top(w, b)
          BY <1>0, <1>4, <4>2, TopInside
        <5>2. Sees(w, u3, p, b)
          BY <2>3, <5>1 DEF Sees, W!InRange, W!Spot
        <5> QED BY <1>6, <3>2, <5>2
      <4> QED BY <4>1, <4>2
    <3>3. FineBut(z, {i \in Cids : z.w[i] = x}, w, cs, u3, p, d)
      <4> HIDE DEF z
      <4> QED BY <1>2, <1>8, <3>2 DEF FineBut
    <3> HIDE DEF z, old
    <3> QED BY <1>0, <2>3, <3>1, <3>3, SentGood
  <2> QED BY <2>1, <2>2, <2>3
<1>11. W!Notified(z, w, cs, p, x, from, to) = IF W!Hears(p, w, to) THEN W!Sent(old, w, cs, x) ELSE old
  BY DEF W!Notified
<1> HIDE DEF old, z, from, d
<1>12. GoodView(W!Notified(z, w, cs, p, x, from, to), w, cs, u3, p, d)
  BY <1>0, <1>10, <1>11, SentAgain
<1> QED BY <1>12 DEF z, v, from, d

LEMMA MoveOfItemKeeps ==
  ASSUME W!WindowsAssumption, WindowsIInv, NEW x \in W!Things, NEW to \in Spots \cup Watchers \cup Cases, W!Move(x, to)
  PROVE  WindowsIInv'
<1> DEFINE from == u1[x]
           w == [u1 EXCEPT ![x] = to]
           taken == [b \in Cases |-> IF b = from THEN W!Without(u2[b], x) ELSE u2[b]]
           cs == IF to \in Cases THEN [taken EXCEPT ![to] = <<x>> \o taken[to]] ELSE taken
           new == [p \in Watchers |-> LET v == W!Told(W!View(p), x, from, to)
                                      IN IF x \in Cases THEN W!Notified(v, w, cs, p, x, from, to) ELSE v]
<1>1. /\ to # from /\ (to \in Cases => x \notin W!Around(u1, to))
      /\ u1' = w /\ u2' = cs /\ u3' = u3 /\ u6' = u6
      /\ u4' = [p \in Watchers |-> new[p].w] /\ u5' = [p \in Watchers |-> new[p].s]
  BY DEF W!Move, W!Show
<1>2. /\ LiesWell(u1, u2) /\ NoneIsNotShown /\ IsFiniteSet(Cases) /\ NoLoop(u1, Cases)
      /\ u1 \in [W!Things -> Holders] /\ u2 \in [Cases -> Seq(W!Things)] /\ Cases \subseteq W!Things
  BY ThingsApart, CasesAssumed DEF WindowsIInv, LiesWell
<1>3. \A b \in Cases : cs[b] = Edit(u2[b], b, x, from, to) /\ cs[b] \in Seq(W!Things)
  <2> TAKE b \in Cases
  <2>1. taken[b] = IF b = from THEN W!Without(u2[b], x) ELSE u2[b]
    OBVIOUS
  <2>2. cs[b] = IF b = to THEN <<x>> \o taken[b] ELSE taken[b]
    <3>1. DOMAIN taken = Cases
      OBVIOUS
    <3> HIDE DEF taken
    <3> QED BY <3>1
  <2> HIDE DEF cs, taken, from
  <2>3. cs[b] = Edit(u2[b], b, x, from, to)
    BY <1>1, <2>1, <2>2 DEF Edit
  <2>4. Edit(u2[b], b, x, from, to) \in Seq(W!Things)
    BY <1>2, WithoutIs, FirstIs DEF Edit
  <2> QED BY <2>3, <2>4
<1>4. cs \in [Cases -> Seq(W!Things)]
  <2>1. cs = [b \in Cases |-> cs[b]]
    <3>1. taken = [b \in Cases |-> taken[b]]
      OBVIOUS
    <3> HIDE DEF taken
    <3> QED BY <3>1
  <2> HIDE DEF cs
  <2> QED BY <1>3, <2>1
<1> HIDE DEF cs, taken
<1>5. to \in Cases => x \notin Outward(u1, Cases, to)
  BY <1>1, AroundIs
<1>6. LiesWell(w, cs)
  <2> HIDE DEF w
  <2>1. w = [u1 EXCEPT ![x] = to]
    BY DEF w
  <2> QED BY <1>1, <1>2, <1>3, <1>4, <1>5, <2>1, MoveLies
<1>7. w[x] = to /\ \A y \in W!Things \ {x} : w[y] = u1[y]
  BY <1>2
<1> HIDE DEF w
<1>8. ASSUME NEW p \in Watchers PROVE GoodView(new[p], w, cs, u3, p, p \in u6)
  <2> DEFINE v == W!Told(W!View(p), x, from, to)
  <2>1. new[p] = IF x \in Cases THEN W!Notified(v, w, cs, p, x, from, to) ELSE v
    OBVIOUS
  <2> HIDE DEF new
  <2>2. CASE x \in Cases
    <3>1. x \notin Outward(u1, Cases, to)
      BY <1>2, <1>5, <2>2, OutNext
    <3>2. Put(u1, w, Cases, x, to)
      BY <1>2, <1>7, <2>2, <3>1 DEF Put
    <3>3. GoodView(W!Notified(W!Told(W!View(p), x, u1[x], to), w, cs, p, x, u1[x], to), w, cs, u3, p, p \in u6)
      BY <1>1, <1>3, <1>6, <2>2, <3>2, NotifiedGood
    <3> QED BY <2>1, <2>2, <3>3
  <2>3. CASE x \notin Cases
    <3>1. W!View(p) \in Views /\ W!View(p).w = u4[p] /\ (W!Twice(W!View(p)) => p \in u6)
          /\ \A i \in Cids : Fine(W!View(p), i, u1, u2, u3, p, p \in u6)
      BY ViewIs
    <3>2. v \in Views /\ v.w = u4[p]
      BY <1>1, <1>2, <3>1, ToldIs
    <3> HIDE DEF v
    <3>3. ASSUME NEW i \in Cids PROVE Fine(v, i, w, cs, u3, p, p \in u6)
      <4> DEFINE b == u4[p][i]
      <4>1. b # None => b \in Cases /\ Sees(u1, u3, p, b)
        BY <3>1 DEF Fine, Views
      <4>2. Outward(w, Cases, b) = Outward(u1, Cases, b)
        <5>1. \A y \in Outward(u1, Cases, b) \cap Cases : w[y] = u1[y]
          BY <1>2, <1>7, <2>3
        <5> HIDE DEF b
        <5> QED BY <1>2, <5>1, OutSame
      <4> HIDE DEF b
      <4>3. W!Top(w, b) = W!Top(u1, b)
        BY <4>2, TopSame
      <4>4. b # None => w[b] = u1[b] /\ Sees(w, u3, p, b) /\ cs[b] = Edit(u2[b], b, x, from, to)
        BY <1>2, <1>3, <1>7, <2>3, <4>1, <4>3 DEF Sees, W!InRange, W!Spot
      <4>5. b = u4[p][i]
        BY DEF b
      <4> HIDE DEF from
      <4>6. Fine(W!Told(W!View(p), x, from, to), i, w, cs, u3, p, p \in u6)
        BY <1>1, <1>2, <4>4, <4>5, ToldFine
      <4> QED BY <4>6 DEF v
    <3>4. W!Twice(v) => p \in u6
      BY <3>1, <3>2 DEF W!Twice
    <3>5. GoodView(v, w, cs, u3, p, p \in u6)
      BY <3>2, <3>3, <3>4 DEF GoodView
    <3> QED BY <2>1, <2>3, <3>5
  <2> QED BY <2>2, <2>3
<1> HIDE DEF new
<1>9. LiesWell(u1', u2') /\ \A p \in Watchers : GoodView(new[p], u1', u2', u3, p, p \in u6)
  BY <1>1, <1>6, <1>8
<1> QED BY <1>1, <1>9, ShowKeeps

LEMMA WithoutSame ==
  ASSUME NEW s \in Seq(W!Things), NEW x, x \notin Members(s) PROVE W!Without(s, x) = s
<1>1. W!Range(s) = Members(s)
  <2>1. DOMAIN s = 1 .. Len(s)
    OBVIOUS
  <2> QED BY <2>1 DEF W!Range, Members
<1> QED BY <1>1 DEF W!Without

LEMMA DestroyKeeps ==
  ASSUME W!WindowsAssumption, WindowsIInv, NEW x \in W!Things, W!Destroy(x)
  PROVE  WindowsIInv'
<1> DEFINE from == u1[x]
           w == [y \in W!Things |-> IF y = x \/ (y \in W!Things /\ u1[y] = x) THEN Nowhere ELSE u1[y]]
           alone == [u1 EXCEPT ![x] = Nowhere]
           cs == [b \in Cases |-> IF b = x THEN <<>> ELSE W!Without(u2[b], x)]
           new == [p \in Watchers |-> LET v == W!Told(W!View(p), x, from, Nowhere)
                                      IN IF x \in Cases /\ W!Hears(p, alone, from) THEN W!AutoClose(v, alone, x) ELSE v]
<1>1. /\ Nowhere # from
      /\ u1' = w /\ u2' = cs /\ u3' = u3 /\ u6' = u6
      /\ u4' = [p \in Watchers |-> new[p].w] /\ u5' = [p \in Watchers |-> new[p].s]
  BY DEF W!Destroy, W!Show
<1>2. /\ LiesWell(u1, u2) /\ NoneIsNotShown /\ IsFiniteSet(Cases) /\ NoLoop(u1, Cases)
      /\ u1 \in [W!Things -> Holders] /\ u2 \in [Cases -> Seq(W!Things)] /\ Cases \subseteq W!Things
      /\ Nowhere \notin Cases /\ None \notin Cases
  BY ThingsApart, CasesAssumed DEF WindowsIInv, LiesWell
<1>3. /\ w \in [W!Things -> Holders]
      /\ \A y \in W!Things : w[y] = IF y = x \/ u1[y] = x THEN Nowhere ELSE u1[y]
  BY <1>2 DEF Holders
<1>4. alone[x] = Nowhere /\ \A y \in W!Things \ {x} : alone[y] = u1[y]
  BY <1>2
<1>5. ASSUME NEW b \in Cases
      PROVE  /\ cs[b] = IF b = x THEN <<>> ELSE W!Without(u2[b], x)
             /\ b # x => cs[b] = Edit(u2[b], b, x, from, Nowhere)
             /\ cs[b] \in Seq(W!Things) /\ Once(cs[b])
             /\ Members(cs[b]) = IF b = x THEN {} ELSE Members(u2[b]) \ {x}
  <2>1. u2[b] \in Seq(W!Things) /\ Once(u2[b]) /\ (x \in Members(u2[b]) => b = u1[x])
    BY <1>2 DEF LiesWell
  <2>2. cs[b] = IF b = x THEN <<>> ELSE W!Without(u2[b], x)
    OBVIOUS
  <2>3. Once(<<>>) /\ Members(<<>>) = {} /\ <<>> \in Seq(W!Things)
    <3>1. Len(<<>>) = 0 /\ 1 .. 0 = {}
      OBVIOUS
    <3> QED BY <3>1 DEF Once, Members
  <2> HIDE DEF cs
  <2>4. b # x => cs[b] = Edit(u2[b], b, x, from, Nowhere)
    BY <1>2, <2>1, <2>2, WithoutSame DEF Edit
  <2>5. CASE b = x
    BY <2>2, <2>3, <2>5
  <2>6. CASE b # x
    BY <2>1, <2>2, <2>4, <2>6, WithoutIs
  <2> QED BY <2>5, <2>6
<1>6. cs \in [Cases -> Seq(W!Things)]
  <2>1. cs = [b \in Cases |-> cs[b]]
    OBVIOUS
  <2> HIDE DEF cs
  <2> QED BY <1>5, <2>1
<1> HIDE DEF w, cs, alone
<1>7. NoLoop(w, Cases)
  <2>1. \A y \in Cases : w[y] \in {u1[y], Nowhere}
    BY <1>2, <1>3
  <2> QED BY <1>2, <2>1, OutLess
<1>8. LiesWell(w, cs)
  <2>1. ASSUME NEW b \in Cases, NEW y \in W!Things PROVE w[y] = b <=> y \in Members(cs[b])
    <3>1. u1[y] = b <=> y \in Members(u2[b])
      BY <1>2 DEF LiesWell
    <3> QED BY <1>2, <1>3, <1>5, <3>1
  <2> QED BY <1>3, <1>5, <1>6, <1>7, <2>1 DEF LiesWell
<1>9. ASSUME NEW p \in Watchers PROVE GoodView(new[p], w, cs, u3, p, p \in u6)
  <2> DEFINE v == W!Told(W!View(p), x, from, Nowhere)
             d == (p \in u6)
             In(i) == x \in Cases /\ u4[p][i] # None /\ x \in Outward(u1, Cases, u4[p][i])
  <2>1. new[p] = IF x \in Cases /\ W!Hears(p, alone, from) THEN W!AutoClose(v, alone, x) ELSE v
    OBVIOUS
  <2> HIDE DEF new
  <2>2. W!View(p) \in Views /\ W!View(p).w = u4[p] /\ (W!Twice(W!View(p)) => d)
        /\ \A i \in Cids : Fine(W!View(p), i, u1, u2, u3, p, d)
    BY ViewIs
  <2>3. v \in Views /\ v.w = u4[p]
    BY <1>1, <1>2, <2>2, ToldIs
  <2> HIDE DEF v
  <2>4. ASSUME NEW i \in Cids, ~In(i) PROVE Fine(v, i, w, cs, u3, p, d)
    <3> DEFINE b == u4[p][i]
    <3>1. b # None => b \in Cases /\ Sees(u1, u3, p, b)
      BY <2>2 DEF Fine, Views
    <3>2. b # None => b # x /\ u1[b] # x /\ Outward(w, Cases, b) = Outward(u1, Cases, b)
      <4> HAVE b # None
      <4>1. CASE x \in Cases
        <5>1. x \notin Outward(u1, Cases, b)
          BY <2>4, <4>1
        <5> HIDE DEF b
        <5>2. b \in Outward(u1, Cases, b) /\ \A y \in Outward(u1, Cases, b) \cap Cases : u1[y] \in Outward(u1, Cases, b)
          BY <1>2, OutwardIs DEF Closed
        <5>3. \A y \in Outward(u1, Cases, b) \cap Cases : w[y] = u1[y]
          BY <1>2, <1>3, <5>1, <5>2
        <5> QED BY <1>2, <3>1, <5>1, <5>2, <5>3, OutSame
      <4>2. CASE x \notin Cases
        <5> HIDE DEF b
        <5>1. \A y \in W!Things : u1[y] # x
          BY <1>2, <4>2, ThingsApart DEF Holders
        <5>2. \A y \in Outward(u1, Cases, b) \cap Cases : w[y] = u1[y]
          BY <1>2, <1>3, <4>2, <5>1
        <5> QED BY <1>2, <3>1, <4>2, <5>1, <5>2, OutSame
      <4> QED BY <4>1, <4>2
    <3> HIDE DEF b, d
    <3>3. b # None => W!Top(w, b) = W!Top(u1, b)
      BY <3>2, TopSame
    <3>4. b # None => w[b] = u1[b] /\ Sees(w, u3, p, b) /\ cs[b] = Edit(u2[b], b, x, from, Nowhere)
      BY <1>2, <1>3, <1>5, <3>1, <3>2, <3>3 DEF Sees, W!InRange, W!Spot
    <3>5. b = u4[p][i]
      BY DEF b
    <3> HIDE DEF from
    <3>6. Fine(W!Told(W!View(p), x, from, Nowhere), i, w, cs, u3, p, p \in u6)
      BY <1>1, <1>2, <3>4, <3>5, ToldFine
    <3> QED BY <3>6 DEF v, d
  <2>5. W!Twice(v) => d
    BY <2>2, <2>3 DEF W!Twice
  <2>6. CASE x \in Cases /\ W!Hears(p, alone, from)
    <3>1. Put(u1, alone, Cases, x, Nowhere)
      <4>1. x \notin Outward(u1, Cases, Nowhere)
        BY <1>2, <2>6, OutNext
      <4> QED BY <1>2, <1>4, <2>6, <4>1 DEF Put
    <3>2. \A c : x \in Outward(u1, Cases, c) => x \in Outward(alone, Cases, c)
      BY <1>2, <3>1, OutMoved
    <3>3. FineBut(v, {i \in Cids : v.w[i] # None /\ x \in Outward(alone, Cases, v.w[i])}, w, cs, u3, p, d)
      BY <2>3, <2>4, <2>5, <3>2 DEF FineBut
    <3>4. GoodView(W!AutoClose(v, alone, x), w, cs, u3, p, d)
      BY <3>3, CloseIsGood
    <3> QED BY <2>1, <2>6, <3>4
  <2>7. CASE ~(x \in Cases /\ W!Hears(p, alone, from))
    <3>1. \A i \in Cids : ~In(i)
      <4> SUFFICES ASSUME NEW i \in Cids, In(i) PROVE FALSE
        OBVIOUS
      <4> DEFINE b == u4[p][i]
      <4>1. x \in Cases
        OBVIOUS
      <4>2. Put(u1, alone, Cases, x, Nowhere)
        <5>1. x \notin Outward(u1, Cases, Nowhere)
          BY <1>2, <4>1, OutNext
        <5> QED BY <1>2, <1>4, <4>1, <5>1 DEF Put
      <4>3. x \notin Outward(u1, Cases, u1[x])
        BY <1>2, <4>1 DEF NoLoop
      <4>4. Outward(alone, Cases, u1[x]) = Outward(u1, Cases, u1[x])
        <5>1. \A c : x \notin Outward(u1, Cases, c) => Outward(alone, Cases, c) = Outward(u1, Cases, c)
          BY <1>2, <4>2, OutMoved
        <5> QED BY <4>3, <5>1
      <4>5. b = u4[p][i] /\ b # None /\ x \in Outward(u1, Cases, b)
        OBVIOUS
      <4> HIDE DEF b
      <4>6. W!Hears(p, alone, u1[x])
        BY <4>1, <4>4, <4>5, HearsIs
      <4> QED BY <2>7, <4>1, <4>6
    <3>2. \A i \in Cids : Fine(v, i, w, cs, u3, p, d)
      BY <2>4, <3>1
    <3>3. GoodView(v, w, cs, u3, p, d)
      BY <2>3, <2>5, <3>2 DEF GoodView
    <3> QED BY <2>1, <2>7, <3>3
  <2> QED BY <2>6, <2>7
<1> HIDE DEF new
<1>10. LiesWell(u1', u2') /\ \A p \in Watchers : GoodView(new[p], u1', u2', u3, p, p \in u6)
  BY <1>1, <1>8, <1>9
<1> QED BY <1>1, <1>10, ShowKeeps

LEMMA WindowsStep ==
  ASSUME W!WindowsAssumption, WindowsIInv, W!Next PROVE WindowsIInv'
<1>0. NoneIsNotShown
  BY ThingsApart
<1>1. CASE \E p \in Watchers, i \in Cids :
             W!Close(p, i) \/ W!MoveUp(p, i) \/ W!Update(p, i) \/ \E b \in Cases : W!Use(p, b, i)
  BY <1>0, <1>1, CloseKeeps, MoveUpKeeps, UpdateKeeps, UseKeeps
<1>2. CASE \E x \in W!Things : W!Destroy(x) \/ \E to \in Spots \cup Watchers \cup Cases : W!Move(x, to)
  BY <1>2, DestroyKeeps, MoveOfItemKeeps
<1>3. CASE \E p \in Watchers, spot \in Spots : W!Walk(p, spot)
  BY <1>3, WalkKeeps
<1> QED BY <1>1, <1>2, <1>3 DEF W!Next

-----------------------------------------------------------------------------
(* Loops of levels, which end.                                             *)

\* A loop that has a measure comes to an end: no turn changes what it leaves.
Turning(X, T, m) == \A s \in X : T[s] \in X /\ m[s] \in Nat /\ (T[s] = s \/ m[T[s]] < m[s])

LEMMA LoopEnds ==
  ASSUME NEW X, NEW T, NEW m, Turning(X, T, m), NEW n \in Nat, NEW h,
         h[0] \in X, m[h[0]] <= n, \A k \in 1 .. n : h[k - 1] \in X => h[k] = T[h[k - 1]]
  PROVE  h[n] \in X /\ T[h[n]] = h[n]
<1> DEFINE Good(k) == h[k] \in X /\ (T[h[k]] = h[k] \/ m[h[k]] <= n - k)
           P == {k \in Nat : k <= n => Good(k)}
<1>1. 0 \in P
  OBVIOUS
<1>2. ASSUME NEW k \in Nat, k \in P PROVE k + 1 \in P
  <2> SUFFICES ASSUME k + 1 <= n PROVE Good(k + 1)
    OBVIOUS
  <2>1. Good(k)
    BY <1>2
  <2>2. k + 1 \in 1 .. n /\ (k + 1) - 1 = k
    OBVIOUS
  <2>3. h[k + 1] = T[h[k]]
    BY <2>1, <2>2
  <2>4. h[k + 1] \in X
    BY <2>1, <2>3 DEF Turning
  <2>5. CASE T[h[k]] = h[k]
    BY <2>3, <2>4, <2>5
  <2>6. CASE T[h[k]] # h[k]
    <3>1. m[h[k]] \in Nat /\ m[h[k + 1]] \in Nat /\ m[h[k + 1]] < m[h[k]] /\ m[h[k]] <= n - k
      BY <2>1, <2>3, <2>4, <2>6 DEF Turning
    <3> QED BY <2>4, <3>1
  <2> QED BY <2>5, <2>6
<1>3. Nat \subseteq P
  <2> HIDE DEF P
  <2> QED BY <1>1, <1>2, AllNumbers
<1>4. Good(n)
  BY <1>3
<1>5. CASE T[h[n]] # h[n]
  <2>1. m[h[n]] \in Nat /\ m[T[h[n]]] \in Nat /\ m[T[h[n]]] < m[h[n]] /\ m[h[n]] <= 0
    BY <1>4, <1>5 DEF Turning
  <2> QED BY <2>1
<1> QED BY <1>4, <1>5

LoopStep(T, s, f, k) == IF k = 0 THEN s ELSE T[f[k - 1]]
LoopFits(X, T, s, n, f) ==
  (\A k \in 0 .. n : f[k] \in X) /\ f = [k \in 0 .. n |-> LoopStep(T, s, f, k)]
LEMMA LoopExists ==
  ASSUME NEW X, NEW T, \A s \in X : T[s] \in X, NEW s \in X, NEW n \in Nat
  PROVE  \E f : LoopFits(X, T, s, n, f)
<1> DEFINE Fits(f, j) == \A k \in 0 .. j : f[k] \in X /\ f[k] = LoopStep(T, s, f, k)
           P == {j \in Nat : \E f : Fits(f, j)}
<1>1. 0 \in P
  <2>1. Fits([k \in {0} |-> s], 0)
    BY DEF LoopStep
  <2> QED BY <2>1
<1>2. ASSUME NEW j \in Nat, j \in P PROVE j + 1 \in P
  <2>1. PICK f : Fits(f, j)
    BY <1>2
  <2> DEFINE g == [k \in 0 .. j + 1 |-> IF k <= j THEN f[k] ELSE T[f[j]]]
  <2>2. ASSUME NEW k \in 0 .. j + 1 PROVE g[k] \in X /\ g[k] = LoopStep(T, s, g, k)
    <3>1. CASE k = 0
      <4>1. g[k] = f[0] /\ 0 \in 0 .. j
        BY <3>1
      <4> HIDE DEF g
      <4> QED BY <2>1, <3>1, <4>1 DEF LoopStep
    <3>2. CASE k # 0
      <4>1. k - 1 \in 0 .. j /\ k - 1 \in 0 .. j + 1 /\ g[k - 1] = f[k - 1]
        BY <3>2
      <4>2. f[k - 1] \in X
        BY <2>1, <4>1
      <4>3. g[k] = T[f[k - 1]]
        <5>1. CASE k <= j
          <6>1. g[k] = f[k] /\ k \in 0 .. j
            BY <5>1
          <6> HIDE DEF g
          <6> QED BY <2>1, <3>2, <6>1 DEF LoopStep
        <5>2. CASE ~(k <= j)
          <6>1. k - 1 = j
            BY <5>2
          <6> QED BY <5>2, <6>1
        <5> QED BY <5>1, <5>2
      <4> HIDE DEF g
      <4> QED BY <3>2, <4>1, <4>2, <4>3 DEF LoopStep
    <3> QED BY <3>1, <3>2
  <2> HIDE DEF g
  <2>3. Fits(g, j + 1)
    BY <2>2
  <2> QED BY <2>3
<1>3. Nat \subseteq P
  <2> HIDE DEF P
  <2> QED BY <1>1, <1>2, AllNumbers
<1>4. PICK f : Fits(f, n)
  BY <1>3
<1> DEFINE g == [k \in 0 .. n |-> f[k]]
<1>5. ASSUME NEW k \in 0 .. n PROVE g[k] \in X /\ g[k] = LoopStep(T, s, g, k)
  <2>1. k # 0 => k - 1 \in 0 .. n /\ g[k - 1] = f[k - 1]
    OBVIOUS
  <2>2. g[k] = f[k]
    OBVIOUS
  <2> HIDE DEF g
  <2> QED BY <1>4, <2>1, <2>2 DEF LoopStep
<1>6. g = [k \in 0 .. n |-> LoopStep(T, s, g, k)]
  <2>1. g = [k \in 0 .. n |-> g[k]]
    OBVIOUS
  <2>2. [k \in 0 .. n |-> g[k]] = [k \in 0 .. n |-> LoopStep(T, s, g, k)]
    BY <1>5
  <2> QED BY <2>1, <2>2
<1> QED BY <1>5, <1>6 DEF LoopFits

\* What a loop leaves of s: it keeps X and no turn changes it.
LEMMA MagicUpEnds ==
  ASSUME NEW X, NEW m, NEW s \in X, L!Turns \in Nat,
         \A x \in X : L!MagicUp(x) \in X /\ m[x] \in Nat /\ (L!MagicUp(x) = x \/ m[L!MagicUp(x)] < m[x]),
         m[s] <= L!Turns
  PROVE  L!Repeat(s, L!MagicUp) \in X /\ L!MagicUp(L!Repeat(s, L!MagicUp)) = L!Repeat(s, L!MagicUp)
<1> DEFINE T == [x \in X |-> L!MagicUp(x)]
           Fits(f) == f = [n \in 0 .. L!Turns |-> IF n = 0 THEN s ELSE L!MagicUp(f[n - 1])]
           h == CHOOSE f : Fits(f)
<1>1. Turning(X, T, m)
  BY DEF Turning
<1>2. \E f : Fits(f)
  <2>0. PICK f : LoopFits(X, T, s, L!Turns, f)
    <3>1. \A x \in X : T[x] \in X
      OBVIOUS
    <3> HIDE DEF T
    <3> QED BY <3>1, LoopExists
  <2>1. (\A k \in 0 .. L!Turns : f[k] \in X) /\ f = [k \in 0 .. L!Turns |-> LoopStep(T, s, f, k)]
    BY <2>0 DEF LoopFits
  <2>2. ASSUME NEW k \in 0 .. L!Turns PROVE LoopStep(T, s, f, k) = IF k = 0 THEN s ELSE L!MagicUp(f[k - 1])
    <3>1. k # 0 => k - 1 \in 0 .. L!Turns /\ f[k - 1] \in X
      BY <2>1
    <3>2. k # 0 => T[f[k - 1]] = L!MagicUp(f[k - 1])
      BY <3>1
    <3> HIDE DEF T
    <3> QED BY <3>2 DEF LoopStep
  <2>3. Fits(f)
    <3> HIDE DEF T
    <3> QED BY <2>1, <2>2
  <2> QED BY <2>3
<1>3. Fits(h)
  <2> HIDE DEF Fits
  <2> QED BY <1>2
<1>4. L!Repeat(s, L!MagicUp) = h[L!Turns]
  BY DEF L!Repeat
<1>5. h[0] = s /\ \A k \in 1 .. L!Turns : h[k] = L!MagicUp(h[k - 1])
  <2> HIDE DEF h
  <2> QED BY <1>3
<1> HIDE DEF h, Fits
<1>6. \A k \in 1 .. L!Turns : h[k - 1] \in X => h[k] = T[h[k - 1]]
  BY <1>5
<1> HIDE DEF T
<1>7. h[L!Turns] \in X /\ T[h[L!Turns]] = h[L!Turns]
  BY <1>1, <1>5, <1>6, LoopEnds
<1> QED BY <1>4, <1>7 DEF T

LEMMA MagicDownEnds ==
  ASSUME NEW X, NEW m, NEW s \in X, L!Turns \in Nat,
         \A x \in X : L!MagicDown(x) \in X /\ m[x] \in Nat /\ (L!MagicDown(x) = x \/ m[L!MagicDown(x)] < m[x]),
         m[s] <= L!Turns
  PROVE  L!Repeat(s, L!MagicDown) \in X /\ L!MagicDown(L!Repeat(s, L!MagicDown)) = L!Repeat(s, L!MagicDown)
<1> DEFINE T == [x \in X |-> L!MagicDown(x)]
           Fits(f) == f = [n \in 0 .. L!Turns |-> IF n = 0 THEN s ELSE L!MagicDown(f[n - 1])]
           h == CHOOSE f : Fits(f)
<1>1. Turning(X, T, m)
  BY DEF Turning
<1>2. \E f : Fits(f)
  <2>0. PICK f : LoopFits(X, T, s, L!Turns, f)
    <3>1. \A x \in X : T[x] \in X
      OBVIOUS
    <3> HIDE DEF T
    <3> QED BY <3>1, LoopExists
  <2>1. (\A k \in 0 .. L!Turns : f[k] \in X) /\ f = [k \in 0 .. L!Turns |-> LoopStep(T, s, f, k)]
    BY <2>0 DEF LoopFits
  <2>2. ASSUME NEW k \in 0 .. L!Turns PROVE LoopStep(T, s, f, k) = IF k = 0 THEN s ELSE L!MagicDown(f[k - 1])
    <3>1. k # 0 => k - 1 \in 0 .. L!Turns /\ f[k - 1] \in X
      BY <2>1
    <3>2. k # 0 => T[f[k - 1]] = L!MagicDown(f[k - 1])
      BY <3>1
    <3> HIDE DEF T
    <3> QED BY <3>2 DEF LoopStep
  <2>3. Fits(f)
    <3> HIDE DEF T
    <3> QED BY <2>1, <2>2
  <2> QED BY <2>3
<1>3. Fits(h)
  <2> HIDE DEF Fits
  <2> QED BY <1>2
<1>4. L!Repeat(s, L!MagicDown) = h[L!Turns]
  BY DEF L!Repeat
<1>5. h[0] = s /\ \A k \in 1 .. L!Turns : h[k] = L!MagicDown(h[k - 1])
  <2> HIDE DEF h
  <2> QED BY <1>3
<1> HIDE DEF h, Fits
<1>6. \A k \in 1 .. L!Turns : h[k - 1] \in X => h[k] = T[h[k - 1]]
  BY <1>5
<1> HIDE DEF T
<1>7. h[L!Turns] \in X /\ T[h[L!Turns]] = h[L!Turns]
  BY <1>1, <1>5, <1>6, LoopEnds
<1> QED BY <1>4, <1>7 DEF T

LEMMA SkillUpEnds ==
  ASSUME NEW X, NEW m, NEW s \in X, L!Turns \in Nat,
         \A x \in X : L!SkillUp(x) \in X /\ m[x] \in Nat /\ (L!SkillUp(x) = x \/ m[L!SkillUp(x)] < m[x]),
         m[s] <= L!Turns
  PROVE  L!Repeat(s, L!SkillUp) \in X /\ L!SkillUp(L!Repeat(s, L!SkillUp)) = L!Repeat(s, L!SkillUp)
<1> DEFINE T == [x \in X |-> L!SkillUp(x)]
           Fits(f) == f = [n \in 0 .. L!Turns |-> IF n = 0 THEN s ELSE L!SkillUp(f[n - 1])]
           h == CHOOSE f : Fits(f)
<1>1. Turning(X, T, m)
  BY DEF Turning
<1>2. \E f : Fits(f)
  <2>0. PICK f : LoopFits(X, T, s, L!Turns, f)
    <3>1. \A x \in X : T[x] \in X
      OBVIOUS
    <3> HIDE DEF T
    <3> QED BY <3>1, LoopExists
  <2>1. (\A k \in 0 .. L!Turns : f[k] \in X) /\ f = [k \in 0 .. L!Turns |-> LoopStep(T, s, f, k)]
    BY <2>0 DEF LoopFits
  <2>2. ASSUME NEW k \in 0 .. L!Turns PROVE LoopStep(T, s, f, k) = IF k = 0 THEN s ELSE L!SkillUp(f[k - 1])
    <3>1. k # 0 => k - 1 \in 0 .. L!Turns /\ f[k - 1] \in X
      BY <2>1
    <3>2. k # 0 => T[f[k - 1]] = L!SkillUp(f[k - 1])
      BY <3>1
    <3> HIDE DEF T
    <3> QED BY <3>2 DEF LoopStep
  <2>3. Fits(f)
    <3> HIDE DEF T
    <3> QED BY <2>1, <2>2
  <2> QED BY <2>3
<1>3. Fits(h)
  <2> HIDE DEF Fits
  <2> QED BY <1>2
<1>4. L!Repeat(s, L!SkillUp) = h[L!Turns]
  BY DEF L!Repeat
<1>5. h[0] = s /\ \A k \in 1 .. L!Turns : h[k] = L!SkillUp(h[k - 1])
  <2> HIDE DEF h
  <2> QED BY <1>3
<1> HIDE DEF h, Fits
<1>6. \A k \in 1 .. L!Turns : h[k - 1] \in X => h[k] = T[h[k - 1]]
  BY <1>5
<1> HIDE DEF T
<1>7. h[L!Turns] \in X /\ T[h[L!Turns]] = h[L!Turns]
  BY <1>1, <1>5, <1>6, LoopEnds
<1> QED BY <1>4, <1>7 DEF T

LEMMA SkillDownEnds ==
  ASSUME NEW X, NEW m, NEW s \in X, L!Turns \in Nat,
         \A x \in X : L!SkillDown(x) \in X /\ m[x] \in Nat /\ (L!SkillDown(x) = x \/ m[L!SkillDown(x)] < m[x]),
         m[s] <= L!Turns
  PROVE  L!Repeat(s, L!SkillDown) \in X /\ L!SkillDown(L!Repeat(s, L!SkillDown)) = L!Repeat(s, L!SkillDown)
<1> DEFINE T == [x \in X |-> L!SkillDown(x)]
           Fits(f) == f = [n \in 0 .. L!Turns |-> IF n = 0 THEN s ELSE L!SkillDown(f[n - 1])]
           h == CHOOSE f : Fits(f)
<1>1. Turning(X, T, m)
  BY DEF Turning
<1>2. \E f : Fits(f)
  <2>0. PICK f : LoopFits(X, T, s, L!Turns, f)
    <3>1. \A x \in X : T[x] \in X
      OBVIOUS
    <3> HIDE DEF T
    <3> QED BY <3>1, LoopExists
  <2>1. (\A k \in 0 .. L!Turns : f[k] \in X) /\ f = [k \in 0 .. L!Turns |-> LoopStep(T, s, f, k)]
    BY <2>0 DEF LoopFits
  <2>2. ASSUME NEW k \in 0 .. L!Turns PROVE LoopStep(T, s, f, k) = IF k = 0 THEN s ELSE L!SkillDown(f[k - 1])
    <3>1. k # 0 => k - 1 \in 0 .. L!Turns /\ f[k - 1] \in X
      BY <2>1
    <3>2. k # 0 => T[f[k - 1]] = L!SkillDown(f[k - 1])
      BY <3>1
    <3> HIDE DEF T
    <3> QED BY <3>2 DEF LoopStep
  <2>3. Fits(f)
    <3> HIDE DEF T
    <3> QED BY <2>1, <2>2
  <2> QED BY <2>3
<1>3. Fits(h)
  <2> HIDE DEF Fits
  <2> QED BY <1>2
<1>4. L!Repeat(s, L!SkillDown) = h[L!Turns]
  BY DEF L!Repeat
<1>5. h[0] = s /\ \A k \in 1 .. L!Turns : h[k] = L!SkillDown(h[k - 1])
  <2> HIDE DEF h
  <2> QED BY <1>3
<1> HIDE DEF h, Fits
<1>6. \A k \in 1 .. L!Turns : h[k - 1] \in X => h[k] = T[h[k - 1]]
  BY <1>5
<1> HIDE DEF T
<1>7. h[L!Turns] \in X /\ T[h[L!Turns]] = h[L!Turns]
  BY <1>1, <1>5, <1>6, LoopEnds
<1> QED BY <1>4, <1>7 DEF T

LEMMA LevelUpEnds ==
  ASSUME NEW X, NEW m, NEW s \in X, L!Turns \in Nat,
         \A x \in X : L!LevelUp(x) \in X /\ m[x] \in Nat /\ (L!LevelUp(x) = x \/ m[L!LevelUp(x)] < m[x]),
         m[s] <= L!Turns
  PROVE  L!Repeat(s, L!LevelUp) \in X /\ L!LevelUp(L!Repeat(s, L!LevelUp)) = L!Repeat(s, L!LevelUp)
<1> DEFINE T == [x \in X |-> L!LevelUp(x)]
           Fits(f) == f = [n \in 0 .. L!Turns |-> IF n = 0 THEN s ELSE L!LevelUp(f[n - 1])]
           h == CHOOSE f : Fits(f)
<1>1. Turning(X, T, m)
  BY DEF Turning
<1>2. \E f : Fits(f)
  <2>0. PICK f : LoopFits(X, T, s, L!Turns, f)
    <3>1. \A x \in X : T[x] \in X
      OBVIOUS
    <3> HIDE DEF T
    <3> QED BY <3>1, LoopExists
  <2>1. (\A k \in 0 .. L!Turns : f[k] \in X) /\ f = [k \in 0 .. L!Turns |-> LoopStep(T, s, f, k)]
    BY <2>0 DEF LoopFits
  <2>2. ASSUME NEW k \in 0 .. L!Turns PROVE LoopStep(T, s, f, k) = IF k = 0 THEN s ELSE L!LevelUp(f[k - 1])
    <3>1. k # 0 => k - 1 \in 0 .. L!Turns /\ f[k - 1] \in X
      BY <2>1
    <3>2. k # 0 => T[f[k - 1]] = L!LevelUp(f[k - 1])
      BY <3>1
    <3> HIDE DEF T
    <3> QED BY <3>2 DEF LoopStep
  <2>3. Fits(f)
    <3> HIDE DEF T
    <3> QED BY <2>1, <2>2
  <2> QED BY <2>3
<1>3. Fits(h)
  <2> HIDE DEF Fits
  <2> QED BY <1>2
<1>4. L!Repeat(s, L!LevelUp) = h[L!Turns]
  BY DEF L!Repeat
<1>5. h[0] = s /\ \A k \in 1 .. L!Turns : h[k] = L!LevelUp(h[k - 1])
  <2> HIDE DEF h
  <2> QED BY <1>3
<1> HIDE DEF h, Fits
<1>6. \A k \in 1 .. L!Turns : h[k - 1] \in X => h[k] = T[h[k - 1]]
  BY <1>5
<1> HIDE DEF T
<1>7. h[L!Turns] \in X /\ T[h[L!Turns]] = h[L!Turns]
  BY <1>1, <1>5, <1>6, LoopEnds
<1> QED BY <1>4, <1>7 DEF T

LEMMA LevelDownEnds ==
  ASSUME NEW X, NEW m, NEW s \in X, L!Turns \in Nat,
         \A x \in X : L!LevelDown(x) \in X /\ m[x] \in Nat /\ (L!LevelDown(x) = x \/ m[L!LevelDown(x)] < m[x]),
         m[s] <= L!Turns
  PROVE  L!Repeat(s, L!LevelDown) \in X /\ L!LevelDown(L!Repeat(s, L!LevelDown)) = L!Repeat(s, L!LevelDown)
<1> DEFINE T == [x \in X |-> L!LevelDown(x)]
           Fits(f) == f = [n \in 0 .. L!Turns |-> IF n = 0 THEN s ELSE L!LevelDown(f[n - 1])]
           h == CHOOSE f : Fits(f)
<1>1. Turning(X, T, m)
  BY DEF Turning
<1>2. \E f : Fits(f)
  <2>0. PICK f : LoopFits(X, T, s, L!Turns, f)
    <3>1. \A x \in X : T[x] \in X
      OBVIOUS
    <3> HIDE DEF T
    <3> QED BY <3>1, LoopExists
  <2>1. (\A k \in 0 .. L!Turns : f[k] \in X) /\ f = [k \in 0 .. L!Turns |-> LoopStep(T, s, f, k)]
    BY <2>0 DEF LoopFits
  <2>2. ASSUME NEW k \in 0 .. L!Turns PROVE LoopStep(T, s, f, k) = IF k = 0 THEN s ELSE L!LevelDown(f[k - 1])
    <3>1. k # 0 => k - 1 \in 0 .. L!Turns /\ f[k - 1] \in X
      BY <2>1
    <3>2. k # 0 => T[f[k - 1]] = L!LevelDown(f[k - 1])
      BY <3>1
    <3> HIDE DEF T
    <3> QED BY <3>2 DEF LoopStep
  <2>3. Fits(f)
    <3> HIDE DEF T
    <3> QED BY <2>1, <2>2
  <2> QED BY <2>3
<1>3. Fits(h)
  <2> HIDE DEF Fits
  <2> QED BY <1>2
<1>4. L!Repeat(s, L!LevelDown) = h[L!Turns]
  BY DEF L!Repeat
<1>5. h[0] = s /\ \A k \in 1 .. L!Turns : h[k] = L!LevelDown(h[k - 1])
  <2> HIDE DEF h
  <2> QED BY <1>3
<1> HIDE DEF h, Fits
<1>6. \A k \in 1 .. L!Turns : h[k - 1] \in X => h[k] = T[h[k - 1]]
  BY <1>5
<1> HIDE DEF T
<1>7. h[L!Turns] \in X /\ T[h[L!Turns]] = h[L!Turns]
  BY <1>1, <1>5, <1>6, LoopEnds
<1> QED BY <1>4, <1>7 DEF T

-----------------------------------------------------------------------------
(* The fields of a player.                                                 *)

Vocs == Vocations \cup {0}
PlayerSet ==
  [voc : Vocs, level : 1 .. MaxLevel, exp : Nat, percent : 0 .. 100, healthMax : Nat, manaMax : Nat,
   magic : 0 .. MaxMagic, spent : Nat, magicPercent : 0 .. 100,
   skill : FirstSkill .. MaxSkill, tries : Nat, skillPercent : 0 .. 100, blessings : SUBSET Blessings]

LEMMA FieldsOf ==
  ASSUME NEW p \in PlayerSet
  PROVE  /\ p.voc \in Vocs /\ p.level \in 1 .. MaxLevel /\ p.exp \in Nat /\ p.percent \in 0 .. 100
         /\ p.healthMax \in Nat /\ p.manaMax \in Nat
         /\ p.magic \in 0 .. MaxMagic /\ p.spent \in Nat /\ p.magicPercent \in 0 .. 100
         /\ p.skill \in FirstSkill .. MaxSkill /\ p.tries \in Nat /\ p.skillPercent \in 0 .. 100
         /\ p.blessings \in SUBSET Blessings
BY DEF PlayerSet

\* What p and q have in common.
Same(p, q) == p.voc = q.voc /\ p.blessings = q.blessings
SameMagic(p, q) == p.magic = q.magic /\ p.spent = q.spent
SameSkill(p, q) == p.skill = q.skill /\ p.tries = q.tries /\ p.skillPercent = q.skillPercent
SameLevel(p, q) ==
  p.level = q.level /\ p.exp = q.exp /\ p.percent = q.percent /\ p.healthMax = q.healthMax /\ p.manaMax = q.manaMax

\* p with other fields, one operator for each set of them that changes at once.
MagicTo(p, m, n) == [p EXCEPT !.magic = m, !.spent = n]
MagicShown(p, n) == [p EXCEPT !.magicPercent = n]
SpentTo(p, n) == [p EXCEPT !.spent = n]
SkillTo(p, m, n) == [p EXCEPT !.skill = m, !.tries = n]
TriesTo(p, n) == [p EXCEPT !.tries = n]
SkillShown(p, n) == [p EXCEPT !.skillPercent = n]
LevelTo(p, l, h, m) == [p EXCEPT !.level = l, !.healthMax = h, !.manaMax = m]
ExpTo(p, n) == [p EXCEPT !.exp = n]
LevelShown(p, n) == [p EXCEPT !.percent = n]

LEMMA MagicSet ==
  ASSUME NEW p \in PlayerSet, NEW m \in 0 .. MaxMagic, NEW n \in Nat
  PROVE  /\ MagicTo(p, m, n) \in PlayerSet /\ MagicTo(p, m, n).magic = m /\ MagicTo(p, m, n).spent = n
         /\ Same(p, MagicTo(p, m, n)) /\ SameSkill(p, MagicTo(p, m, n)) /\ SameLevel(p, MagicTo(p, m, n)) /\ MagicTo(p, m, n).magicPercent = p.magicPercent
BY DEF PlayerSet, MagicTo, Same, SameSkill, SameLevel

LEMMA MagicPercentSet ==
  ASSUME NEW p \in PlayerSet, NEW n \in 0 .. 100
  PROVE  /\ MagicShown(p, n) \in PlayerSet /\ MagicShown(p, n).magicPercent = n
         /\ Same(p, MagicShown(p, n)) /\ SameMagic(p, MagicShown(p, n)) /\ SameSkill(p, MagicShown(p, n)) /\ SameLevel(p, MagicShown(p, n))
BY DEF PlayerSet, MagicShown, Same, SameMagic, SameSkill, SameLevel

LEMMA SpentSet ==
  ASSUME NEW p \in PlayerSet, NEW n \in Nat
  PROVE  /\ SpentTo(p, n) \in PlayerSet /\ SpentTo(p, n).spent = n /\ SpentTo(p, n).magic = p.magic
         /\ Same(p, SpentTo(p, n)) /\ SameSkill(p, SpentTo(p, n)) /\ SameLevel(p, SpentTo(p, n)) /\ SpentTo(p, n).magicPercent = p.magicPercent
BY DEF PlayerSet, SpentTo, Same, SameSkill, SameLevel

LEMMA SkillSet ==
  ASSUME NEW p \in PlayerSet, NEW m \in FirstSkill .. MaxSkill, NEW n \in Nat
  PROVE  /\ SkillTo(p, m, n) \in PlayerSet /\ SkillTo(p, m, n).skill = m /\ SkillTo(p, m, n).tries = n /\ SkillTo(p, m, n).skillPercent = p.skillPercent
         /\ Same(p, SkillTo(p, m, n)) /\ SameMagic(p, SkillTo(p, m, n)) /\ SameLevel(p, SkillTo(p, m, n)) /\ SkillTo(p, m, n).magicPercent = p.magicPercent
BY DEF PlayerSet, SkillTo, Same, SameMagic, SameLevel

LEMMA TriesSet ==
  ASSUME NEW p \in PlayerSet, NEW n \in Nat
  PROVE  /\ TriesTo(p, n) \in PlayerSet /\ TriesTo(p, n).skill = p.skill /\ TriesTo(p, n).tries = n /\ TriesTo(p, n).skillPercent = p.skillPercent
         /\ Same(p, TriesTo(p, n)) /\ SameMagic(p, TriesTo(p, n)) /\ SameLevel(p, TriesTo(p, n)) /\ TriesTo(p, n).magicPercent = p.magicPercent
BY DEF PlayerSet, TriesTo, Same, SameMagic, SameLevel

LEMMA SkillPercentSet ==
  ASSUME NEW p \in PlayerSet, NEW n \in 0 .. 100
  PROVE  /\ SkillShown(p, n) \in PlayerSet /\ SkillShown(p, n).skill = p.skill /\ SkillShown(p, n).tries = p.tries /\ SkillShown(p, n).skillPercent = n
         /\ Same(p, SkillShown(p, n)) /\ SameMagic(p, SkillShown(p, n)) /\ SameLevel(p, SkillShown(p, n)) /\ SkillShown(p, n).magicPercent = p.magicPercent
BY DEF PlayerSet, SkillShown, Same, SameMagic, SameLevel

LEMMA LevelSet ==
  ASSUME NEW p \in PlayerSet, NEW l \in 1 .. MaxLevel, NEW h \in Nat, NEW m \in Nat
  PROVE  /\ LevelTo(p, l, h, m) \in PlayerSet /\ LevelTo(p, l, h, m).level = l /\ LevelTo(p, l, h, m).healthMax = h /\ LevelTo(p, l, h, m).manaMax = m
         /\ LevelTo(p, l, h, m).exp = p.exp /\ LevelTo(p, l, h, m).percent = p.percent
         /\ Same(p, LevelTo(p, l, h, m)) /\ SameMagic(p, LevelTo(p, l, h, m)) /\ SameSkill(p, LevelTo(p, l, h, m)) /\ LevelTo(p, l, h, m).magicPercent = p.magicPercent
BY DEF PlayerSet, LevelTo, Same, SameMagic, SameSkill

LEMMA ExpSet ==
  ASSUME NEW p \in PlayerSet, NEW n \in Nat
  PROVE  /\ ExpTo(p, n) \in PlayerSet /\ ExpTo(p, n).level = p.level /\ ExpTo(p, n).healthMax = p.healthMax /\ ExpTo(p, n).manaMax = p.manaMax
         /\ ExpTo(p, n).exp = n /\ ExpTo(p, n).percent = p.percent
         /\ Same(p, ExpTo(p, n)) /\ SameMagic(p, ExpTo(p, n)) /\ SameSkill(p, ExpTo(p, n)) /\ ExpTo(p, n).magicPercent = p.magicPercent
BY DEF PlayerSet, ExpTo, Same, SameMagic, SameSkill

LEMMA PercentSet ==
  ASSUME NEW p \in PlayerSet, NEW n \in 0 .. 100
  PROVE  /\ LevelShown(p, n) \in PlayerSet /\ LevelShown(p, n).level = p.level /\ LevelShown(p, n).healthMax = p.healthMax /\ LevelShown(p, n).manaMax = p.manaMax
         /\ LevelShown(p, n).exp = p.exp /\ LevelShown(p, n).percent = n
         /\ Same(p, LevelShown(p, n)) /\ SameMagic(p, LevelShown(p, n)) /\ SameSkill(p, LevelShown(p, n)) /\ LevelShown(p, n).magicPercent = p.magicPercent
BY DEF PlayerSet, LevelShown, Same, SameMagic, SameSkill

LEMMA PercentIs == ASSUME NEW count \in Int, NEW next \in Int, next >= 0, count >= 0 PROVE L!GetPercentLevel(count, next) \in 0 .. 100
<1> DEFINE r == IF next = 0 THEN 0 ELSE ((count * 100) \div next) % 256
<1>1. r \in Int /\ r >= 0
  <2>1. CASE next = 0
    BY <2>1
  <2>2. CASE next # 0
    <3> DEFINE n == (count * 100) \div next
    <3>1. n \in Int
      BY <2>2
    <3> HIDE DEF n
    <3>2. n % 256 \in 0 .. 255
      BY <3>1
    <3> QED BY <2>2, <3>2 DEF n
  <2> QED BY <2>1, <2>2
<1>2. L!GetPercentLevel(count, next) = IF r > 100 THEN 0 ELSE r
  BY DEF L!GetPercentLevel
<1> HIDE DEF r
<1> QED BY <1>1, <1>2

-----------------------------------------------------------------------------
(* Mana spent.                                                             *)

LEMMA ManaTable ==
  ASSUME L!LevelsAssumption, NEW v \in Vocs
  PROVE  /\ \A m \in 0 .. MaxMagic + 1 : ReqMana[v][m] \in Nat
         /\ ReqMana[v][MaxMagic] >= ReqMana[v][MaxMagic + 1]
BY DEF L!LevelsAssumption, L!TablesAssumption, Vocs

LEMMA TurnsAre ==
  ASSUME L!LevelsAssumption
  PROVE  /\ L!Turns \in Nat /\ MaxLevel \in Nat /\ MaxMagic \in Nat /\ FirstSkill \in Nat /\ MaxSkill \in Nat
         /\ MaxMagic <= L!Turns /\ MaxLevel <= L!Turns /\ MaxSkill - FirstSkill + 1 <= L!Turns
         /\ MaxLevel >= 1 /\ FirstSkill <= MaxSkill /\ FirstSkill >= 1
BY DEF L!LevelsAssumption, L!Turns

\* What was spent for the levels there are, and since.
LEMMA SpentIs ==
  ASSUME NEW p PROVE L!SpentInAll(p) = SumOver(ReqMana[p.voc], 1 .. p.magic) + p.spent
BY DEF L!SpentInAll, SumOver

LEMMA SpentNatural ==
  ASSUME L!LevelsAssumption, NEW p \in PlayerSet
  PROVE  /\ L!SpentInAll(p) \in Nat /\ SumOver(ReqMana[p.voc], 1 .. p.magic) \in Nat
         /\ p.magic = 0 => L!SpentInAll(p) = p.spent
<1> DEFINE w == ReqMana[p.voc]
<1>1. p.voc \in Vocs /\ p.magic \in 0 .. MaxMagic /\ p.spent \in Nat /\ MaxMagic \in Nat
  BY FieldsOf, TurnsAre
<1>2. p.magic \in Int /\ \A i \in 1 .. p.magic : w[i] \in Nat
  BY <1>1, ManaTable
<1> HIDE DEF w
<1>3. SumOver(w, 1 .. p.magic) \in Nat
  BY <1>2, SumsAreNaturals
<1>4. p.magic = 0 => SumOver(w, 1 .. p.magic) = 0
  BY <1>2, SumFromNone
<1>5. L!SpentInAll(p) = SumOver(w, 1 .. p.magic) + p.spent
  BY SpentIs DEF w
<1> QED BY <1>1, <1>3, <1>4, <1>5 DEF w

\* One magic level more.
LEMMA SpentUp ==
  ASSUME L!LevelsAssumption, NEW p \in PlayerSet, p.magic < MaxMagic, NEW n \in Nat, NEW q,
         q = MagicTo(p, p.magic + 1, n)
  PROVE  L!SpentInAll(q) = L!SpentInAll(p) - p.spent + L!NextMana(p) + n
<1> DEFINE w == ReqMana[p.voc]
           k == p.magic + 1
<1>1. p.voc \in Vocs /\ p.magic \in 0 .. MaxMagic /\ p.spent \in Nat /\ MaxMagic \in Nat
  BY FieldsOf, TurnsAre
<1>2. 1 \in Int /\ k \in Int /\ 1 <= k /\ k \in 0 .. MaxMagic /\ k - 1 = p.magic
  BY <1>1
<1>3. q.voc = p.voc /\ q.magic = k /\ q.spent = n
  <2>1. q = MagicTo(p, k, n) /\ k \in 0 .. MaxMagic
    BY <1>2
  <2> HIDE DEF k
  <2>2. q.magic = k /\ q.spent = n /\ Same(p, q)
    BY <2>1, MagicSet
  <2> QED BY <2>2 DEF Same
<1>4. \A i \in 1 .. k : w[i] \in Nat
  BY <1>1, ManaTable
<1>5. L!NextMana(p) = w[k]
  BY DEF L!NextMana
<1>6. L!SpentInAll(p) = SumOver(w, 1 .. k - 1) + p.spent
  BY <1>2, SpentIs
<1>7. L!SpentInAll(q) = SumOver(w, 1 .. k) + n
  BY <1>3, SpentIs
<1>8. w[k] \in Nat
  BY <1>2, <1>4
<1> HIDE DEF w, k
<1>9. SumOver(w, 1 .. k - 1) \in Int /\ SumOver(w, 1 .. k) = SumOver(w, 1 .. k - 1) + w[k]
  BY <1>2, <1>4, SumUpTo
<1>10. L!SpentInAll(q) = SumOver(w, 1 .. k - 1) + w[k] + n
  BY <1>7, <1>9
<1> HIDE DEF L!SpentInAll
<1> QED BY <1>1, <1>5, <1>6, <1>8, <1>9, <1>10

\* Where a loop that changes only the magic level can get to from p: with the same in all.
MagicWay(p, t, up) ==
  {x \in [p : PlayerSet, left : Nat] :
     /\ Same(p, x.p) /\ SameSkill(p, x.p) /\ SameLevel(p, x.p) /\ x.p.magicPercent = p.magicPercent
     /\ L!SpentInAll(x.p) + (IF up THEN x.left ELSE -x.left) = t}

LEMMA MagicUpKeeps ==
  ASSUME L!LevelsAssumption, NEW p \in PlayerSet, NEW t \in Int, NEW x \in MagicWay(p, t, TRUE)
  PROVE  /\ L!MagicUp(x) \in MagicWay(p, t, TRUE)
         /\ L!MagicUp(x) = x \/ L!MagicUp(x).p.magic > x.p.magic
<1>0. x.p \in PlayerSet /\ x.left \in Nat /\ Same(p, x.p) /\ SameSkill(p, x.p) /\ SameLevel(p, x.p)
      /\ x.p.magicPercent = p.magicPercent /\ L!SpentInAll(x.p) + x.left = t
  BY DEF MagicWay
<1> SUFFICES ASSUME ~L!MaxMagicReached(x.p) /\ x.p.spent + x.left >= L!NextMana(x.p)
             PROVE  /\ L!MagicUp(x) \in MagicWay(p, t, TRUE) /\ L!MagicUp(x).p.magic > x.p.magic
  BY DEF L!MagicUp
<1>1. x.p.voc \in Vocs /\ x.p.magic \in 0 .. MaxMagic /\ x.p.spent \in Nat /\ MaxMagic \in Nat
  BY <1>0, FieldsOf, TurnsAre
<1>2. x.p.magic < MaxMagic
  BY <1>1, ManaTable DEF L!MaxMagicReached, L!NextMana
<1> DEFINE q == [x.p EXCEPT !.magic = @ + 1, !.spent = 0]
           r == x.left - (L!NextMana(x.p) - x.p.spent)
<1>3. L!MagicUp(x) = [p |-> q, left |-> r]
  BY DEF L!MagicUp
<1>4. x.p.magic + 1 \in 0 .. MaxMagic /\ 0 \in Nat
  BY <1>1, <1>2
<1>5. q \in PlayerSet /\ q.magic = x.p.magic + 1 /\ Same(x.p, q) /\ SameSkill(x.p, q) /\ SameLevel(x.p, q)
      /\ q.magicPercent = x.p.magicPercent
  <2> DEFINE k == x.p.magic + 1
  <2>1. q = MagicTo(x.p, k, 0)
    BY DEF MagicTo
  <2>2. k \in 0 .. MaxMagic /\ x.p \in PlayerSet
    BY <1>0, <1>4
  <2> HIDE DEF q, k
  <2>3. q \in PlayerSet /\ q.magic = k /\ Same(x.p, q) /\ SameSkill(x.p, q) /\ SameLevel(x.p, q)
        /\ q.magicPercent = x.p.magicPercent
    BY <2>1, <2>2, MagicSet
  <2> QED BY <2>3 DEF k
<1>6. L!NextMana(x.p) \in Nat
  BY <1>1, <1>4, ManaTable DEF L!NextMana
<1>7. r \in Nat
  BY <1>0, <1>1, <1>6
<1>8. L!SpentInAll(q) = L!SpentInAll(x.p) - x.p.spent + L!NextMana(x.p) + 0
  <2>1. q = MagicTo(x.p, x.p.magic + 1, 0)
    BY DEF MagicTo
  <2>2. x.p \in PlayerSet /\ 0 \in Nat
    BY <1>0
  <2> HIDE DEF q
  <2> QED BY <1>2, <2>1, <2>2, SpentUp
<1>9. L!SpentInAll(x.p) \in Nat
  BY <1>0, SpentNatural
<1> HIDE DEF q
<1>10. L!SpentInAll(q) + r = t
  BY <1>0, <1>1, <1>6, <1>8, <1>9
<1>11. Same(p, q) /\ SameSkill(p, q) /\ SameLevel(p, q) /\ q.magicPercent = p.magicPercent
  BY <1>0, <1>5 DEF Same, SameSkill, SameLevel
<1> HIDE DEF r
<1>12. [p |-> q, left |-> r] \in MagicWay(p, t, TRUE)
  BY <1>5, <1>7, <1>10, <1>11 DEF MagicWay
<1>13. q.magic > x.p.magic
  BY <1>1, <1>5
<1>14. L!MagicUp(x).p = q
  BY <1>3
<1> QED BY <1>3, <1>12, <1>13, <1>14

LEMMA MagicDownKeeps ==
  ASSUME L!LevelsAssumption, NEW p \in PlayerSet, NEW t \in Int, NEW x \in MagicWay(p, t, FALSE)
  PROVE  /\ L!MagicDown(x) \in MagicWay(p, t, FALSE)
         /\ L!MagicDown(x) = x \/ L!MagicDown(x).p.magic < x.p.magic
<1>0. x.p \in PlayerSet /\ x.left \in Nat /\ Same(p, x.p) /\ SameSkill(p, x.p) /\ SameLevel(p, x.p)
      /\ x.p.magicPercent = p.magicPercent /\ L!SpentInAll(x.p) + -x.left = t
  BY DEF MagicWay
<1> SUFFICES ASSUME x.left > x.p.spent /\ x.p.magic > 0
             PROVE  /\ L!MagicDown(x) \in MagicWay(p, t, FALSE) /\ L!MagicDown(x).p.magic < x.p.magic
  BY DEF L!MagicDown
<1>1. x.p.voc \in Vocs /\ x.p.magic \in 0 .. MaxMagic /\ x.p.spent \in Nat /\ MaxMagic \in Nat
  BY <1>0, FieldsOf, TurnsAre
<1> DEFINE n == ReqMana[x.p.voc][x.p.magic]
           q == [x.p EXCEPT !.magic = @ - 1, !.spent = ReqMana[x.p.voc][x.p.magic]]
           r == x.left - x.p.spent
<1>3. L!MagicDown(x) = [p |-> q, left |-> r]
  BY DEF L!MagicDown
<1>4. x.p.magic - 1 \in 0 .. MaxMagic /\ n \in Nat /\ r \in Nat
  BY <1>0, <1>1, ManaTable
<1>5. q \in PlayerSet /\ q.magic = x.p.magic - 1 /\ q.spent = n /\ Same(x.p, q) /\ SameSkill(x.p, q) /\ SameLevel(x.p, q)
      /\ q.magicPercent = x.p.magicPercent
  <2> DEFINE k == x.p.magic - 1
  <2>1. q = MagicTo(x.p, k, n)
    BY DEF MagicTo
  <2>2. k \in 0 .. MaxMagic /\ n \in Nat /\ x.p \in PlayerSet
    BY <1>0, <1>4
  <2> HIDE DEF q, k, n
  <2>3. q \in PlayerSet /\ q.magic = k /\ q.spent = n /\ Same(x.p, q) /\ SameSkill(x.p, q) /\ SameLevel(x.p, q)
        /\ q.magicPercent = x.p.magicPercent
    BY <2>1, <2>2, MagicSet
  <2> QED BY <2>3 DEF k
<1>6. L!NextMana(q) = n
  BY <1>1, <1>5 DEF L!NextMana, Same
<1>7. L!SpentInAll(x.p) = L!SpentInAll(q) - q.spent + L!NextMana(q) + x.p.spent
  <2>1. q.magic < MaxMagic
    BY <1>1, <1>5
  <2>2. x.p = MagicTo(q, x.p.magic, x.p.spent)
    BY <1>0 DEF PlayerSet, MagicTo
  <2>3. x.p.magic = q.magic + 1
    BY <1>1, <1>5
  <2>4. q \in PlayerSet /\ x.p.spent \in Nat
    BY <1>1, <1>5
  <2> DEFINE y == x.p
             k == x.p.spent
  <2>5. y = MagicTo(q, q.magic + 1, k) /\ k \in Nat
    BY <2>2, <2>3, <2>4
  <2> HIDE DEF q, y, k
  <2>6. L!SpentInAll(y) = L!SpentInAll(q) - q.spent + L!NextMana(q) + k
    BY <2>1, <2>4, <2>5, SpentUp
  <2> QED BY <2>6 DEF y, k
<1>9. L!SpentInAll(q) \in Nat
  BY <1>5, SpentNatural
<1> HIDE DEF q
<1>10. L!SpentInAll(q) + -r = t
  BY <1>0, <1>1, <1>4, <1>5, <1>6, <1>7, <1>9
<1>11. Same(p, q) /\ SameSkill(p, q) /\ SameLevel(p, q) /\ q.magicPercent = p.magicPercent
  BY <1>0, <1>5 DEF Same, SameSkill, SameLevel
<1> HIDE DEF r, n
<1>12. [p |-> q, left |-> r] \in MagicWay(p, t, FALSE)
  BY <1>4, <1>5, <1>10, <1>11 DEF MagicWay
<1>13. q.magic < x.p.magic
  BY <1>1, <1>5
<1>14. L!MagicDown(x).p = q
  BY <1>3
<1> QED BY <1>3, <1>12, <1>13, <1>14

LEMMA MagicDownDone ==
  ASSUME NEW x \in [p : PlayerSet, left : Nat], L!MagicDown(x) = x
  PROVE  x.left <= x.p.spent \/ x.p.magic = 0
<1>1. x.p.magic \in Int /\ x.p.spent \in Nat /\ x.left \in Nat /\ x.p.magic >= 0
  BY DEF PlayerSet
<1> SUFFICES ASSUME x.left > x.p.spent /\ x.p.magic > 0 PROVE FALSE
  BY <1>1
<1>2. L!MagicDown(x).p = [x.p EXCEPT !.magic = @ - 1, !.spent = ReqMana[x.p.voc][x.p.magic]]
  BY DEF L!MagicDown
<1> DEFINE y == x.p
<1>3. y \in PlayerSet /\ y.magic \in Int
  BY <1>1
<1>4. y = [y EXCEPT !.magic = @ - 1, !.spent = ReqMana[y.voc][y.magic]]
  BY <1>2
<1> HIDE DEF y
<1>5. y.magic = y.magic - 1
  BY <1>3, <1>4 DEF PlayerSet
<1> QED BY <1>3, <1>5

LEMMA MagicPercentIs == ASSUME L!LevelsAssumption, NEW r \in PlayerSet PROVE L!MagicPercent(r) \in 0 .. 100
<1>1. r.voc \in Vocs /\ r.magic \in 0 .. MaxMagic /\ r.spent \in Nat /\ MaxMagic \in Nat
  BY FieldsOf, TurnsAre
<1>2. r.magic + 1 \in 0 .. MaxMagic + 1
  BY <1>1
<1>3. L!NextMana(r) \in Nat
  BY <1>1, <1>2, ManaTable DEF L!NextMana
<1> DEFINE c == r.spent
           k == L!NextMana(r)
<1>4. c \in Int /\ c >= 0 /\ k \in Int /\ k >= 0
  BY <1>1, <1>3
<1>5. L!MagicPercent(r) = IF L!MaxMagicReached(r) THEN 0 ELSE L!GetPercentLevel(c, k)
  BY DEF L!MagicPercent
<1> HIDE DEF c, k
<1>6. L!GetPercentLevel(c, k) \in 0 .. 100
  BY <1>4, PercentIs
<1> QED BY <1>5, <1>6

\* What is gained counts, unless the greatest level is reached.
LEMMA ManaAdded ==
  ASSUME L!LevelsAssumption, NEW p \in PlayerSet, NEW n \in Nat, NEW q, q = L!AddManaSpent(p, n)
  PROVE  /\ q \in PlayerSet /\ Same(p, q) /\ SameSkill(p, q) /\ SameLevel(p, q)
         /\ ~L!MaxMagicReached(q) => L!SpentInAll(q) = L!SpentInAll(p) + n
<1> DEFINE s == [p |-> p, left |-> n]
           t == L!SpentInAll(p) + n
           X == MagicWay(p, t, TRUE)
           m == [x \in X |-> MaxMagic - x.p.magic]
           end == L!Repeat(s, L!MagicUp)
<1>1. t \in Int
  BY SpentNatural
<1>2. s \in X
  BY <1>1 DEF MagicWay, Same, SameSkill, SameLevel
<1>3. end \in X /\ L!MagicUp(end) = end
  <2>1. \A x \in X : x.p.magic \in 0 .. MaxMagic
    BY FieldsOf DEF MagicWay
  <2>2. \A x \in X : L!MagicUp(x) \in X /\ (L!MagicUp(x) = x \/ L!MagicUp(x).p.magic > x.p.magic)
    BY <1>1, MagicUpKeeps
  <2>3. \A x \in X : L!MagicUp(x) \in X /\ m[x] \in Nat /\ (L!MagicUp(x) = x \/ m[L!MagicUp(x)] < m[x])
    <3> HIDE DEF X
    <3> QED BY <2>1, <2>2, TurnsAre
  <2>4. L!Turns \in Nat /\ m[s] <= L!Turns
    <3> HIDE DEF X, s
    <3> QED BY <1>2, <2>1, TurnsAre
  <2> HIDE DEF X, m, s
  <2> QED BY <1>2, <2>3, <2>4, MagicUpEnds
<1>4. end.p \in PlayerSet /\ end.left \in Nat /\ Same(p, end.p) /\ SameSkill(p, end.p) /\ SameLevel(p, end.p)
      /\ L!SpentInAll(end.p) + end.left = t
  <2> HIDE DEF end, t
  <2> QED BY <1>3 DEF MagicWay
<1> DEFINE r == [end.p EXCEPT !.spent = @ + end.left]
<1>5. q = IF L!MaxMagicReached(p) THEN p
          ELSE IF L!MaxMagicReached(end.p) THEN end.p
          ELSE [r EXCEPT !.magicPercent = L!MagicPercent(r)]
  BY DEF L!AddManaSpent
<1> HIDE DEF end, X, s
<1>6. CASE L!MaxMagicReached(p)
  BY <1>5, <1>6 DEF Same, SameSkill, SameLevel
<1>7. CASE ~L!MaxMagicReached(p) /\ L!MaxMagicReached(end.p)
  BY <1>4, <1>5, <1>7
<1>8. CASE ~L!MaxMagicReached(p) /\ ~L!MaxMagicReached(end.p)
  <2>1. q = [r EXCEPT !.magicPercent = L!MagicPercent(r)]
    BY <1>5, <1>8
  <2>2. end.p.spent \in Nat /\ end.p.spent + end.left \in Nat
    BY <1>4, FieldsOf
  <2>3. /\ r \in PlayerSet /\ r.spent = end.p.spent + end.left /\ r.magic = end.p.magic
        /\ Same(end.p, r) /\ SameSkill(end.p, r) /\ SameLevel(end.p, r)
    <3> DEFINE e == end.p
               k == end.p.spent + end.left
    <3>1. r = SpentTo(e, k)
      BY DEF SpentTo
    <3>2. k \in Nat
      BY <2>2
    <3>3. e \in PlayerSet
      BY <1>4
    <3> HIDE DEF r, k, e
    <3>4. /\ r \in PlayerSet /\ r.spent = k /\ r.magic = e.magic
          /\ Same(e, r) /\ SameSkill(e, r) /\ SameLevel(e, r)
      BY <3>1, <3>2, <3>3, SpentSet
    <3> QED BY <3>4 DEF k, e
  <2> HIDE DEF r
  <2>4. L!MagicPercent(r) \in 0 .. 100
    BY <2>3, MagicPercentIs
  <2>5. q \in PlayerSet /\ Same(r, q) /\ SameMagic(r, q) /\ SameSkill(r, q) /\ SameLevel(r, q)
    <3> DEFINE k == L!MagicPercent(r)
    <3>1. q = MagicShown(r, k) /\ k \in 0 .. 100
      BY <2>1, <2>4 DEF MagicShown
    <3> HIDE DEF k
    <3> QED BY <2>3, <3>1, MagicPercentSet
  <2>6. L!SpentInAll(q) = t
    <3>1. q.voc = end.p.voc /\ q.magic = end.p.magic /\ q.spent = end.p.spent + end.left
      BY <2>3, <2>5 DEF Same, SameMagic
    <3>2. L!SpentInAll(q) = SumOver(ReqMana[end.p.voc], 1 .. end.p.magic) + (end.p.spent + end.left)
      BY <3>1, SpentIs
    <3>3. L!SpentInAll(end.p) = SumOver(ReqMana[end.p.voc], 1 .. end.p.magic) + end.p.spent
      BY SpentIs
    <3>4. SumOver(ReqMana[end.p.voc], 1 .. end.p.magic) \in Nat
      BY <1>4, SpentNatural
    <3> HIDE DEF t
    <3> QED BY <1>4, <2>2, <3>2, <3>3, <3>4
  <2> QED BY <1>4, <2>3, <2>5, <2>6 DEF Same, SameSkill, SameLevel
<1> QED BY <1>6, <1>7, <1>8

\* What is taken of it is taken, however many levels that are.
LEMMA ManaRemoved ==
  ASSUME L!LevelsAssumption, NEW p \in PlayerSet, NEW n \in Nat, n <= L!SpentInAll(p),
         NEW q, q = L!RemoveManaSpent(p, n)
  PROVE  /\ q \in PlayerSet /\ Same(p, q) /\ SameSkill(p, q) /\ SameLevel(p, q)
         /\ L!SpentInAll(q) = L!SpentInAll(p) - n
<1> DEFINE s == [p |-> p, left |-> n]
           t == L!SpentInAll(p) - n
           X == MagicWay(p, t, FALSE)
           m == [x \in X |-> x.p.magic]
           end == L!Repeat(s, L!MagicDown)
<1>1. t \in Int /\ t >= 0 /\ L!SpentInAll(p) \in Nat
  BY SpentNatural
<1>2. s \in X
  BY <1>1 DEF MagicWay, Same, SameSkill, SameLevel
<1>3. end \in X /\ L!MagicDown(end) = end
  <2>1. \A x \in X : x.p.magic \in 0 .. MaxMagic
    BY FieldsOf DEF MagicWay
  <2>2. \A x \in X : L!MagicDown(x) \in X /\ (L!MagicDown(x) = x \/ L!MagicDown(x).p.magic < x.p.magic)
    BY <1>1, MagicDownKeeps
  <2>3. \A x \in X : L!MagicDown(x) \in X /\ m[x] \in Nat /\ (L!MagicDown(x) = x \/ m[L!MagicDown(x)] < m[x])
    <3> HIDE DEF X
    <3> QED BY <2>1, <2>2, TurnsAre
  <2>4. L!Turns \in Nat /\ m[s] <= L!Turns
    <3> HIDE DEF X, s
    <3> QED BY <1>2, <2>1, TurnsAre
  <2> HIDE DEF X, m, s
  <2> QED BY <1>2, <2>3, <2>4, MagicDownEnds
<1> DEFINE e == end.p
<1>4. e \in PlayerSet /\ end.left \in Nat /\ Same(p, e) /\ SameSkill(p, e) /\ SameLevel(p, e)
      /\ L!SpentInAll(e) + -end.left = t
  <2> HIDE DEF end, t
  <2> QED BY <1>3 DEF MagicWay
<1>5. e.spent \in Nat /\ L!SpentInAll(e) \in Nat /\ (e.magic = 0 => L!SpentInAll(e) = e.spent) /\ e.magic \in Nat
  <2>1. e \in PlayerSet
    BY <1>4
  <2> HIDE DEF e
  <2> QED BY <2>1, SpentNatural, FieldsOf
<1>6. end.left <= e.spent \/ e.magic = 0
  <2>1. end \in [p : PlayerSet, left : Nat] /\ L!MagicDown(end) = end
    BY <1>3 DEF MagicWay
  <2> HIDE DEF end
  <2> QED BY <2>1, MagicDownDone
<1> DEFINE k == e.spent - end.left
           r == [e EXCEPT !.spent = @ - end.left]
<1>7. k \in Nat
  <2> HIDE DEF e, end, t
  <2> QED BY <1>1, <1>4, <1>5, <1>6
<1>8. r = SpentTo(e, k)
  BY DEF SpentTo
<1>9. q = IF n = 0 THEN p ELSE [r EXCEPT !.magicPercent = L!MagicPercent(r)]
  BY DEF L!RemoveManaSpent
<1> HIDE DEF r, k, e, end, X, s
<1>10. /\ r \in PlayerSet /\ r.spent = k /\ r.magic = e.magic
       /\ Same(e, r) /\ SameSkill(e, r) /\ SameLevel(e, r)
  <2>1. e \in PlayerSet
    BY <1>4
  <2> QED BY <1>7, <1>8, <2>1, SpentSet
<1>11. CASE n = 0
  BY <1>1, <1>9, <1>11 DEF Same, SameSkill, SameLevel
<1>12. CASE n # 0
  <2>1. q = [r EXCEPT !.magicPercent = L!MagicPercent(r)]
    BY <1>9, <1>12
  <2>4. L!MagicPercent(r) \in 0 .. 100
    BY <1>10, MagicPercentIs
  <2>5. q \in PlayerSet /\ Same(r, q) /\ SameMagic(r, q) /\ SameSkill(r, q) /\ SameLevel(r, q)
    <3> DEFINE j == L!MagicPercent(r)
    <3>1. q = MagicShown(r, j) /\ j \in 0 .. 100
      BY <2>1, <2>4 DEF MagicShown
    <3> HIDE DEF j
    <3> QED BY <1>10, <3>1, MagicPercentSet
  <2>6. L!SpentInAll(q) = t
    <3>1. q.voc = e.voc /\ q.magic = e.magic /\ q.spent = k
      BY <1>10, <2>5 DEF Same, SameMagic
    <3>2. L!SpentInAll(q) = SumOver(ReqMana[e.voc], 1 .. e.magic) + k
      BY <3>1, SpentIs
    <3>3. L!SpentInAll(e) = SumOver(ReqMana[e.voc], 1 .. e.magic) + e.spent
      BY SpentIs
    <3>4. SumOver(ReqMana[e.voc], 1 .. e.magic) \in Nat
      BY <1>4, SpentNatural
    <3> HIDE DEF t
    <3> QED BY <1>1, <1>4, <1>5, <3>2, <3>3, <3>4 DEF k
  <2> QED BY <1>4, <1>10, <2>5, <2>6 DEF Same, SameSkill, SameLevel
<1> QED BY <1>11, <1>12

-----------------------------------------------------------------------------
(* Tries.                                                                  *)

LEMMA TriesTable ==
  ASSUME L!LevelsAssumption, NEW v \in Vocs
  PROVE  /\ \A m \in FirstSkill .. MaxSkill + 1 : ReqTries[v][m] \in Nat
         /\ ReqTries[v][MaxSkill] >= ReqTries[v][MaxSkill + 1]
BY DEF L!LevelsAssumption, L!TablesAssumption, Vocs

LEMMA TriedIs ==
  ASSUME NEW p, NEW a PROVE L!TriedSince(p, a) = SumOver(ReqTries[p.voc], a .. p.skill) + p.tries
BY DEF L!TriedSince, SumOver

LEMMA TriedNatural ==
  ASSUME L!LevelsAssumption, NEW p \in PlayerSet
  PROVE  /\ L!TriedInAll(p) \in Nat /\ SumOver(ReqTries[p.voc], FirstSkill + 1 .. p.skill) \in Nat
         /\ p.skill = FirstSkill => L!TriedInAll(p) = p.tries
         /\ L!TriedSince(p, FirstSkill) \in Nat
<1> DEFINE w == ReqTries[p.voc]
<1>1. p.voc \in Vocs /\ p.skill \in FirstSkill .. MaxSkill /\ p.tries \in Nat /\ MaxSkill \in Nat /\ FirstSkill \in Nat
  BY FieldsOf, TurnsAre
<1>2. p.skill \in Int /\ (\A i \in FirstSkill + 1 .. p.skill : w[i] \in Nat) /\ FirstSkill + 1 \in Int
      /\ (\A i \in FirstSkill .. p.skill : w[i] \in Nat) /\ FirstSkill \in Int
  BY <1>1, TriesTable
<1> DEFINE a == FirstSkill + 1
           k == p.skill
<1>3. a \in Int /\ k \in Int /\ (\A i \in a .. k : w[i] \in Nat) /\ (k = FirstSkill => k < a)
  BY <1>2
<1>4. (\A i \in FirstSkill .. k : w[i] \in Nat) /\ FirstSkill \in Int
  BY <1>2
<1>5. L!TriedInAll(p) = SumOver(w, a .. k) + p.tries
  BY TriedIs DEF L!TriedInAll
<1>6. L!TriedSince(p, FirstSkill) = SumOver(w, FirstSkill .. k) + p.tries
  BY TriedIs
<1> HIDE DEF w, a, k
<1>7. SumOver(w, a .. k) \in Nat /\ (k < a => SumOver(w, a .. k) = 0)
  BY <1>3, SumsAreNaturals, SumFromNone
<1>8. SumOver(w, FirstSkill .. k) \in Nat
  BY <1>3, <1>4, SumsAreNaturals
<1>9. L!TriedInAll(p) \in Nat
  BY <1>1, <1>5, <1>7
<1>10. k = FirstSkill => L!TriedInAll(p) = p.tries
  BY <1>1, <1>3, <1>5, <1>7
<1>11. L!TriedSince(p, FirstSkill) \in Nat
  BY <1>1, <1>6, <1>8
<1> QED BY <1>7, <1>9, <1>10, <1>11 DEF w, a, k

LEMMA TriedUp ==
  ASSUME L!LevelsAssumption, NEW p \in PlayerSet, p.skill < MaxSkill, NEW n \in Nat, NEW q,
         q = SkillTo(p, p.skill + 1, n)
  PROVE  L!TriedInAll(q) = L!TriedInAll(p) - p.tries + L!NextTries(p) + n
<1> DEFINE w == ReqTries[p.voc]
           k == p.skill + 1
           a == FirstSkill + 1
<1>1. p.voc \in Vocs /\ p.skill \in FirstSkill .. MaxSkill /\ p.tries \in Nat /\ MaxSkill \in Nat /\ FirstSkill \in Nat
  BY FieldsOf, TurnsAre
<1>2. a \in Int /\ k \in Int /\ a <= k /\ k \in FirstSkill .. MaxSkill /\ k - 1 = p.skill
  BY <1>1
<1>3. q.voc = p.voc /\ q.skill = k /\ q.tries = n
  <2>1. q = SkillTo(p, k, n) /\ k \in FirstSkill .. MaxSkill
    BY <1>2
  <2> HIDE DEF k
  <2>2. q.skill = k /\ q.tries = n /\ Same(p, q)
    BY <2>1, SkillSet
  <2> QED BY <2>2 DEF Same
<1>4. \A i \in a .. k : w[i] \in Nat
  BY <1>1, TriesTable
<1>5. L!NextTries(p) = w[k]
  BY DEF L!NextTries
<1>6. L!TriedInAll(p) = SumOver(w, a .. k - 1) + p.tries
  BY <1>2, TriedIs DEF L!TriedInAll
<1>7. L!TriedInAll(q) = SumOver(w, a .. k) + n
  BY <1>3, TriedIs DEF L!TriedInAll
<1>8. w[k] \in Nat
  BY <1>2, <1>4
<1> HIDE DEF w, k, a
<1>9. SumOver(w, a .. k - 1) \in Int /\ SumOver(w, a .. k) = SumOver(w, a .. k - 1) + w[k]
  BY <1>2, <1>4, SumUpTo
<1>10. L!TriedInAll(q) = SumOver(w, a .. k - 1) + w[k] + n
  BY <1>7, <1>9
<1> QED BY <1>1, <1>5, <1>6, <1>8, <1>9, <1>10

SkillUpWay(p, t) ==
  {x \in [p : PlayerSet, left : Nat] :
     /\ Same(p, x.p) /\ SameMagic(p, x.p) /\ SameLevel(p, x.p) /\ x.p.magicPercent = p.magicPercent
     /\ L!TriedInAll(x.p) + x.left = t}

\* On the way down nothing is owed, or the rest of it is forgotten at the lowest skill.
SkillDownWay(p, t) ==
  {x \in [p : PlayerSet, left : Nat] :
     /\ Same(p, x.p) /\ SameMagic(p, x.p) /\ SameLevel(p, x.p) /\ x.p.magicPercent = p.magicPercent
     /\ \/ L!TriedInAll(x.p) - x.left = t
        \/ x.p.skill = FirstSkill /\ x.p.tries = 0 /\ x.left = 0 /\ t < 0}

LEMMA SkillUpKeeps ==
  ASSUME L!LevelsAssumption, NEW p \in PlayerSet, NEW t \in Int, NEW x \in SkillUpWay(p, t)
  PROVE  /\ L!SkillUp(x) \in SkillUpWay(p, t)
         /\ L!SkillUp(x) = x \/ L!SkillUp(x).p.skill > x.p.skill
<1>0. x.p \in PlayerSet /\ x.left \in Nat /\ Same(p, x.p) /\ SameMagic(p, x.p) /\ SameLevel(p, x.p)
      /\ x.p.magicPercent = p.magicPercent /\ L!TriedInAll(x.p) + x.left = t
  BY DEF SkillUpWay
<1> SUFFICES ASSUME ~L!MaxSkillReached(x.p) /\ x.p.tries + x.left >= L!NextTries(x.p)
             PROVE  /\ L!SkillUp(x) \in SkillUpWay(p, t) /\ L!SkillUp(x).p.skill > x.p.skill
  BY DEF L!SkillUp
<1>1. x.p.voc \in Vocs /\ x.p.skill \in FirstSkill .. MaxSkill /\ x.p.tries \in Nat /\ MaxSkill \in Nat /\ FirstSkill \in Nat
  BY <1>0, FieldsOf, TurnsAre
<1>2. x.p.skill < MaxSkill
  BY <1>1, TriesTable DEF L!MaxSkillReached, L!NextTries
<1> DEFINE q == [x.p EXCEPT !.skill = @ + 1, !.tries = 0]
           r == x.left - (L!NextTries(x.p) - x.p.tries)
<1>3. L!SkillUp(x) = [p |-> q, left |-> r]
  BY DEF L!SkillUp
<1>4. x.p.skill + 1 \in FirstSkill .. MaxSkill /\ 0 \in Nat
  BY <1>1, <1>2
<1>5. q \in PlayerSet /\ q.skill = x.p.skill + 1 /\ Same(x.p, q) /\ SameMagic(x.p, q) /\ SameLevel(x.p, q)
      /\ q.magicPercent = x.p.magicPercent
  <2> DEFINE k == x.p.skill + 1
  <2>1. q = SkillTo(x.p, k, 0)
    BY DEF SkillTo
  <2>2. k \in FirstSkill .. MaxSkill /\ x.p \in PlayerSet
    BY <1>0, <1>4
  <2> HIDE DEF q, k
  <2>3. q \in PlayerSet /\ q.skill = k /\ Same(x.p, q) /\ SameMagic(x.p, q) /\ SameLevel(x.p, q)
        /\ q.magicPercent = x.p.magicPercent
    BY <2>1, <2>2, SkillSet
  <2> QED BY <2>3 DEF k
<1>6. L!NextTries(x.p) \in Nat
  BY <1>1, <1>4, TriesTable DEF L!NextTries
<1>7. r \in Nat
  BY <1>0, <1>1, <1>6
<1>8. L!TriedInAll(q) = L!TriedInAll(x.p) - x.p.tries + L!NextTries(x.p) + 0
  <2>1. q = SkillTo(x.p, x.p.skill + 1, 0)
    BY DEF SkillTo
  <2>2. x.p \in PlayerSet /\ 0 \in Nat
    BY <1>0
  <2> HIDE DEF q
  <2> QED BY <1>2, <2>1, <2>2, TriedUp
<1>9. L!TriedInAll(x.p) \in Nat
  BY <1>0, TriedNatural
<1> HIDE DEF q
<1>10. L!TriedInAll(q) + r = t
  BY <1>0, <1>1, <1>6, <1>8, <1>9
<1>11. Same(p, q) /\ SameMagic(p, q) /\ SameLevel(p, q) /\ q.magicPercent = p.magicPercent
  BY <1>0, <1>5 DEF Same, SameMagic, SameLevel
<1> HIDE DEF r
<1>12. [p |-> q, left |-> r] \in SkillUpWay(p, t)
  BY <1>5, <1>7, <1>10, <1>11 DEF SkillUpWay
<1>13. q.skill > x.p.skill
  BY <1>1, <1>5
<1>14. L!SkillUp(x).p = q
  BY <1>3
<1> QED BY <1>3, <1>12, <1>13, <1>14

LEMMA SkillDownKeeps ==
  ASSUME L!LevelsAssumption, NEW p \in PlayerSet, NEW t \in Int, NEW x \in SkillDownWay(p, t), x.left > x.p.tries
  PROVE  /\ L!SkillDown(x) \in SkillDownWay(p, t)
         /\ L!SkillDown(x).p.skill < x.p.skill \/ (L!SkillDown(x).p.skill = x.p.skill /\ L!SkillDown(x).left <= L!SkillDown(x).p.tries)
<1>0. x.p \in PlayerSet /\ x.left \in Nat /\ Same(p, x.p) /\ SameMagic(p, x.p) /\ SameLevel(p, x.p)
      /\ x.p.magicPercent = p.magicPercent
  BY DEF SkillDownWay
<1>1. x.p.voc \in Vocs /\ x.p.skill \in FirstSkill .. MaxSkill /\ x.p.tries \in Nat /\ MaxSkill \in Nat /\ FirstSkill \in Nat
  BY <1>0, FieldsOf, TurnsAre
<1>2. L!TriedInAll(x.p) - x.left = t
  BY <1>0, <1>1 DEF SkillDownWay
<1>3. L!TriedInAll(x.p) \in Nat /\ (x.p.skill = FirstSkill => L!TriedInAll(x.p) = x.p.tries)
  BY <1>0, TriedNatural
<1> DEFINE y == x.p
<1>4. y \in PlayerSet
  BY <1>0
<1>5. CASE x.p.skill <= FirstSkill
  <2> DEFINE q == [x.p EXCEPT !.skill = FirstSkill, !.tries = 0]
  <2>1. L!SkillDown(x) = [p |-> q, left |-> 0]
    BY <1>0, <1>1, <1>5 DEF L!SkillDown
  <2>2. x.p.skill = FirstSkill /\ t < 0 /\ FirstSkill \in FirstSkill .. MaxSkill /\ 0 \in Nat
    BY <1>0, <1>1, <1>2, <1>3, <1>5
  <2>3. q = SkillTo(y, FirstSkill, 0)
    BY DEF SkillTo
  <2>4. L!SkillDown(x).p = q /\ L!SkillDown(x).left = 0
    BY <2>1
  <2> HIDE DEF q, y
  <2>5. q \in PlayerSet /\ q.skill = FirstSkill /\ q.tries = 0 /\ Same(y, q) /\ SameMagic(y, q) /\ SameLevel(y, q)
        /\ q.magicPercent = y.magicPercent
    BY <1>4, <2>2, <2>3, SkillSet
  <2>6. Same(p, q) /\ SameMagic(p, q) /\ SameLevel(p, q) /\ q.magicPercent = p.magicPercent
    BY <1>0, <2>5 DEF Same, SameMagic, SameLevel, y
  <2>7. [p |-> q, left |-> 0] \in SkillDownWay(p, t)
    BY <2>2, <2>5, <2>6 DEF SkillDownWay
  <2> QED BY <2>1, <2>2, <2>4, <2>5, <2>7
<1>6. CASE ~(x.p.skill <= FirstSkill)
  <2> DEFINE n == ReqTries[x.p.voc][x.p.skill]
             q == [x.p EXCEPT !.skill = @ - 1, !.tries = ReqTries[x.p.voc][x.p.skill]]
             r == x.left - x.p.tries
             k == x.p.skill - 1
  <2>1. L!SkillDown(x) = [p |-> q, left |-> r]
    BY <1>0, <1>1, <1>6 DEF L!SkillDown
  <2>2. k \in FirstSkill .. MaxSkill /\ n \in Nat /\ r \in Nat /\ k < MaxSkill /\ k + 1 = x.p.skill
    BY <1>0, <1>1, <1>6, TriesTable
  <2>3. q = SkillTo(y, k, n)
    BY DEF SkillTo
  <2>4. L!SkillDown(x).p = q
    BY <2>1
  <2>5. n = ReqTries[y.voc][k + 1] /\ y.skill = k + 1 /\ y.tries \in Nat
    BY <1>1, <2>2
  <2> HIDE DEF q, y, k, n
  <2>6. q \in PlayerSet /\ q.skill = k /\ q.tries = n /\ Same(y, q) /\ SameMagic(y, q) /\ SameLevel(y, q)
        /\ q.magicPercent = y.magicPercent
    BY <1>4, <2>2, <2>3, SkillSet
  <2>7. L!NextTries(q) = n
    BY <2>5, <2>6 DEF L!NextTries, Same
  <2> DEFINE j == y.tries
  <2>8. y = SkillTo(q, q.skill + 1, j) /\ j \in Nat
    <3>1. y = SkillTo(SkillTo(y, k, n), y.skill, y.tries)
      BY <1>4 DEF PlayerSet, SkillTo
    <3> QED BY <2>3, <2>5, <2>6, <3>1
  <2> HIDE DEF j
  <2>9. L!TriedInAll(y) = L!TriedInAll(q) - q.tries + L!NextTries(q) + j
    <3>1. q.skill < MaxSkill /\ q \in PlayerSet
      BY <2>2, <2>6
    <3> QED BY <2>8, <3>1, TriedUp
  <2>10. L!TriedInAll(q) \in Nat
    BY <2>6, TriedNatural
  <2>11. L!TriedInAll(y) - x.left = t /\ r = x.left - j /\ x.left \in Nat
    BY <1>0, <1>2 DEF y, j
  <2> HIDE DEF r
  <2>12. L!TriedInAll(q) - r = t
    BY <2>2, <2>6, <2>7, <2>8, <2>9, <2>10, <2>11
  <2>13. Same(p, q) /\ SameMagic(p, q) /\ SameLevel(p, q) /\ q.magicPercent = p.magicPercent
    BY <1>0, <2>6 DEF Same, SameMagic, SameLevel, y
  <2>14. [p |-> q, left |-> r] \in SkillDownWay(p, t)
    BY <2>2, <2>6, <2>12, <2>13 DEF SkillDownWay
  <2>15. q.skill < x.p.skill
    BY <1>1, <2>2, <2>6
  <2> QED BY <2>1, <2>4, <2>14, <2>15
<1> QED BY <1>5, <1>6

LEMMA SkillPercentIs == ASSUME L!LevelsAssumption, NEW r \in PlayerSet PROVE L!SkillPercent(r) \in 0 .. 100
<1>1. r.voc \in Vocs /\ r.skill \in FirstSkill .. MaxSkill /\ r.tries \in Nat /\ MaxSkill \in Nat /\ FirstSkill \in Nat
  BY FieldsOf, TurnsAre
<1>2. r.skill + 1 \in FirstSkill .. MaxSkill + 1
  BY <1>1
<1>3. L!NextTries(r) \in Nat
  BY <1>1, <1>2, TriesTable DEF L!NextTries
<1> DEFINE c == r.tries
           k == L!NextTries(r)
<1>4. c \in Int /\ c >= 0 /\ k \in Int /\ k >= 0
  BY <1>1, <1>3
<1>5. L!SkillPercent(r) = IF L!MaxSkillReached(r) THEN 0 ELSE L!GetPercentLevel(c, k)
  BY DEF L!SkillPercent
<1> HIDE DEF c, k
<1>6. L!GetPercentLevel(c, k) \in 0 .. 100
  BY <1>4, PercentIs
<1> QED BY <1>5, <1>6

\* How tries are counted depends on the vocation, the skill and the tries.
LEMMA SameTried ==
  ASSUME NEW p, NEW q, p.voc = q.voc, p.skill = q.skill
  PROVE  /\ L!MaxSkillReached(p) = L!MaxSkillReached(q)
         /\ p.tries = q.tries => L!SkillPercent(p) = L!SkillPercent(q) /\ L!TriedInAll(p) = L!TriedInAll(q)
<1>1. L!MaxSkillReached(p) = L!MaxSkillReached(q) /\ L!NextTries(p) = L!NextTries(q)
  BY DEF L!MaxSkillReached, L!NextTries
<1>2. p.tries = q.tries => L!SkillPercent(p) = L!SkillPercent(q)
  BY <1>1 DEF L!SkillPercent
<1>3. p.tries = q.tries => L!TriedInAll(p) = L!TriedInAll(q)
  BY TriedIs DEF L!TriedInAll
<1> QED BY <1>1, <1>2, <1>3

LEMMA SameSpent ==
  ASSUME NEW p, NEW q, p.voc = q.voc, p.magic = q.magic
  PROVE  /\ L!MaxMagicReached(p) = L!MaxMagicReached(q)
         /\ p.spent = q.spent => L!SpentInAll(p) = L!SpentInAll(q)
<1>1. L!MaxMagicReached(p) = L!MaxMagicReached(q)
  BY DEF L!MaxMagicReached, L!NextMana
<1>3. p.spent = q.spent => L!SpentInAll(p) = L!SpentInAll(q)
  BY SpentIs
<1> QED BY <1>1, <1>3

LEMMA TriesAdded ==
  ASSUME L!LevelsAssumption, NEW p \in PlayerSet, NEW n \in Nat, NEW q, q = L!AddSkillAdvance(p, n)
  PROVE  /\ q \in PlayerSet /\ Same(p, q) /\ SameMagic(p, q) /\ SameLevel(p, q)
         /\ L!MaxSkillReached(p) => q = p
         /\ ~L!MaxSkillReached(p) => q.skillPercent = L!SkillPercent(q)
         /\ ~L!MaxSkillReached(q) => L!TriedInAll(q) = L!TriedInAll(p) + n
<1> DEFINE s == [p |-> p, left |-> n]
           t == L!TriedInAll(p) + n
           X == SkillUpWay(p, t)
           m == [x \in X |-> MaxSkill - x.p.skill]
           end == L!Repeat(s, L!SkillUp)
<1>1. t \in Int /\ L!TriedInAll(p) \in Nat
  BY TriedNatural
<1>2. s \in X
  BY <1>1 DEF SkillUpWay, Same, SameMagic, SameLevel
<1>3. end \in X
  <2>1. \A x \in X : x.p.skill \in FirstSkill .. MaxSkill
    BY FieldsOf DEF SkillUpWay
  <2>2. \A x \in X : L!SkillUp(x) \in X /\ (L!SkillUp(x) = x \/ L!SkillUp(x).p.skill > x.p.skill)
    BY <1>1, SkillUpKeeps
  <2>3. \A x \in X : L!SkillUp(x) \in X /\ m[x] \in Nat /\ (L!SkillUp(x) = x \/ m[L!SkillUp(x)] < m[x])
    <3> HIDE DEF X
    <3> QED BY <2>1, <2>2, TurnsAre
  <2>4. L!Turns \in Nat /\ m[s] <= L!Turns
    <3> HIDE DEF X, s
    <3> QED BY <1>2, <2>1, TurnsAre
  <2> HIDE DEF X, m, s
  <2> QED BY <1>2, <2>3, <2>4, SkillUpEnds
<1> DEFINE e == end.p
           left == end.left
<1>4. e \in PlayerSet /\ left \in Nat /\ Same(p, e) /\ SameMagic(p, e) /\ SameLevel(p, e)
      /\ L!TriedInAll(e) + left = t
  <2> HIDE DEF end, t
  <2> QED BY <1>3 DEF SkillUpWay
<1> DEFINE k == e.tries + left
           r == IF L!MaxSkillReached(e) THEN e ELSE TriesTo(e, k)
<1>5. q = IF L!MaxSkillReached(p) THEN p ELSE SkillShown(r, L!SkillPercent(r))
  BY DEF L!AddSkillAdvance, TriesTo, SkillShown
<1>6. e.tries \in Nat /\ k \in Nat
  <2>1. e \in PlayerSet
    BY <1>4
  <2> HIDE DEF e, end
  <2>2. e.tries \in Nat
    BY <2>1, FieldsOf
  <2> QED BY <1>4, <2>2
<1>7. e \in PlayerSet
  BY <1>4
<1> HIDE DEF e, end, left, X, s
<1>8. CASE L!MaxSkillReached(p)
  <2>1. q = p
    BY <1>5, <1>8
  <2> QED BY <1>8, <2>1 DEF Same, SameMagic, SameLevel
<1>9. CASE ~L!MaxSkillReached(p)
  <2>0. q = SkillShown(r, L!SkillPercent(r))
    BY <1>5, <1>9
  <2>1. /\ r \in PlayerSet /\ Same(e, r) /\ SameMagic(e, r) /\ SameLevel(e, r) /\ r.skill = e.skill
        /\ L!MaxSkillReached(e) \/ r.tries = k
    <3>1. CASE L!MaxSkillReached(e)
      BY <1>7, <3>1 DEF Same, SameMagic, SameLevel
    <3>2. CASE ~L!MaxSkillReached(e)
      <4>1. r = TriesTo(e, k)
        BY <3>2
      <4>2. k \in Nat
        BY <1>6
      <4> HIDE DEF r, k
      <4>3. /\ r \in PlayerSet /\ Same(e, r) /\ SameMagic(e, r) /\ SameLevel(e, r) /\ r.skill = e.skill
            /\ r.tries = k
        BY <1>7, <4>1, <4>2, TriesSet
      <4> QED BY <4>3
    <3> QED BY <3>1, <3>2
  <2> HIDE DEF r
  <2>2. L!SkillPercent(r) \in 0 .. 100
    BY <2>1, SkillPercentIs
  <2>3. q \in PlayerSet /\ Same(r, q) /\ SameMagic(r, q) /\ SameLevel(r, q) /\ q.skill = r.skill /\ q.tries = r.tries
        /\ q.skillPercent = L!SkillPercent(r)
    <3> DEFINE j == L!SkillPercent(r)
    <3>1. q = SkillShown(r, j)
      BY <2>0
    <3>b. j \in 0 .. 100
      BY <2>2
    <3>a. r \in PlayerSet
      BY <2>1
    <3> HIDE DEF j, k
    <3>2. q \in PlayerSet /\ Same(r, q) /\ SameMagic(r, q) /\ SameLevel(r, q) /\ q.skill = r.skill /\ q.tries = r.tries
          /\ q.skillPercent = j
      BY <3>1, <3>a, <3>b DEF PlayerSet, SkillShown, Same, SameMagic, SameLevel
    <3> QED BY <3>2 DEF j
  <2>4. r.voc = q.voc /\ e.voc = r.voc
    BY <2>1, <2>3 DEF Same
  <2>5. L!SkillPercent(q) = L!SkillPercent(r)
    BY <2>3, <2>4, SameTried
  <2>6. Same(p, q) /\ SameMagic(p, q) /\ SameLevel(p, q)
    BY <1>4, <2>1, <2>3 DEF Same, SameMagic, SameLevel
  <2>7. ~L!MaxSkillReached(q) => L!TriedInAll(q) = t
    <3> SUFFICES ASSUME ~L!MaxSkillReached(q) PROVE L!TriedInAll(q) = t
      OBVIOUS
    <3>1. q.voc = e.voc /\ q.skill = e.skill
      BY <2>1, <2>3, <2>4
    <3>2. ~L!MaxSkillReached(e)
      BY <3>1, SameTried
    <3>3. q.tries = k
      BY <2>1, <2>3, <3>2
    <3>4. L!TriedInAll(q) = SumOver(ReqTries[e.voc], FirstSkill + 1 .. e.skill) + k
      BY <3>1, <3>3, TriedIs DEF L!TriedInAll
    <3>5. L!TriedInAll(e) = SumOver(ReqTries[e.voc], FirstSkill + 1 .. e.skill) + e.tries
      BY TriedIs DEF L!TriedInAll
    <3>6. SumOver(ReqTries[e.voc], FirstSkill + 1 .. e.skill) \in Nat
      BY <1>7, TriedNatural
    <3> HIDE DEF t
    <3> QED BY <1>4, <1>6, <3>4, <3>5, <3>6
  <2> QED BY <1>9, <2>3, <2>5, <2>6, <2>7
<1> QED BY <1>8, <1>9

LEMMA SkillDownDone ==
  ASSUME NEW x \in [p : PlayerSet, left : Nat], L!SkillDown(x) = x, FirstSkill \in Nat, MaxSkill \in Nat
  PROVE  x.left <= x.p.tries
<1>1. x.p.skill \in Int /\ x.p.tries \in Nat /\ x.left \in Nat
  BY DEF PlayerSet
<1> SUFFICES ASSUME x.left > x.p.tries PROVE FALSE
  BY <1>1
<1>2. CASE x.p.skill <= FirstSkill
  <2>1. L!SkillDown(x).left = 0
    BY <1>1, <1>2 DEF L!SkillDown
  <2> QED BY <1>1, <2>1
<1>3. CASE ~(x.p.skill <= FirstSkill)
  <2>1. L!SkillDown(x).p = [x.p EXCEPT !.skill = @ - 1, !.tries = ReqTries[x.p.voc][x.p.skill]]
    BY <1>1, <1>3 DEF L!SkillDown
  <2> DEFINE y == x.p
  <2>2. y \in PlayerSet /\ y.skill \in Int
    BY <1>1
  <2>3. y = [y EXCEPT !.skill = @ - 1, !.tries = ReqTries[y.voc][y.skill]]
    BY <2>1
  <2> HIDE DEF y
  <2>4. y.skill = y.skill - 1
    BY <2>2, <2>3 DEF PlayerSet
  <2> QED BY <2>2, <2>4
<1> QED BY <1>2, <1>3

LEMMA TriesRemoved ==
  ASSUME L!LevelsAssumption, NEW p \in PlayerSet, NEW n \in Nat, NEW q, q = L!RemoveSkillTries(p, n)
  PROVE  /\ q \in PlayerSet /\ Same(p, q) /\ SameMagic(p, q) /\ SameLevel(p, q)
         /\ L!TriedInAll(q) = L!NonNegative(L!TriedInAll(p) - n)
<1> DEFINE s == [p |-> p, left |-> n]
           t == L!TriedInAll(p) - n
           X == SkillDownWay(p, t)
           m == [x \in X |-> x.p.skill - FirstSkill + (IF x.left <= x.p.tries THEN 0 ELSE 1)]
           end == L!Repeat(s, L!SkillDown)
<1>1. t \in Int /\ L!TriedInAll(p) \in Nat
  BY TriedNatural
<1>2. s \in X
  BY <1>1 DEF SkillDownWay, Same, SameMagic, SameLevel
<1>3. end \in X /\ L!SkillDown(end) = end
  <2>1. \A x \in X : x.p.skill \in FirstSkill .. MaxSkill /\ x.left \in Nat /\ x.p.tries \in Nat
    BY FieldsOf DEF SkillDownWay
  <2>2. \A x \in X : x.left <= x.p.tries => L!SkillDown(x) = x
    BY DEF L!SkillDown
  <2>3. \A x \in X : x.left > x.p.tries =>
          /\ L!SkillDown(x) \in X
          /\ L!SkillDown(x).p.skill < x.p.skill \/ (L!SkillDown(x).p.skill = x.p.skill /\ L!SkillDown(x).left <= L!SkillDown(x).p.tries)
    BY <1>1, SkillDownKeeps
  <2>4. ASSUME NEW x \in X
        PROVE  L!SkillDown(x) \in X /\ m[x] \in Nat /\ (L!SkillDown(x) = x \/ m[L!SkillDown(x)] < m[x])
    <3>1. FirstSkill \in Nat /\ MaxSkill \in Nat
      BY TurnsAre
    <3> HIDE DEF X
    <3>2. m[x] \in Nat
      BY <2>1, <3>1
    <3>3. CASE x.left <= x.p.tries
      BY <2>2, <3>2, <3>3
    <3>4. CASE ~(x.left <= x.p.tries)
      <4> DEFINE y == L!SkillDown(x)
      <4>1. x.left > x.p.tries
        BY <2>1, <3>4
      <4>2. y \in X /\ (y.p.skill < x.p.skill \/ (y.p.skill = x.p.skill /\ y.left <= y.p.tries))
        BY <2>3, <4>1
      <4> HIDE DEF y
      <4>3. m[y] < m[x]
        BY <2>1, <3>1, <3>4, <4>2
      <4> QED BY <3>2, <4>2, <4>3 DEF y
    <3> QED BY <3>3, <3>4
  <2>5. L!Turns \in Nat /\ m[s] <= L!Turns
    <3> HIDE DEF X, s
    <3> QED BY <1>2, <2>1, TurnsAre
  <2> HIDE DEF X, m, s
  <2> QED BY <1>2, <2>4, <2>5, SkillDownEnds
<1> DEFINE e == end.p
           left == end.left
<1>4. /\ e \in PlayerSet /\ left \in Nat /\ Same(p, e) /\ SameMagic(p, e) /\ SameLevel(p, e)
      /\ L!TriedInAll(e) - left = t \/ (e.skill = FirstSkill /\ e.tries = 0 /\ left = 0 /\ t < 0)
  <2> HIDE DEF end, t
  <2> QED BY <1>3 DEF SkillDownWay
<1>5. left <= e.tries
  <2>1. end \in [p : PlayerSet, left : Nat] /\ L!SkillDown(end) = end /\ FirstSkill \in Nat /\ MaxSkill \in Nat
    BY <1>3, TurnsAre DEF SkillDownWay
  <2> HIDE DEF end
  <2> QED BY <2>1, SkillDownDone
<1>6. e.tries \in Nat /\ e.voc \in Vocs /\ e.skill \in FirstSkill .. MaxSkill
  <2>1. e \in PlayerSet
    BY <1>4
  <2> HIDE DEF e, end
  <2> QED BY <2>1, FieldsOf
<1> DEFINE k == e.tries - left
           r == [e EXCEPT !.tries = L!NonNegative(@ - left)]
           j == L!GetPercentLevel(r.tries, ReqTries[r.voc][r.skill])
<1>7. k \in Nat
  <2> HIDE DEF e, left
  <2> QED BY <1>4, <1>5, <1>6
<1>8. r = TriesTo(e, k)
  <2>1. L!NonNegative(k) = k
    <3> HIDE DEF k
    <3> QED BY <1>7 DEF L!NonNegative
  <2> HIDE DEF e, left
  <2> QED BY <2>1 DEF TriesTo
<1>9. q = SkillShown(r, j)
  BY DEF L!RemoveSkillTries, SkillShown
<1>10. e \in PlayerSet
  BY <1>4
<1> HIDE DEF r, k, e, end, left, X, s
<1>11. /\ r \in PlayerSet /\ r.tries = k /\ r.skill = e.skill
       /\ Same(e, r) /\ SameMagic(e, r) /\ SameLevel(e, r)
  BY <1>7, <1>8, <1>10, TriesSet
<1>12. j \in 0 .. 100
  <2> DEFINE c == r.tries
             b == ReqTries[r.voc][r.skill]
  <2>1. r.voc = e.voc /\ FirstSkill \in Nat /\ MaxSkill \in Nat
    BY <1>11, TurnsAre DEF Same
  <2>2. r.skill \in FirstSkill .. MaxSkill + 1 /\ r.voc \in Vocs
    BY <1>6, <1>11, <2>1
  <2>3. b \in Nat
    BY <2>2, TriesTable
  <2>4. b \in Int /\ b >= 0 /\ c \in Int /\ c >= 0
    BY <1>7, <1>11, <2>3
  <2> HIDE DEF b, c
  <2>5. L!GetPercentLevel(c, b) \in 0 .. 100
    BY <2>4, PercentIs
  <2> QED BY <2>5 DEF b, c
<1> HIDE DEF j
<1>13. q \in PlayerSet /\ Same(r, q) /\ SameMagic(r, q) /\ SameLevel(r, q) /\ q.skill = r.skill /\ q.tries = r.tries
  <2>1. r \in PlayerSet
    BY <1>11
  <2> QED BY <1>9, <1>12, <2>1 DEF PlayerSet, SkillShown, Same, SameMagic, SameLevel
<1>14. L!TriedInAll(q) = L!NonNegative(t)
  <2>1. q.voc = e.voc /\ q.skill = e.skill /\ q.tries = k
    BY <1>11, <1>13 DEF Same
  <2>2. L!TriedInAll(q) = SumOver(ReqTries[e.voc], FirstSkill + 1 .. e.skill) + k
    BY <2>1, TriedIs DEF L!TriedInAll
  <2>3. L!TriedInAll(e) = SumOver(ReqTries[e.voc], FirstSkill + 1 .. e.skill) + e.tries
    BY TriedIs DEF L!TriedInAll
  <2>4. SumOver(ReqTries[e.voc], FirstSkill + 1 .. e.skill) \in Nat /\ (e.skill = FirstSkill => L!TriedInAll(e) = e.tries)
    BY <1>10, TriedNatural
  <2>5. k = e.tries - left /\ k \in Nat
    BY <1>7 DEF k
  <2> HIDE DEF t
  <2>6. CASE L!TriedInAll(e) - left = t
    <3>1. L!TriedInAll(q) = t /\ t >= 0
      BY <1>1, <1>4, <1>6, <2>2, <2>3, <2>4, <2>5, <2>6
    <3> QED BY <1>1, <3>1 DEF L!NonNegative
  <2>7. CASE e.skill = FirstSkill /\ e.tries = 0 /\ left = 0 /\ t < 0
    <3>1. L!TriedInAll(q) = 0
      BY <2>2, <2>3, <2>4, <2>5, <2>7
    <3> QED BY <2>7, <3>1 DEF L!NonNegative
  <2> QED BY <1>4, <2>6, <2>7
<1> QED BY <1>4, <1>11, <1>13, <1>14 DEF Same, SameMagic, SameLevel

-----------------------------------------------------------------------------
(* What the levels give.                                                   *)

\* The health or the mana that level l gives to p, who chose at level c.
BodyAt(p, c, base, gain, l) ==
  base + (IF p.voc = 0 THEN gain[0] * (l - 1) ELSE gain[0] * (c - 1) + gain[p.voc] * (l - c))

HealthOk(p, c) ==
  /\ p.healthMax >= BodyAt(p, c, 150, HPGain, p.level)
  /\ BodyAt(p, c, 150, HPGain, 1) >= 0 => p.healthMax = BodyAt(p, c, 150, HPGain, p.level)
ManaOk(p, c, f) ==
  /\ p.manaMax >= BodyAt(p, c, 0, ManaGain, p.level)
  /\ ~f /\ c <= 8 => p.manaMax = L!NonNegative(BodyAt(p, c, 0, ManaGain, p.level))
  /\ p.voc = 0 => p.manaMax = BodyAt(p, c, 0, ManaGain, p.level)
Chose(p, c) == c \in Nat /\ (p.voc # 0 => c >= 8)
Risen(p, f) == ~f /\ p.voc # 0 => p.level >= 6

LEMMA GainsAre ==
  ASSUME L!LevelsAssumption, NEW v \in Vocs
  PROVE  /\ HPGain[v] \in Nat /\ ManaGain[v] \in Nat /\ HPGain[0] \in Nat /\ ManaGain[0] \in Nat /\ ManaGain[0] <= 15
         /\ v # 0 => IF ManaGain[v] > 15 THEN 7 * ManaGain[0] - ManaGain[v] = 5 ELSE 7 * ManaGain[0] >= 2 * ManaGain[v]
BY DEF L!LevelsAssumption, L!GainsAssumption, Vocs

LEMMA ProductNext == ASSUME NEW g \in Int, NEW n \in Int PROVE g * (n + 1) = g * n + g
OBVIOUS

LEMMA ProductNatural == ASSUME NEW g \in Nat, NEW n \in Nat PROVE g * n \in Nat
OBVIOUS

Steady(p, c, base, gain) ==
  \A l \in Int : /\ BodyAt(p, c, base, gain, l) \in Int
                 /\ BodyAt(p, c, base, gain, l + 1) = BodyAt(p, c, base, gain, l) + gain[p.voc]
LEMMA BodyNext ==
  ASSUME NEW p, NEW c \in Int, NEW base \in Int, NEW gain, gain[0] \in Nat, gain[p.voc] \in Nat
  PROVE  Steady(p, c, base, gain)
<1> SUFFICES ASSUME NEW l \in Int
             PROVE  /\ BodyAt(p, c, base, gain, l) \in Int
                    /\ BodyAt(p, c, base, gain, l + 1) = BodyAt(p, c, base, gain, l) + gain[p.voc]
  BY DEF Steady
<1> DEFINE g == gain[0]
           h == gain[p.voc]
<1>1. g \in Int /\ h \in Int
  OBVIOUS
<1>2. CASE p.voc = 0
  <2>1. h = g /\ (l + 1) - 1 = (l - 1) + 1 /\ l - 1 \in Int
    BY <1>2
  <2>2. BodyAt(p, c, base, gain, l) = base + g * (l - 1) /\ BodyAt(p, c, base, gain, l + 1) = base + g * ((l - 1) + 1)
    BY <1>2, <2>1 DEF BodyAt
  <2> HIDE DEF g, h
  <2>3. g * ((l - 1) + 1) = g * (l - 1) + g /\ g * (l - 1) \in Int
    BY <1>1, <2>1, ProductNext
  <2> QED BY <1>1, <2>1, <2>2, <2>3 DEF h
<1>3. CASE p.voc # 0
  <2>1. (l + 1) - c = (l - c) + 1 /\ l - c \in Int
    OBVIOUS
  <2>2. BodyAt(p, c, base, gain, l) = base + (g * (c - 1) + h * (l - c))
        /\ BodyAt(p, c, base, gain, l + 1) = base + (g * (c - 1) + h * ((l - c) + 1))
    BY <1>3, <2>1 DEF BodyAt
  <2> HIDE DEF g, h
  <2>3. h * ((l - c) + 1) = h * (l - c) + h /\ h * (l - c) \in Int /\ g * (c - 1) \in Int
    BY <1>1, <2>1, ProductNext
  <2> QED BY <1>1, <2>2, <2>3 DEF h
<1> QED BY <1>2, <1>3

LEMMA BodyGrows ==
  ASSUME NEW p, NEW c, NEW base, NEW gain, Steady(p, c, base, gain), gain[p.voc] \in Nat,
         NEW k \in Nat, NEW l \in Nat, l >= k
  PROVE  BodyAt(p, c, base, gain, k) <= BodyAt(p, c, base, gain, l)
<1> DEFINE B(i) == BodyAt(p, c, base, gain, i)
           P == {n \in Nat : B(k) <= B(k + n)}
<1>0. (\A i \in Int : B(i) \in Int) /\ (\A i \in Int : B(i + 1) = B(i) + gain[p.voc])
  BY DEF Steady
<1> HIDE DEF B
<1>1. 0 \in P
  <2>1. k + 0 = k /\ B(k) \in Int
    BY <1>0
  <2> QED BY <2>1
<1>2. ASSUME NEW n \in Nat, n \in P PROVE n + 1 \in P
  <2>1. k + n \in Int /\ k \in Int /\ k + (n + 1) = (k + n) + 1
    OBVIOUS
  <2>2. B(k + n) \in Int /\ B((k + n) + 1) = B(k + n) + gain[p.voc] /\ B(k) \in Int
    BY <1>0, <2>1
  <2>4. B(k) <= B(k + n)
    BY <1>2
  <2>5. B(k) <= B((k + n) + 1)
    BY <2>2, <2>4
  <2> QED BY <2>1, <2>5
<1>3. Nat \subseteq P
  <2> HIDE DEF P
  <2> QED BY <1>1, <1>2, AllNumbers
<1>4. l - k \in P
  BY <1>3
<1>5. k + (l - k) = l
  OBVIOUS
<1>6. B(k) <= B(l)
  BY <1>4, <1>5
<1> QED BY <1>6 DEF B

\* What makes good at level 7 what could not be taken at level 6.
LEMMA SmallMana ==
  ASSUME L!LevelsAssumption, NEW p, p.voc \in Vocs, p.voc # 0, NEW c \in Nat, c >= 8
  PROVE  /\ ManaGain[p.voc] > 15 => /\ BodyAt(p, c, 0, ManaGain, 7) <= 5
                                    /\ c = 8 => BodyAt(p, c, 0, ManaGain, 7) = 5
         /\ ManaGain[p.voc] <= 15 /\ c = 8 => BodyAt(p, c, 0, ManaGain, 6) >= 0
<1> DEFINE v == p.voc
           a == ManaGain[0]
           g == ManaGain[v]
<1>1. a \in Nat /\ g \in Nat /\ a <= 15 /\ (IF g > 15 THEN 7 * a - g = 5 ELSE 7 * a >= 2 * g)
  <2>1. v \in Vocs /\ v # 0
    OBVIOUS
  <2> HIDE DEF v
  <2> QED BY <2>1, GainsAre
<1>2. BodyAt(p, c, 0, ManaGain, 7) = a * (c - 1) + g * (7 - c) /\ BodyAt(p, c, 0, ManaGain, 6) = a * (c - 1) + g * (6 - c)
  BY <1>1 DEF BodyAt
<1> HIDE DEF a, g, v
<1>3. c = 8 => a * (c - 1) = 7 * a /\ g * (7 - c) = -g /\ g * (6 - c) = -(2 * g)
  BY <1>1
<1>4. CASE g > 15
  <2>1. 7 * a - g = 5
    BY <1>1, <1>4
  <2> DEFINE d == g - a
             e == c - 8
  <2>2. d \in Nat /\ e \in Nat /\ g = a + d /\ c = 8 + e
    BY <1>1, <1>4
  <2>3. d * e \in Nat /\ a * e \in Int
    BY <1>1, <2>2, ProductNatural
  <2> HIDE DEF d, e
  <2>4. a * (c - 1) + g * (7 - c) = 5 - d * e
    <3>1. a * (c - 1) = 7 * a + a * e
      BY <1>1, <2>2
    <3>2. g * (7 - c) = -g - a * e - d * e
      <4>1. 7 - c = -1 - e
        BY <2>2
      <4>2. (a + d) * (-1 - e) = -(a + d) - a * e - d * e
        BY <1>1, <2>2
      <4> QED BY <2>2, <4>1, <4>2
    <3> QED BY <1>1, <2>1, <2>2, <2>3, <3>1, <3>2
  <2>5. c = 8 => d * e = 0
    BY <2>2
  <2>6. BodyAt(p, c, 0, ManaGain, 7) = 5 - d * e
    BY <1>2, <2>4
  <2>7. BodyAt(p, c, 0, ManaGain, 7) <= 5 /\ (c = 8 => BodyAt(p, c, 0, ManaGain, 7) = 5)
    BY <2>3, <2>5, <2>6
  <2>8. ManaGain[p.voc] > 15 /\ ~(ManaGain[p.voc] <= 15)
    BY <1>1, <1>4 DEF g, v
  <2> QED BY <2>7, <2>8
<1>5. CASE ~(g > 15)
  <2>1. c = 8 => BodyAt(p, c, 0, ManaGain, 6) >= 0
    BY <1>1, <1>2, <1>3, <1>5
  <2>2. ~(ManaGain[p.voc] > 15)
    BY <1>5 DEF g, v
  <2> QED BY <2>1, <2>2
<1> QED BY <1>4, <1>5

-----------------------------------------------------------------------------
\* From p on the way up or down: what it was given stays with what it has.
UpWay(p, c, f) ==
  {x \in PlayerSet : /\ Same(p, x) /\ SameMagic(p, x) /\ SameSkill(p, x) /\ x.magicPercent = p.magicPercent
                     /\ x.exp = p.exp /\ ExpFor[x.level] <= x.exp
                     /\ HealthOk(x, c) /\ ManaOk(x, c, f) /\ Risen(x, f)}
DownWay(p, c, f) ==
  {x \in PlayerSet : /\ Same(p, x) /\ SameMagic(p, x) /\ SameSkill(p, x) /\ x.magicPercent = p.magicPercent
                     /\ x.exp = p.exp /\ x.exp < ExpFor[x.level + 1]
                     /\ HealthOk(x, c) /\ ManaOk(x, c, f)}

LEMMA ExpTable ==
  ASSUME L!LevelsAssumption
  PROVE  /\ MaxLevel \in Nat /\ \A n \in 1 .. MaxLevel + 1 : ExpFor[n] \in Nat
         /\ ExpFor[1] = 0
BY DEF L!LevelsAssumption, L!TablesAssumption

\* Bodies of two players of one vocation.
LEMMA SameBody ==
  ASSUME NEW p, NEW q, p.voc = q.voc, NEW c, NEW base, NEW gain, NEW l
  PROVE  BodyAt(q, c, base, gain, l) = BodyAt(p, c, base, gain, l)
BY DEF BodyAt

LEMMA BodyRookie ==
  ASSUME NEW p, p.voc = 0, NEW c, NEW base \in Int, NEW gain, gain[0] \in Nat
  PROVE  BodyAt(p, c, base, gain, 1) = base
<1>1. gain[0] * (1 - 1) = 0
  OBVIOUS
<1> QED BY <1>1 DEF BodyAt

LEMMA BothSteady ==
  ASSUME L!LevelsAssumption, NEW p \in PlayerSet, NEW c \in Nat
  PROVE  /\ Steady(p, c, 150, HPGain) /\ Steady(p, c, 0, ManaGain)
         /\ HPGain[p.voc] \in Nat /\ ManaGain[p.voc] \in Nat
<1>1. p.voc \in Vocs
  BY FieldsOf
<1>2. HPGain[p.voc] \in Nat /\ ManaGain[p.voc] \in Nat /\ HPGain[0] \in Nat /\ ManaGain[0] \in Nat
  <2> DEFINE v == p.voc
  <2>1. v \in Vocs
    BY <1>1
  <2> HIDE DEF v
  <2>2. HPGain[v] \in Nat /\ ManaGain[v] \in Nat /\ HPGain[0] \in Nat /\ ManaGain[0] \in Nat
    BY <2>1, GainsAre
  <2> QED BY <2>2 DEF v
<1>3. c \in Int /\ 150 \in Int /\ 0 \in Int
  OBVIOUS
<1>4. Steady(p, c, 150, HPGain)
  BY <1>2, <1>3, BodyNext
<1>5. Steady(p, c, 0, ManaGain)
  BY <1>2, <1>3, BodyNext
<1> QED BY <1>2, <1>4, <1>5

\* Health of one level more, of one level less.
LEMMA HealthUp ==
  ASSUME L!LevelsAssumption, NEW x \in PlayerSet, NEW c \in Nat, HealthOk(x, c),
         NEW q, q.voc = x.voc, q.level = x.level + 1, q.healthMax = x.healthMax + HPGain[x.voc]
  PROVE  HealthOk(q, c)
<1> DEFINE l == x.level
           g == HPGain[x.voc]
           B(i) == BodyAt(x, c, 150, HPGain, i)
<1>1. \A i : BodyAt(q, c, 150, HPGain, i) = B(i)
  BY SameBody
<1>2. Steady(x, c, 150, HPGain) /\ g \in Nat /\ l \in Int /\ x.healthMax \in Int
  BY BothSteady, FieldsOf
<1>3. B(l) \in Int /\ B(l + 1) = B(l) + g
  <2> HIDE DEF l
  <2> QED BY <1>2 DEF Steady
<1>4. x.healthMax >= B(l) /\ (B(1) >= 0 => x.healthMax = B(l))
  BY DEF HealthOk
<1> HIDE DEF B, l, g
<1>5. q.healthMax >= B(l + 1) /\ (B(1) >= 0 => q.healthMax = B(l + 1))
  BY <1>2, <1>3, <1>4 DEF g
<1> QED BY <1>1, <1>5 DEF HealthOk, l

LEMMA HealthDown ==
  ASSUME L!LevelsAssumption, NEW x \in PlayerSet, x.level > 1, NEW c \in Nat, HealthOk(x, c),
         NEW q, q.voc = x.voc, q.level = x.level - 1, q.healthMax = L!NonNegative(x.healthMax - HPGain[x.voc])
  PROVE  HealthOk(q, c)
<1> DEFINE l == x.level - 1
           g == HPGain[x.voc]
           B(i) == BodyAt(x, c, 150, HPGain, i)
<1>1. \A i : BodyAt(q, c, 150, HPGain, i) = B(i)
  BY SameBody
<1>2. Steady(x, c, 150, HPGain) /\ g \in Nat /\ l \in Nat /\ l >= 1 /\ l + 1 = x.level /\ x.healthMax \in Int
  <2>1. x.level \in 1 .. MaxLevel /\ x.healthMax \in Nat
    BY FieldsOf
  <2> QED BY <2>1, BothSteady
<1>3. B(l) \in Int /\ B(l + 1) = B(l) + g
  <2> HIDE DEF l
  <2> QED BY <1>2 DEF Steady
<1>4. B(1) <= B(l) /\ B(1) \in Int
  <2>1. BodyAt(x, c, 150, HPGain, 1) <= BodyAt(x, c, 150, HPGain, l)
    <3> HIDE DEF l
    <3> QED BY <1>2, BodyGrows
  <2> QED BY <1>2, <2>1 DEF Steady
<1>5. x.healthMax >= B(l + 1) /\ (B(1) >= 0 => x.healthMax = B(l + 1))
  BY <1>2 DEF HealthOk
<1> HIDE DEF B, l
<1>6. q.healthMax >= B(l) /\ (B(1) >= 0 => q.healthMax = B(l))
  <2>1. q.healthMax = L!NonNegative(x.healthMax - g)
    OBVIOUS
  <2> HIDE DEF g
  <2> QED BY <1>2, <1>3, <1>4, <1>5, <2>1 DEF L!NonNegative
<1> QED BY <1>1, <1>6 DEF HealthOk, l

\* Mana of one level more: a mage gets 5 at level 6, which is what makes it good.
LEMMA ManaOfIs ==
  ASSUME NEW x
  PROVE  L!ManaOf(x) = IF ManaGain[x.voc] > 15 /\ x.level = 6 THEN 5 ELSE ManaGain[x.voc]
BY DEF L!ManaOf

LEMMA ManaUp ==
  ASSUME L!LevelsAssumption, NEW x \in PlayerSet, NEW c, NEW f, Chose(x, c), Risen(x, f), ManaOk(x, c, f),
         NEW q, q.voc = x.voc, q.level = x.level + 1, q.manaMax = x.manaMax + L!ManaOf(x)
  PROVE  ManaOk(q, c, f)
<1> DEFINE l == x.level
           g == ManaGain[x.voc]
           B(i) == BodyAt(x, c, 0, ManaGain, i)
           m == x.manaMax
           v == x.voc
<1>0. c \in Nat
  BY DEF Chose
<1>1. \A i : BodyAt(q, c, 0, ManaGain, i) = B(i)
  BY SameBody
<1>2. Steady(x, c, 0, ManaGain) /\ g \in Nat /\ l \in Nat /\ l >= 1 /\ m \in Nat /\ v \in Vocs /\ MaxLevel \in Nat
  <2>1. x.level \in 1 .. MaxLevel
    BY FieldsOf
  <2> QED BY <1>0, <2>1, BothSteady, FieldsOf, ExpTable
<1>3. B(l) \in Int /\ B(l + 1) = B(l) + g /\ B(7) = B(6) + g /\ B(6) \in Int /\ B(7) \in Int
  <2>1. \A i \in Int : B(i) \in Int /\ B(i + 1) = B(i) + g
    BY <1>2 DEF Steady
  <2>2. l \in Int /\ 6 \in Int /\ 7 \in Int /\ 6 + 1 = 7
    BY <1>2
  <2> HIDE DEF l, B
  <2> QED BY <2>1, <2>2
<1>4. /\ m >= B(l)
      /\ ~f /\ c <= 8 => m = L!NonNegative(B(l))
      /\ v = 0 => m = B(l)
  BY DEF ManaOk
<1>5. v # 0 => c >= 8 /\ (~f => l >= 6)
  BY DEF Chose, Risen
<1>6. v # 0 => /\ g > 15 => B(7) <= 5 /\ (c = 8 => B(7) = 5)
               /\ g <= 15 /\ c = 8 => B(6) >= 0
  BY <1>0, <1>2, <1>5, SmallMana
<1>7. v = 0 => g <= 15
  <2>1. 0 \in Vocs
    BY DEF Vocs
  <2> QED BY <2>1, GainsAre
<1>8. /\ l >= 6 => B(6) <= B(l)
      /\ l >= 7 => B(7) <= B(l)
  <2>1. 6 \in Nat /\ 7 \in Nat
    OBVIOUS
  <2>2. l >= 6 => BodyAt(x, c, 0, ManaGain, 6) <= BodyAt(x, c, 0, ManaGain, l)
    <3> HIDE DEF l
    <3> QED BY <1>2, <2>1, BodyGrows
  <2>3. l >= 7 => BodyAt(x, c, 0, ManaGain, 7) <= BodyAt(x, c, 0, ManaGain, l)
    <3> HIDE DEF l
    <3> QED BY <1>2, <2>1, BodyGrows
  <2> QED BY <2>2, <2>3
<1>9. q.manaMax = m + (IF g > 15 /\ l = 6 THEN 5 ELSE g)
  BY ManaOfIs
<1>10. v = 0 => B(l) >= 0
  <2>1. B(1) <= B(l)
    <3>1. BodyAt(x, c, 0, ManaGain, 1) <= BodyAt(x, c, 0, ManaGain, l)
      <4>1. 1 \in Nat
        OBVIOUS
      <4> HIDE DEF l
      <4> QED BY <1>2, <4>1, BodyGrows
    <3> QED BY <3>1
  <2>2. v = 0 => B(1) = 0
    <3>1. 0 \in Int /\ 0 \in Vocs
      BY DEF Vocs
    <3>2. ManaGain[0] \in Nat
      BY <3>1, GainsAre
    <3> QED BY <3>1, <3>2, BodyRookie
  <2> HIDE DEF B, l
  <2> QED BY <1>3, <2>1, <2>2
<1> HIDE DEF B, l, g, m, v
<1>11. /\ q.manaMax >= B(l + 1)
       /\ v = 0 => q.manaMax = B(l + 1)
  <2>1. CASE g > 15 /\ l = 6
    <3>1. v # 0 /\ q.manaMax = m + 5 /\ B(l + 1) <= 5
      BY <1>2, <1>3, <1>6, <1>7, <1>9, <2>1
    <3> QED BY <1>2, <1>3, <2>1, <3>1
  <2>2. CASE ~(g > 15 /\ l = 6)
    <3>1. q.manaMax = m + g
      BY <1>9, <2>2
    <3> QED BY <1>2, <1>3, <1>4, <3>1
  <2> QED BY <2>1, <2>2
<1>12. ASSUME ~f, c <= 8 PROVE q.manaMax = L!NonNegative(B(l + 1))
  <2>1. m = L!NonNegative(B(l))
    BY <1>4, <1>12
  <2>2. CASE v = 0
    <3>1. q.manaMax = B(l + 1) /\ B(l + 1) >= 0 /\ B(l + 1) \in Int
      BY <1>2, <1>3, <1>10, <1>11, <2>2
    <3> QED BY <3>1 DEF L!NonNegative
  <2>3. CASE v # 0 /\ g > 15 /\ l = 6
    <3>1. q.manaMax = m + 5 /\ B(l + 1) = 5 /\ B(l) = 5 - g /\ B(l) < 0
      BY <1>0, <1>2, <1>3, <1>5, <1>6, <1>9, <1>12, <2>3
    <3>2. m = 0
      BY <2>1, <3>1 DEF L!NonNegative
    <3> QED BY <3>1, <3>2 DEF L!NonNegative
  <2>4. CASE v # 0 /\ g > 15 /\ l # 6
    <3>1. l >= 7 /\ q.manaMax = m + g /\ B(7) = 5
      BY <1>0, <1>2, <1>5, <1>6, <1>9, <1>12, <2>4
    <3>2. B(l) >= 0
      BY <1>3, <1>8, <3>1
    <3>3. m = B(l)
      BY <1>3, <2>1, <3>2 DEF L!NonNegative
    <3> QED BY <1>2, <1>3, <3>1, <3>2, <3>3 DEF L!NonNegative
  <2>5. CASE v # 0 /\ ~(g > 15)
    <3>1. l >= 6 /\ q.manaMax = m + g /\ B(6) >= 0
      BY <1>0, <1>2, <1>5, <1>6, <1>9, <1>12, <2>5
    <3>2. B(l) >= 0
      BY <1>3, <1>8, <3>1
    <3>3. m = B(l)
      BY <1>3, <2>1, <3>2 DEF L!NonNegative
    <3> QED BY <1>2, <1>3, <3>1, <3>2, <3>3 DEF L!NonNegative
  <2> QED BY <2>2, <2>3, <2>4, <2>5
<1> QED BY <1>1, <1>11, <1>12 DEF ManaOk, l, v

LEMMA ManaDown ==
  ASSUME L!LevelsAssumption, NEW x \in PlayerSet, x.level > 1, NEW c \in Nat, NEW f, ManaOk(x, c, f),
         NEW q, q.voc = x.voc, q.level = x.level - 1, q.manaMax = L!NonNegative(x.manaMax - ManaGain[x.voc])
  PROVE  ManaOk(q, c, f)
<1> DEFINE l == x.level - 1
           g == ManaGain[x.voc]
           B(i) == BodyAt(x, c, 0, ManaGain, i)
           m == x.manaMax
           v == x.voc
<1>1. \A i : BodyAt(q, c, 0, ManaGain, i) = B(i)
  BY SameBody
<1>2. Steady(x, c, 0, ManaGain) /\ g \in Nat /\ l \in Nat /\ l >= 1 /\ l + 1 = x.level /\ m \in Nat
  <2>1. x.level \in 1 .. MaxLevel /\ x.manaMax \in Nat /\ MaxLevel \in Nat
    BY FieldsOf, ExpTable
  <2> QED BY <2>1, BothSteady
<1>3. B(l) \in Int /\ B(l + 1) = B(l) + g
  <2> HIDE DEF l
  <2> QED BY <1>2 DEF Steady
<1>4. /\ m >= B(l + 1)
      /\ ~f /\ c <= 8 => m = L!NonNegative(B(l + 1))
      /\ v = 0 => m = B(l + 1)
  BY <1>2 DEF ManaOk
<1>5. v = 0 => B(l) >= 0
  <2>1. B(1) <= B(l)
    <3>1. BodyAt(x, c, 0, ManaGain, 1) <= BodyAt(x, c, 0, ManaGain, l)
      <4>1. 1 \in Nat
        OBVIOUS
      <4> HIDE DEF l
      <4> QED BY <1>2, <4>1, BodyGrows
    <3> QED BY <3>1
  <2>2. v = 0 => B(1) = 0
    <3>1. 0 \in Int /\ 0 \in Vocs
      BY DEF Vocs
    <3>2. ManaGain[0] \in Nat
      BY <3>1, GainsAre
    <3> QED BY <3>1, <3>2, BodyRookie
  <2> HIDE DEF B, l
  <2> QED BY <1>3, <2>1, <2>2
<1> HIDE DEF B, l, m, v
<1>6. /\ q.manaMax >= B(l)
      /\ ~f /\ c <= 8 => q.manaMax = L!NonNegative(B(l))
      /\ v = 0 => q.manaMax = B(l)
  <2>1. q.manaMax = L!NonNegative(m - g)
    BY DEF m
  <2> HIDE DEF g
  <2> QED BY <1>2, <1>3, <1>4, <1>5, <2>1 DEF L!NonNegative
<1> QED BY <1>1, <1>6 DEF ManaOk, l, v

LEMMA LevelUpKeeps ==
  ASSUME L!LevelsAssumption, NEW p \in PlayerSet, NEW c, NEW f, Chose(p, c), p.exp < ExpFor[MaxLevel + 1],
         NEW x \in UpWay(p, c, f), x.exp >= ExpFor[x.level + 1]
  PROVE  /\ L!LevelUp(x) \in UpWay(p, c, f)
         /\ L!LevelUp(x).level = x.level + 1
<1> DEFINE q == L!LevelUp(x)
           v == x.voc
           h == x.healthMax + HPGain[v]
           m == x.manaMax + L!ManaOf(x)
           l == x.level + 1
<1>1. /\ x \in PlayerSet /\ Same(p, x) /\ SameMagic(p, x) /\ SameSkill(p, x) /\ x.magicPercent = p.magicPercent
      /\ x.exp = p.exp /\ ExpFor[x.level] <= x.exp
      /\ HealthOk(x, c) /\ ManaOk(x, c, f) /\ Risen(x, f)
  BY DEF UpWay
<1>2. x.level \in 1 .. MaxLevel /\ x.healthMax \in Nat /\ x.manaMax \in Nat /\ v \in Vocs /\ x.exp \in Nat
      /\ MaxLevel \in Nat /\ c \in Nat
  BY <1>1, FieldsOf, ExpTable DEF Chose
<1>3. l \in 1 .. MaxLevel
  <2>1. ExpFor[x.level + 1] \in Nat /\ ExpFor[MaxLevel + 1] \in Nat
    BY <1>2, ExpTable
  <2>2. x.level # MaxLevel
    BY <1>1, <1>2, <2>1
  <2> QED BY <1>2, <2>2
<1>4. h \in Nat /\ m \in Nat
  <2>1. HPGain[v] \in Nat /\ ManaGain[v] \in Nat
    BY <1>1, <1>2, BothSteady
  <2>2. L!ManaOf(x) \in Nat
    BY <2>1, ManaOfIs
  <2> QED BY <1>2, <2>1, <2>2
<1>5. q = LevelTo(x, l, h, m)
  BY DEF L!LevelUp, LevelTo
<1>6. x \in PlayerSet
  BY <1>1
<1> HIDE DEF q, h, m, l
<1>7. /\ q \in PlayerSet /\ q.level = l /\ q.healthMax = h /\ q.manaMax = m /\ q.exp = x.exp
      /\ Same(x, q) /\ SameMagic(x, q) /\ SameSkill(x, q) /\ q.magicPercent = x.magicPercent
  <2>1. l \in 1 .. MaxLevel
    BY <1>3
  <2>2. h \in Nat
    BY <1>4
  <2>3. m \in Nat
    BY <1>4
  <2>4. LevelTo(x, l, h, m) \in PlayerSet
    BY <1>6, <2>1, <2>2, <2>3 DEF PlayerSet, LevelTo
  <2> QED BY <1>5, <1>6, <2>4 DEF PlayerSet, LevelTo, Same, SameMagic, SameSkill
<1>8. q.voc = x.voc /\ q.level = x.level + 1
  BY <1>7 DEF Same, l
<1>9. HealthOk(q, c)
  <2>1. q.healthMax = x.healthMax + HPGain[x.voc]
    BY <1>7 DEF h
  <2> QED BY <1>1, <1>2, <1>8, <2>1, HealthUp
<1>10. ManaOk(q, c, f)
  <2>1. q.manaMax = x.manaMax + L!ManaOf(x)
    BY <1>7 DEF m
  <2>2. Chose(x, c)
    BY <1>1 DEF Chose, Same
  <2> QED BY <1>1, <1>8, <2>1, <2>2, ManaUp
<1>11. Risen(q, f)
  BY <1>1, <1>2, <1>8 DEF Risen
<1>12. Same(p, q) /\ SameMagic(p, q) /\ SameSkill(p, q)
  BY <1>1, <1>7 DEF Same, SameMagic, SameSkill
<1>13. ExpFor[q.level] <= q.exp /\ q.exp = p.exp /\ q.magicPercent = p.magicPercent
  <2>1. ExpFor[x.level + 1] \in Nat
    BY <1>2, ExpTable
  <2> QED BY <1>1, <1>2, <1>7, <1>8, <2>1
<1>14. q \in UpWay(p, c, f)
  BY <1>7, <1>9, <1>10, <1>11, <1>12, <1>13 DEF UpWay
<1> QED BY <1>8, <1>14 DEF q

LEMMA LevelDownKeeps ==
  ASSUME L!LevelsAssumption, NEW p \in PlayerSet, NEW c \in Nat, NEW f,
         NEW x \in DownWay(p, c, f), x.level > 1, x.exp < ExpFor[x.level]
  PROVE  /\ L!LevelDown(x) \in DownWay(p, c, f)
         /\ L!LevelDown(x).level = x.level - 1
<1> DEFINE q == L!LevelDown(x)
           v == x.voc
           h == L!NonNegative(x.healthMax - HPGain[v])
           m == L!NonNegative(x.manaMax - ManaGain[v])
           l == x.level - 1
<1>1. /\ x \in PlayerSet /\ Same(p, x) /\ SameMagic(p, x) /\ SameSkill(p, x) /\ x.magicPercent = p.magicPercent
      /\ x.exp = p.exp
      /\ HealthOk(x, c) /\ ManaOk(x, c, f)
  BY DEF DownWay
<1>2. x.level \in 1 .. MaxLevel /\ x.healthMax \in Nat /\ x.manaMax \in Nat /\ v \in Vocs /\ x.exp \in Nat
      /\ MaxLevel \in Nat
  BY <1>1, FieldsOf, ExpTable
<1>3. l \in 1 .. MaxLevel /\ l + 1 = x.level
  BY <1>2
<1>4. h \in Nat /\ m \in Nat
  <2>1. HPGain[v] \in Nat /\ ManaGain[v] \in Nat
    BY <1>1, <1>2, BothSteady
  <2> HIDE DEF v
  <2>2. x.healthMax - HPGain[v] \in Int /\ x.manaMax - ManaGain[v] \in Int
    BY <1>2, <2>1
  <2> QED BY <2>2 DEF L!NonNegative
<1>5. q = LevelTo(x, l, h, m)
  BY DEF L!LevelDown, LevelTo
<1>6. x \in PlayerSet
  BY <1>1
<1> HIDE DEF q, h, m, l
<1>7. /\ q \in PlayerSet /\ q.level = l /\ q.healthMax = h /\ q.manaMax = m /\ q.exp = x.exp
      /\ Same(x, q) /\ SameMagic(x, q) /\ SameSkill(x, q) /\ q.magicPercent = x.magicPercent
  <2>1. l \in 1 .. MaxLevel
    BY <1>3
  <2>2. h \in Nat
    BY <1>4
  <2>3. m \in Nat
    BY <1>4
  <2>4. LevelTo(x, l, h, m) \in PlayerSet
    BY <1>6, <2>1, <2>2, <2>3 DEF PlayerSet, LevelTo
  <2> QED BY <1>5, <1>6, <2>4 DEF PlayerSet, LevelTo, Same, SameMagic, SameSkill
<1>8. q.voc = x.voc /\ q.level = x.level - 1
  BY <1>7 DEF Same, l
<1>9. HealthOk(q, c)
  <2>1. q.healthMax = L!NonNegative(x.healthMax - HPGain[x.voc])
    BY <1>7 DEF h
  <2> QED BY <1>1, <1>2, <1>8, <2>1, HealthDown
<1>10. ManaOk(q, c, f)
  <2>1. q.manaMax = L!NonNegative(x.manaMax - ManaGain[x.voc])
    BY <1>7 DEF m
  <2> QED BY <1>1, <1>8, <2>1, ManaDown
<1>12. Same(p, q) /\ SameMagic(p, q) /\ SameSkill(p, q)
  BY <1>1, <1>7 DEF Same, SameMagic, SameSkill
<1>13. q.exp < ExpFor[q.level + 1] /\ q.exp = p.exp /\ q.magicPercent = p.magicPercent
  BY <1>1, <1>3, <1>7, <1>8
<1>14. q \in DownWay(p, c, f)
  BY <1>7, <1>9, <1>10, <1>12, <1>13 DEF DownWay
<1> QED BY <1>8, <1>14 DEF q

LEMMA LevelPercentIs ==
  ASSUME L!LevelsAssumption, NEW r \in PlayerSet, ExpFor[r.level] <= r.exp, r.exp < ExpFor[r.level + 1]
  PROVE  L!LevelPercent(r) \in 0 .. 100
<1> DEFINE a == r.exp - ExpFor[r.level]
           b == ExpFor[r.level + 1] - ExpFor[r.level]
<1>1. r.level \in 1 .. MaxLevel /\ r.exp \in Nat /\ MaxLevel \in Nat
  BY FieldsOf, ExpTable
<1>2. r.level \in 1 .. MaxLevel + 1 /\ r.level + 1 \in 1 .. MaxLevel + 1
  BY <1>1
<1>3. ExpFor[r.level] \in Nat /\ ExpFor[r.level + 1] \in Nat
  BY <1>2, ExpTable
<1>4. a \in Int /\ b \in Int /\ a >= 0 /\ b >= 0
  BY <1>1, <1>3
<1> HIDE DEF a, b
<1>5. L!GetPercentLevel(a, b) \in 0 .. 100
  BY <1>4, PercentIs
<1> QED BY <1>5 DEF L!LevelPercent, a, b

\* What is shown of a level is shown of what it is.
LEMMA PercentShown ==
  ASSUME NEW r, NEW q, r.level = q.level, r.exp = q.exp
  PROVE  L!LevelPercent(q) = L!LevelPercent(r)
BY DEF L!LevelPercent

-----------------------------------------------------------------------------
\* A level that is the level of the experience, and what it gave.
LevelOk(p) == ExpFor[p.level] <= p.exp /\ p.exp < ExpFor[p.level + 1]

LEMMA LevelUpDone ==
  ASSUME L!LevelsAssumption, NEW x \in PlayerSet, L!LevelUp(x) = x
  PROVE  x.exp < ExpFor[x.level + 1]
<1>1. x.level \in 1 .. MaxLevel /\ x.exp \in Nat /\ MaxLevel \in Nat
  BY FieldsOf, ExpTable
<1>2. ExpFor[x.level + 1] \in Nat
  BY <1>1, ExpTable
<1> SUFFICES ASSUME x.exp >= ExpFor[x.level + 1] PROVE FALSE
  BY <1>1, <1>2
<1>3. L!LevelUp(x).level = x.level + 1
  BY DEF L!LevelUp, PlayerSet
<1> QED BY <1>1, <1>3

LEMMA LevelDownDone ==
  ASSUME L!LevelsAssumption, NEW x \in PlayerSet, L!LevelDown(x) = x
  PROVE  ExpFor[x.level] <= x.exp
<1>1. x.level \in 1 .. MaxLevel /\ x.exp \in Nat /\ MaxLevel \in Nat
  BY FieldsOf, ExpTable
<1>2. ExpFor[x.level] \in Nat /\ ExpFor[1] = 0
  BY <1>1, ExpTable
<1> SUFFICES ASSUME x.exp < ExpFor[x.level] PROVE FALSE
  BY <1>1, <1>2
<1>3. x.level > 1
  BY <1>1, <1>2
<1>4. L!LevelDown(x).level = x.level - 1
  BY <1>3 DEF L!LevelDown, PlayerSet
<1> QED BY <1>1, <1>4

\* Nothing of a level that is shown of another.
LEMMA PercentRight ==
  ASSUME L!LevelsAssumption, NEW r \in PlayerSet, LevelOk(r), NEW q, q = [r EXCEPT !.percent = L!LevelPercent(r)]
  PROVE  /\ q \in PlayerSet /\ Same(r, q) /\ SameMagic(r, q) /\ SameSkill(r, q) /\ q.magicPercent = r.magicPercent
         /\ q.level = r.level /\ q.exp = r.exp /\ q.healthMax = r.healthMax /\ q.manaMax = r.manaMax
         /\ q.percent = L!LevelPercent(q)
<1> DEFINE k == L!LevelPercent(r)
<1>1. k \in 0 .. 100
  BY LevelPercentIs DEF LevelOk
<1>2. q = LevelShown(r, k)
  BY DEF LevelShown
<1> HIDE DEF k
<1>3. LevelShown(r, k) \in PlayerSet
  BY <1>1 DEF PlayerSet, LevelShown
<1>4. /\ q \in PlayerSet /\ Same(r, q) /\ SameMagic(r, q) /\ SameSkill(r, q) /\ q.magicPercent = r.magicPercent
      /\ q.level = r.level /\ q.exp = r.exp /\ q.healthMax = r.healthMax /\ q.manaMax = r.manaMax
      /\ q.percent = k
  BY <1>2, <1>3 DEF PlayerSet, LevelShown, Same, SameMagic, SameSkill
<1>5. L!LevelPercent(q) = L!LevelPercent(r)
  BY <1>4, PercentShown
<1> QED BY <1>4, <1>5 DEF k

LEMMA SameGiven ==
  ASSUME NEW r, NEW q, q.voc = r.voc, q.level = r.level, q.healthMax = r.healthMax, q.manaMax = r.manaMax, NEW c, NEW f
  PROVE  /\ HealthOk(r, c) => HealthOk(q, c)
         /\ ManaOk(r, c, f) => ManaOk(q, c, f)
         /\ Risen(r, f) => Risen(q, f)
         /\ Chose(r, c) => Chose(q, c)
BY SameBody DEF HealthOk, ManaOk, Risen, Chose

LEMMA ExpAdded ==
  ASSUME L!LevelsAssumption, NEW p \in PlayerSet, NEW c, NEW f, Chose(p, c), LevelOk(p),
         HealthOk(p, c), ManaOk(p, c, f), Risen(p, f),
         NEW n \in Nat, p.exp + n < ExpFor[MaxLevel + 1], NEW q, q = L!AddExperience(p, n)
  PROVE  /\ q \in PlayerSet /\ Same(p, q) /\ SameMagic(p, q) /\ SameSkill(p, q) /\ q.magicPercent = p.magicPercent
         /\ q.exp = p.exp + n /\ LevelOk(q) /\ q.percent = L!LevelPercent(q)
         /\ HealthOk(q, c) /\ ManaOk(q, c, f) /\ Risen(q, f)
<1> DEFINE s == [p EXCEPT !.exp = @ + n]
           X == UpWay(s, c, f)
           m == [x \in X |-> MaxLevel - x.level]
           end == L!Repeat(s, L!LevelUp)
           k == p.exp + n
<1>0. p.level \in 1 .. MaxLevel /\ p.exp \in Nat /\ k \in Nat
  BY FieldsOf
<1>1. /\ s \in PlayerSet /\ s.exp = k /\ s.level = p.level /\ s.healthMax = p.healthMax /\ s.manaMax = p.manaMax
      /\ Same(p, s) /\ SameMagic(p, s) /\ SameSkill(p, s) /\ s.magicPercent = p.magicPercent
  <2>1. s = ExpTo(p, k)
    BY DEF ExpTo
  <2>2. k \in Nat
    BY <1>0
  <2> HIDE DEF s, k
  <2>3. ExpTo(p, k) \in PlayerSet
    BY <2>2 DEF ExpTo, PlayerSet
  <2> QED BY <2>1, <2>3 DEF ExpTo, PlayerSet, Same, SameMagic, SameSkill
<1>2. s \in X
  <2> HIDE DEF s
  <2>1. s.voc = p.voc
    BY <1>1 DEF Same
  <2>2. HealthOk(s, c) /\ ManaOk(s, c, f) /\ Risen(s, f)
    BY <1>1, <2>1, SameGiven
  <2>3. ExpFor[s.level] <= s.exp
    <3>1. MaxLevel \in Nat /\ ExpFor[p.level] \in Nat /\ ExpFor[p.level] <= p.exp
      BY <1>0, ExpTable DEF LevelOk
    <3> QED BY <1>0, <1>1, <3>1
  <2>4. Same(s, s) /\ SameMagic(s, s) /\ SameSkill(s, s)
    BY DEF Same, SameMagic, SameSkill
  <2> QED BY <1>1, <2>2, <2>3, <2>4 DEF UpWay
<1>3. end \in X /\ L!LevelUp(end) = end
  <2>1. \A x \in X : x.level \in 1 .. MaxLevel
    BY FieldsOf DEF UpWay
  <2>2. ASSUME NEW x \in X PROVE L!LevelUp(x) \in X /\ (L!LevelUp(x) = x \/ L!LevelUp(x).level = x.level + 1)
    <3>1. CASE x.exp >= ExpFor[x.level + 1]
      <4>1. Chose(s, c) /\ s.exp < ExpFor[MaxLevel + 1]
        BY <1>1 DEF Chose, Same
      <4> HIDE DEF s
      <4> QED BY <1>1, <3>1, <4>1, LevelUpKeeps
    <3>2. CASE ~(x.exp >= ExpFor[x.level + 1])
      BY <3>2 DEF L!LevelUp
    <3> QED BY <3>1, <3>2
  <2>3. ASSUME NEW x \in X PROVE L!LevelUp(x) \in X /\ m[x] \in Nat /\ (L!LevelUp(x) = x \/ m[L!LevelUp(x)] < m[x])
    <3> DEFINE y == L!LevelUp(x)
    <3>1. y \in X /\ (y = x \/ y.level = x.level + 1)
      BY <2>2
    <3> HIDE DEF X, y
    <3>2. m[x] \in Nat /\ (y = x \/ m[y] < m[x])
      BY <2>1, <3>1, TurnsAre
    <3> QED BY <3>1, <3>2 DEF y
  <2>4. L!Turns \in Nat /\ m[s] <= L!Turns
    <3> HIDE DEF X, s
    <3> QED BY <1>2, <2>1, TurnsAre
  <2> HIDE DEF X, m, s
  <2> QED BY <1>2, <2>3, <2>4, LevelUpEnds
<1>4. q = [end EXCEPT !.percent = L!LevelPercent(end)]
  BY DEF L!AddExperience
<1> HIDE DEF end, s, k
<1>5. /\ end \in PlayerSet /\ Same(s, end) /\ SameMagic(s, end) /\ SameSkill(s, end) /\ end.magicPercent = s.magicPercent
      /\ end.exp = s.exp /\ ExpFor[end.level] <= end.exp
      /\ HealthOk(end, c) /\ ManaOk(end, c, f) /\ Risen(end, f)
  BY <1>3 DEF UpWay
<1>6. LevelOk(end)
  BY <1>3, <1>5, LevelUpDone DEF LevelOk
<1>7. /\ q \in PlayerSet /\ Same(end, q) /\ SameMagic(end, q) /\ SameSkill(end, q) /\ q.magicPercent = end.magicPercent
      /\ q.level = end.level /\ q.exp = end.exp /\ q.healthMax = end.healthMax /\ q.manaMax = end.manaMax
      /\ q.percent = L!LevelPercent(q)
  BY <1>4, <1>5, <1>6, PercentRight
<1>8. HealthOk(q, c) /\ ManaOk(q, c, f) /\ Risen(q, f)
  <2>1. q.voc = end.voc
    BY <1>7 DEF Same
  <2> QED BY <1>5, <1>7, <2>1, SameGiven
<1>9. LevelOk(q)
  BY <1>6, <1>7 DEF LevelOk
<1>10. Same(p, q) /\ SameMagic(p, q) /\ SameSkill(p, q)
  BY <1>1, <1>5, <1>7 DEF Same, SameMagic, SameSkill
<1>11. q.exp = p.exp + n /\ q.magicPercent = p.magicPercent
  BY <1>1, <1>5, <1>7 DEF k
<1> QED BY <1>7, <1>8, <1>9, <1>10, <1>11

LEMMA ExpRemoved ==
  ASSUME L!LevelsAssumption, NEW p \in PlayerSet, NEW c \in Nat, NEW f, LevelOk(p),
         HealthOk(p, c), ManaOk(p, c, f),
         NEW n \in Nat, NEW q, q = L!LoseLevels(p, n)
  PROVE  /\ q \in PlayerSet /\ Same(p, q) /\ SameMagic(p, q) /\ SameSkill(p, q) /\ q.magicPercent = p.magicPercent
         /\ q.exp = L!NonNegative(p.exp - n) /\ LevelOk(q) /\ q.percent = L!LevelPercent(q)
         /\ HealthOk(q, c) /\ ManaOk(q, c, f)
<1> DEFINE s == [p EXCEPT !.exp = L!NonNegative(@ - n)]
           X == DownWay(s, c, f)
           m == [x \in X |-> x.level]
           end == L!Repeat(s, L!LevelDown)
           k == L!NonNegative(p.exp - n)
<1>0. p.level \in 1 .. MaxLevel /\ p.exp \in Nat /\ k \in Nat /\ k <= p.exp
  BY FieldsOf DEF L!NonNegative
<1>1. /\ s \in PlayerSet /\ s.exp = k /\ s.level = p.level /\ s.healthMax = p.healthMax /\ s.manaMax = p.manaMax
      /\ Same(p, s) /\ SameMagic(p, s) /\ SameSkill(p, s) /\ s.magicPercent = p.magicPercent
  <2>1. s = ExpTo(p, k)
    BY DEF ExpTo
  <2>2. k \in Nat
    BY <1>0
  <2> HIDE DEF s, k
  <2>3. ExpTo(p, k) \in PlayerSet
    BY <2>2 DEF ExpTo, PlayerSet
  <2> QED BY <2>1, <2>3 DEF ExpTo, PlayerSet, Same, SameMagic, SameSkill
<1>2. s \in X
  <2> HIDE DEF s
  <2>1. s.voc = p.voc
    BY <1>1 DEF Same
  <2>2. HealthOk(s, c) /\ ManaOk(s, c, f)
    BY <1>1, <2>1, SameGiven
  <2>3. s.exp < ExpFor[s.level + 1]
    <3>1. MaxLevel \in Nat /\ p.level + 1 \in 1 .. MaxLevel + 1 /\ p.exp < ExpFor[p.level + 1]
      BY <1>0, ExpTable DEF LevelOk
    <3>2. ExpFor[p.level + 1] \in Nat
      BY <3>1, ExpTable
    <3> HIDE DEF k
    <3> QED BY <1>0, <1>1, <3>1, <3>2
  <2>4. Same(s, s) /\ SameMagic(s, s) /\ SameSkill(s, s)
    BY DEF Same, SameMagic, SameSkill
  <2> QED BY <1>1, <2>2, <2>3, <2>4 DEF DownWay
<1>3. end \in X /\ L!LevelDown(end) = end
  <2>1. \A x \in X : x.level \in 1 .. MaxLevel
    BY FieldsOf DEF DownWay
  <2>2. ASSUME NEW x \in X PROVE L!LevelDown(x) \in X /\ (L!LevelDown(x) = x \/ L!LevelDown(x).level = x.level - 1)
    <3>1. CASE x.level > 1 /\ x.exp < ExpFor[x.level]
      <4> HIDE DEF s
      <4> QED BY <1>1, <3>1, LevelDownKeeps
    <3>2. CASE ~(x.level > 1 /\ x.exp < ExpFor[x.level])
      BY <3>2 DEF L!LevelDown
    <3> QED BY <3>1, <3>2
  <2>3. ASSUME NEW x \in X PROVE L!LevelDown(x) \in X /\ m[x] \in Nat /\ (L!LevelDown(x) = x \/ m[L!LevelDown(x)] < m[x])
    <3> DEFINE y == L!LevelDown(x)
    <3>1. y \in X /\ (y = x \/ y.level = x.level - 1)
      BY <2>2
    <3> HIDE DEF X, y
    <3>2. m[x] \in Nat /\ (y = x \/ m[y] < m[x])
      BY <2>1, <3>1, TurnsAre
    <3> QED BY <3>1, <3>2 DEF y
  <2>4. L!Turns \in Nat /\ m[s] <= L!Turns
    <3> HIDE DEF X, s
    <3> QED BY <1>2, <2>1, TurnsAre
  <2> HIDE DEF X, m, s
  <2> QED BY <1>2, <2>3, <2>4, LevelDownEnds
<1>4. q = [end EXCEPT !.percent = L!LevelPercent(end)]
  BY DEF L!LoseLevels
<1> HIDE DEF end, s, k
<1>5. /\ end \in PlayerSet /\ Same(s, end) /\ SameMagic(s, end) /\ SameSkill(s, end) /\ end.magicPercent = s.magicPercent
      /\ end.exp = s.exp /\ end.exp < ExpFor[end.level + 1]
      /\ HealthOk(end, c) /\ ManaOk(end, c, f)
  BY <1>3 DEF DownWay
<1>6. LevelOk(end)
  BY <1>3, <1>5, LevelDownDone DEF LevelOk
<1>7. /\ q \in PlayerSet /\ Same(end, q) /\ SameMagic(end, q) /\ SameSkill(end, q) /\ q.magicPercent = end.magicPercent
      /\ q.level = end.level /\ q.exp = end.exp /\ q.healthMax = end.healthMax /\ q.manaMax = end.manaMax
      /\ q.percent = L!LevelPercent(q)
  BY <1>4, <1>5, <1>6, PercentRight
<1>8. HealthOk(q, c) /\ ManaOk(q, c, f)
  <2>1. q.voc = end.voc
    BY <1>7 DEF Same
  <2> QED BY <1>5, <1>7, <2>1, SameGiven
<1>9. LevelOk(q)
  BY <1>6, <1>7 DEF LevelOk
<1>10. Same(p, q) /\ SameMagic(p, q) /\ SameSkill(p, q)
  BY <1>1, <1>5, <1>7 DEF Same, SameMagic, SameSkill
<1>11. q.exp = L!NonNegative(p.exp - n) /\ q.magicPercent = p.magicPercent
  BY <1>1, <1>5, <1>7 DEF k
<1> QED BY <1>7, <1>8, <1>9, <1>10, <1>11

-----------------------------------------------------------------------------
(* Losses, loading and death.                                              *)

\* Nobody loses more than there is.
LEMMA LostPercentIs == ASSUME L!LevelsAssumption, NEW p \in PlayerSet PROVE L!GetLostPercent(p) \in 0 .. 100
<1> DEFINE b == p.blessings
           k == L!Cardinality(b)
           a == IF p.voc \in Promoted THEN 3 ELSE 0
<1>1. DeathLosePercent \in 0 .. 100 /\ IsFiniteSet(Blessings)
  <2>1. L!IsFiniteSet(Blessings) => IsFiniteSet(Blessings)
    BY DEF L!IsFiniteSet, IsFiniteSet
  <2> QED BY <2>1 DEF L!LevelsAssumption
<1>2. b \in SUBSET Blessings
  BY FieldsOf
<1>3. k = Cardinality(b)
  BY DEF L!Cardinality, Cardinality
<1> HIDE DEF k, b
<1>4. IsFiniteSet(b)
  BY <1>1, <1>2, FS_Subset
<1>5. k \in Nat
  BY <1>3, <1>4, FS_CardinalityType
<1>6. L!GetLostPercent(p) = L!NonNegative(DeathLosePercent - a - k)
  BY DEF L!GetLostPercent, k, b
<1>7. a \in Nat
  OBVIOUS
<1> HIDE DEF a
<1>8. DeathLosePercent - a - k \in Int /\ DeathLosePercent - a - k <= 100
  BY <1>1, <1>5, <1>7
<1> QED BY <1>6, <1>8 DEF L!NonNegative

LEMMA PartOf == ASSUME NEW n \in Nat, NEW c \in 0 .. 100 PROVE (n * c) \div 100 \in 0 .. n
<1>1. n * c \in Nat /\ n * (100 - c) \in Nat
  BY ProductNatural
<1>2. n * c + n * (100 - c) = n * 100
  OBVIOUS
<1> DEFINE k == n * c
           j == n * (100 - c)
<1>3. k \in Nat /\ k <= n * 100
  <2>1. k \in Nat /\ j \in Nat /\ k + j = n * 100
    BY <1>1, <1>2
  <2> HIDE DEF k, j
  <2> QED BY <2>1
<1> HIDE DEF k, j
<1>4. k \div 100 \in 0 .. n
  BY <1>3
<1> QED BY <1>4 DEF k

LEMMA LossIs == ASSUME L!LevelsAssumption, NEW p \in PlayerSet, NEW n \in Nat PROVE L!LossOf(p, n) \in 0 .. n
<1> DEFINE c == L!GetLostPercent(p)
<1>1. c \in 0 .. 100
  BY LostPercentIs
<1> HIDE DEF c
<1>2. (n * c) \div 100 \in 0 .. n
  BY <1>1, PartOf
<1> QED BY <1>2 DEF L!LossOf, c

-----------------------------------------------------------------------------
\* Who is loaded has what he had; only spent mana and tries that do not fit are cut.
LEMMA LoadedIs ==
  ASSUME L!LevelsAssumption, NEW p \in PlayerSet, LevelOk(p), NEW q, q = L!Loaded(p)
  PROVE  /\ q \in PlayerSet /\ Same(p, q) /\ q.magic = p.magic /\ q.skill = p.skill
         /\ q.level = p.level /\ q.exp = p.exp /\ q.healthMax = p.healthMax /\ q.manaMax = p.manaMax
         /\ q.percent = L!LevelPercent(q)
         /\ L!MaxSkillReached(q) \/ q.skillPercent = L!SkillPercent(q)
<1> DEFINE s == L!Fit(p.spent, L!NextMana(p))
           t == L!Fit(p.tries, L!NextTries(p))
           r == [p EXCEPT !.exp = IF @ < ExpFor[p.level] \/ @ > ExpFor[p.level + 1] THEN ExpFor[p.level] ELSE @,
                          !.spent = s, !.tries = t]
           a == L!LevelPercent(r)
           b == L!GetPercentLevel(r.spent, L!NextMana(r))
           c == L!GetPercentLevel(r.tries, L!NextTries(r))
<1>1. q = [r EXCEPT !.percent = a, !.magicPercent = b, !.skillPercent = c]
  BY DEF L!Loaded
<1>2. /\ p.level \in 1 .. MaxLevel /\ p.exp \in Nat /\ p.spent \in Nat /\ p.tries \in Nat /\ p.voc \in Vocs
      /\ p.magic \in 0 .. MaxMagic /\ p.skill \in FirstSkill .. MaxSkill
      /\ MaxLevel \in Nat /\ MaxMagic \in Nat /\ MaxSkill \in Nat /\ FirstSkill \in Nat
  BY FieldsOf, TurnsAre
<1>3. ~(p.exp < ExpFor[p.level] \/ p.exp > ExpFor[p.level + 1])
  <2>1. p.level \in 1 .. MaxLevel + 1 /\ p.level + 1 \in 1 .. MaxLevel + 1
    BY <1>2
  <2>2. ExpFor[p.level] \in Nat /\ ExpFor[p.level + 1] \in Nat
    BY <2>1, ExpTable
  <2> QED BY <1>2, <2>2 DEF LevelOk
<1>4. s \in Nat /\ t \in Nat
  BY <1>2 DEF L!Fit
<1>5. L!NextMana(p) \in Nat /\ L!NextTries(p) \in Nat
  <2>1. p.magic + 1 \in 0 .. MaxMagic + 1 /\ p.skill + 1 \in FirstSkill .. MaxSkill + 1
    BY <1>2
  <2>2. L!NextMana(p) \in Nat
    BY <1>2, <2>1, ManaTable DEF L!NextMana
  <2>3. L!NextTries(p) \in Nat
    BY <1>2, <2>1, TriesTable DEF L!NextTries
  <2> QED BY <2>2, <2>3
<1> HIDE DEF s, t
<1>6. r = [p EXCEPT !.spent = s, !.tries = t]
  BY <1>3 DEF PlayerSet
<1> HIDE DEF r
<1>7. /\ r \in PlayerSet /\ r.spent = s /\ r.tries = t
      /\ r.voc = p.voc /\ r.blessings = p.blessings /\ r.magic = p.magic /\ r.skill = p.skill
      /\ r.level = p.level /\ r.exp = p.exp /\ r.healthMax = p.healthMax /\ r.manaMax = p.manaMax
  BY <1>4, <1>6 DEF PlayerSet
<1>8. a \in 0 .. 100
  BY <1>7, LevelPercentIs DEF LevelOk
<1>9. b \in 0 .. 100
  <2> DEFINE k == L!NextMana(r)
             j == r.spent
  <2>1. k = L!NextMana(p)
    BY <1>7 DEF L!NextMana
  <2>2. k \in Int /\ k >= 0 /\ j \in Int /\ j >= 0
    BY <1>4, <1>5, <1>7, <2>1
  <2> HIDE DEF k, j
  <2>3. L!GetPercentLevel(j, k) \in 0 .. 100
    BY <2>2, PercentIs
  <2> QED BY <2>3 DEF k, j
<1>10. c \in 0 .. 100
  <2> DEFINE k == L!NextTries(r)
             j == r.tries
  <2>1. k = L!NextTries(p)
    BY <1>7 DEF L!NextTries
  <2>2. k \in Int /\ k >= 0 /\ j \in Int /\ j >= 0
    BY <1>4, <1>5, <1>7, <2>1
  <2> HIDE DEF k, j
  <2>3. L!GetPercentLevel(j, k) \in 0 .. 100
    BY <2>2, PercentIs
  <2> QED BY <2>3 DEF k, j
<1>11. a = L!LevelPercent(r) /\ c = L!GetPercentLevel(r.tries, L!NextTries(r))
  OBVIOUS
<1> HIDE DEF a, b, c
<1>12. /\ q \in PlayerSet /\ q.percent = a /\ q.skillPercent = c
       /\ q.voc = r.voc /\ q.blessings = r.blessings /\ q.magic = r.magic /\ q.skill = r.skill
       /\ q.level = r.level /\ q.exp = r.exp /\ q.healthMax = r.healthMax /\ q.manaMax = r.manaMax
       /\ q.tries = r.tries
  <2>0. r \in PlayerSet
    BY <1>7
  <2> DEFINE e == [r EXCEPT !.percent = a]
             d == [e EXCEPT !.magicPercent = b]
  <2>1. /\ e \in PlayerSet /\ e.percent = a
        /\ e.voc = r.voc /\ e.blessings = r.blessings /\ e.magic = r.magic /\ e.skill = r.skill
        /\ e.level = r.level /\ e.exp = r.exp /\ e.healthMax = r.healthMax /\ e.manaMax = r.manaMax
        /\ e.tries = r.tries
    BY <2>0, <1>8 DEF PlayerSet
  <2>2. q = [d EXCEPT !.skillPercent = c]
    BY <1>1
  <2> HIDE DEF e
  <2>3. /\ d \in PlayerSet /\ d.percent = a
        /\ d.voc = r.voc /\ d.blessings = r.blessings /\ d.magic = r.magic /\ d.skill = r.skill
        /\ d.level = r.level /\ d.exp = r.exp /\ d.healthMax = r.healthMax /\ d.manaMax = r.manaMax
        /\ d.tries = r.tries
    BY <2>1, <1>9 DEF PlayerSet
  <2> HIDE DEF d
  <2> QED BY <2>2, <2>3, <1>10 DEF PlayerSet
<1>13. L!LevelPercent(q) = L!LevelPercent(r)
  BY <1>12, PercentShown
<1>14. L!NextTries(q) = L!NextTries(r)
  BY <1>12 DEF L!NextTries
<1>15. L!MaxSkillReached(q) \/ q.skillPercent = L!SkillPercent(q)
  BY <1>11, <1>12, <1>14 DEF L!SkillPercent
<1> QED BY <1>7, <1>11, <1>12, <1>13, <1>15 DEF Same

\* A new player, and who starts again as one.
RookieShown(a, b) ==
  [voc |-> 0, level |-> 1, exp |-> 0, percent |-> a, healthMax |-> 150, manaMax |-> 0,
   magic |-> 0, spent |-> 0, magicPercent |-> b,
   skill |-> FirstSkill, tries |-> 0, skillPercent |-> 0, blessings |-> {}]
LEMMA RookedIs == ASSUME NEW p PROVE L!Rooked(p) = RookieShown(p.percent, p.magicPercent) /\ L!Rookie = RookieShown(0, 0)
<1> DEFINE a == p.percent
           b == p.magicPercent
           e == [RookieShown(0, 0) EXCEPT !.percent = a]
<1>1. L!Rookie = RookieShown(0, 0)
  BY DEF L!Rookie, RookieShown
<1>2. L!Rooked(p) = [e EXCEPT !.magicPercent = b]
  BY <1>1 DEF L!Rooked
<1> HIDE DEF a, b
<1>3. e = RookieShown(a, 0)
  BY DEF RookieShown
<1> HIDE DEF e
<1>4. [RookieShown(a, 0) EXCEPT !.magicPercent = b] = RookieShown(a, b)
  BY DEF RookieShown
<1> QED BY <1>1, <1>2, <1>3, <1>4 DEF a, b
Fresh(r) ==
  /\ r \in PlayerSet /\ r.voc = 0 /\ r.level = 1 /\ r.exp = 0 /\ r.healthMax = 150 /\ r.manaMax = 0
  /\ r.magic = 0 /\ r.spent = 0 /\ r.skill = FirstSkill /\ r.tries = 0 /\ r.skillPercent = 0
  /\ LevelOk(r) /\ \A c \in Nat : HealthOk(r, c) /\ ManaOk(r, c, FALSE) /\ ManaOk(r, c, TRUE) /\ Chose(r, c)
  /\ Risen(r, FALSE) /\ Risen(r, TRUE)
  /\ L!SpentInAll(r) = 0 /\ L!TriedInAll(r) = 0
LEMMA RookieIs ==
  ASSUME L!LevelsAssumption, NEW a \in 0 .. 100, NEW b \in 0 .. 100,
         NEW r, r = RookieShown(a, b)
  PROVE  Fresh(r)
<1>1. MaxLevel \in Nat /\ MaxMagic \in Nat /\ FirstSkill \in Nat /\ MaxSkill \in Nat /\ MaxLevel >= 1 /\ FirstSkill <= MaxSkill
  BY TurnsAre
<1>2. 0 \in Vocs /\ 1 \in 1 .. MaxLevel /\ 0 \in 0 .. MaxMagic /\ FirstSkill \in FirstSkill .. MaxSkill /\ {} \in SUBSET Blessings
  BY <1>1 DEF Vocs
<1>4. r \in PlayerSet
  BY <1>2 DEF PlayerSet, RookieShown
<1>5. /\ r.voc = 0 /\ r.level = 1 /\ r.exp = 0 /\ r.healthMax = 150 /\ r.manaMax = 0
      /\ r.magic = 0 /\ r.spent = 0 /\ r.skill = FirstSkill /\ r.tries = 0 /\ r.skillPercent = 0
  BY DEF RookieShown
<1> HIDE DEF Vocs
<1>6. LevelOk(r)
  <2>1. ExpFor[1] = 0 /\ ExpFor[2] > 0
    BY DEF L!LevelsAssumption, L!TablesAssumption
  <2>2. r.level + 1 = 2
    BY <1>5
  <2> QED BY <1>5, <2>1, <2>2 DEF LevelOk
<1>7. ASSUME NEW c \in Nat PROVE HealthOk(r, c) /\ ManaOk(r, c, FALSE) /\ ManaOk(r, c, TRUE) /\ Chose(r, c)
  <2>1. HPGain[0] \in Nat /\ ManaGain[0] \in Nat
    BY <1>2, GainsAre
  <2>2. HPGain[0] * (1 - 1) = 0 /\ ManaGain[0] * (1 - 1) = 0
    BY <2>1
  <2>3. BodyAt(r, c, 150, HPGain, 1) = 150
    BY <1>5, <2>2 DEF BodyAt
  <2>4. BodyAt(r, c, 0, ManaGain, 1) = 0
    BY <1>5, <2>2 DEF BodyAt
  <2>5. HealthOk(r, c)
    BY <1>5, <2>3 DEF HealthOk
  <2>6. ManaOk(r, c, FALSE) /\ ManaOk(r, c, TRUE)
    BY <1>5, <2>4 DEF ManaOk, L!NonNegative
  <2>7. Chose(r, c)
    BY <1>5 DEF Chose
  <2> QED BY <2>5, <2>6, <2>7
<1>8. Risen(r, FALSE) /\ Risen(r, TRUE)
  BY <1>5 DEF Risen
<1>9. L!SpentInAll(r) = 0 /\ L!TriedInAll(r) = 0
  BY <1>4, <1>5, SpentNatural, TriedNatural
<1> QED BY <1>4, <1>5, <1>6, <1>7, <1>8, <1>9 DEF Fresh

LEMMA RookieHealth ==
  ASSUME L!LevelsAssumption, NEW p \in PlayerSet, p.voc = 0, NEW c \in Nat, HealthOk(p, c)
  PROVE  p.healthMax > 0
<1> DEFINE l == p.level
<1>1. l \in Nat /\ l >= 1 /\ 1 \in Nat /\ MaxLevel \in Nat
  BY FieldsOf, ExpTable
<1>2. Steady(p, c, 150, HPGain) /\ HPGain[p.voc] \in Nat /\ p.healthMax \in Int
  BY BothSteady, FieldsOf
<1>3. BodyAt(p, c, 150, HPGain, 1) <= BodyAt(p, c, 150, HPGain, l)
  <2> HIDE DEF l
  <2> QED BY <1>1, <1>2, BodyGrows
<1>4. BodyAt(p, c, 150, HPGain, l) \in Int
  BY <1>1, <1>2 DEF Steady
<1>5. BodyAt(p, c, 150, HPGain, 1) = 150
  <2>1. HPGain[0] \in Nat
    BY <1>2
  <2>2. HPGain[0] * (1 - 1) = 0
    BY <2>1
  <2> QED BY <2>2 DEF BodyAt
<1>6. p.healthMax >= BodyAt(p, c, 150, HPGain, l)
  BY DEF HealthOk
<1> HIDE DEF l
<1> QED BY <1>2, <1>3, <1>4, <1>5, <1>6

\* A death takes its part of everything, or all of it and the vocation.
Poorer(p, r) ==
  /\ r.voc = p.voc /\ r.exp = p.exp - L!LossOf(p, p.exp)
  /\ L!SpentInAll(r) = L!SpentInAll(p) - L!LossOf(p, L!SpentInAll(p))
  /\ L!TriedInAll(r) = L!NonNegative(L!TriedInAll(p) - L!LossOf(p, L!TriedSince(p, FirstSkill)))
Again(p, r) ==
  /\ r.voc = 0 /\ p.voc # 0 /\ r.exp = 0 /\ r.spent = 0 /\ r.tries = 0 /\ r.magic = 0 /\ r.skill = FirstSkill

LEMMA PoorerIs ==
  ASSUME L!LevelsAssumption, NEW p \in PlayerSet, NEW c \in Nat, NEW f, LevelOk(p), HealthOk(p, c), ManaOk(p, c, f),
         NEW a, a = L!LossOf(p, L!SpentInAll(p)), NEW b, b = L!LossOf(p, L!TriedSince(p, FirstSkill)),
         NEW e, e = L!LossOf(p, p.exp),
         NEW d, d = L!RemoveSkillTries(L!RemoveManaSpent(p, a), b),
         NEW q, q = IF e = 0 THEN d ELSE L!LoseLevels(d, e)
  PROVE  /\ q \in PlayerSet /\ LevelOk(q) /\ HealthOk(q, c) /\ ManaOk(q, c, f) /\ Same(p, q)
         /\ Poorer(p, q)
<1>1. p.exp \in Nat /\ L!SpentInAll(p) \in Nat /\ L!TriedInAll(p) \in Nat /\ L!TriedSince(p, FirstSkill) \in Nat
  BY FieldsOf, SpentNatural, TriedNatural
<1>2. a \in 0 .. L!SpentInAll(p)
  BY <1>1, LossIs
<1>3. b \in Nat
  <2> DEFINE k == L!TriedSince(p, FirstSkill)
  <2>1. k \in Nat
    BY <1>1
  <2> HIDE DEF k
  <2>2. L!LossOf(p, k) \in 0 .. k
    BY <2>1, LossIs
  <2>3. L!LossOf(p, k) \in Nat
    BY <2>1, <2>2
  <2> QED BY <2>3 DEF k
<1>4. e \in 0 .. p.exp
  BY <1>1, LossIs
<1> DEFINE g == L!RemoveManaSpent(p, a)
<1>5. /\ g \in PlayerSet /\ Same(p, g) /\ SameSkill(p, g) /\ SameLevel(p, g)
      /\ L!SpentInAll(g) = L!SpentInAll(p) - a
  <2>1. a \in Nat /\ a <= L!SpentInAll(p)
    BY <1>1, <1>2
  <2>2. g = L!RemoveManaSpent(p, a)
    OBVIOUS
  <2> HIDE DEF g
  <2> QED BY <2>1, <2>2, ManaRemoved
<1>6. d = L!RemoveSkillTries(g, b)
  OBVIOUS
<1> HIDE DEF g
<1>7. /\ d \in PlayerSet /\ Same(g, d) /\ SameMagic(g, d) /\ SameLevel(g, d)
      /\ L!TriedInAll(d) = L!NonNegative(L!TriedInAll(g) - b)
  BY <1>3, <1>5, <1>6, TriesRemoved
<1>8. /\ Same(p, d) /\ SameLevel(p, d) /\ L!SpentInAll(d) = L!SpentInAll(p) - a
      /\ L!TriedInAll(d) = L!NonNegative(L!TriedInAll(p) - b)
  <2>1. L!SpentInAll(g) = L!SpentInAll(d)
    BY <1>7, SameSpent DEF Same, SameMagic
  <2>2. L!TriedInAll(p) = L!TriedInAll(g)
    BY <1>5, SameTried DEF Same, SameSkill
  <2> QED BY <1>5, <1>7, <2>1, <2>2 DEF Same, SameLevel
<1>9. LevelOk(d) /\ HealthOk(d, c) /\ ManaOk(d, c, f)
  <2>1. d.voc = p.voc /\ d.level = p.level /\ d.healthMax = p.healthMax /\ d.manaMax = p.manaMax /\ d.exp = p.exp
    BY <1>8 DEF Same, SameLevel
  <2> QED BY <2>1, SameGiven DEF LevelOk
<1>10. d.exp = p.exp
  BY <1>8 DEF SameLevel
<1>11. CASE e = 0
  <2>1. q = d /\ d.exp = p.exp - e
    BY <1>1, <1>10, <1>11
  <2> QED BY <1>7, <1>8, <1>9, <2>1 DEF Poorer, Same
<1>12. CASE e # 0
  <2>1. q = L!LoseLevels(d, e) /\ e \in Nat
    BY <1>1, <1>4, <1>12
  <2>2. /\ q \in PlayerSet /\ Same(d, q) /\ SameMagic(d, q) /\ SameSkill(d, q)
        /\ q.exp = L!NonNegative(d.exp - e) /\ LevelOk(q)
        /\ HealthOk(q, c) /\ ManaOk(q, c, f)
    BY <1>7, <1>9, <2>1, ExpRemoved
  <2>3. q.exp = p.exp - e
    BY <1>1, <1>4, <1>10, <2>2 DEF L!NonNegative
  <2>4. L!SpentInAll(q) = L!SpentInAll(d)
    BY <2>2, SameSpent DEF Same, SameMagic
  <2>5. L!TriedInAll(q) = L!TriedInAll(d)
    BY <2>2, SameTried DEF Same, SameSkill
  <2>6. Same(p, q)
    BY <1>8, <2>2 DEF Same
  <2> QED BY <1>8, <2>2, <2>3, <2>4, <2>5, <2>6 DEF Poorer, Same
<1> QED BY <1>11, <1>12

LEMMA DeathIs ==
  ASSUME L!LevelsAssumption, NEW p \in PlayerSet, NEW c, NEW f \in BOOLEAN, Chose(p, c), LevelOk(p), HealthOk(p, c), ManaOk(p, c, f),
         NEW r, r = L!AfterDeath(p)
  PROVE  /\ r \in PlayerSet /\ LevelOk(r) /\ HealthOk(r, c) /\ ManaOk(r, c, f) /\ Risen(r, f) /\ Chose(r, c)
         /\ Poorer(p, r) \/ Again(p, r)
<1> DEFINE a == L!LossOf(p, L!SpentInAll(p))
           b == L!LossOf(p, L!TriedSince(p, FirstSkill))
           e == L!LossOf(p, p.exp)
           d == L!RemoveSkillTries(L!RemoveManaSpent(p, a), b)
           q == IF e = 0 THEN d ELSE L!LoseLevels(d, e)
<1>1. c \in Nat
  BY DEF Chose
<1>2. /\ q \in PlayerSet /\ LevelOk(q) /\ HealthOk(q, c) /\ ManaOk(q, c, f) /\ Same(p, q)
      /\ Poorer(p, q)
  <2>1. /\ a = L!LossOf(p, L!SpentInAll(p)) /\ b = L!LossOf(p, L!TriedSince(p, FirstSkill))
        /\ e = L!LossOf(p, p.exp) /\ d = L!RemoveSkillTries(L!RemoveManaSpent(p, a), b)
        /\ q = IF e = 0 THEN d ELSE L!LoseLevels(d, e)
    OBVIOUS
  <2> HIDE DEF a, b, e, d, q
  <2> QED BY <1>1, <2>1, PoorerIs
<1>3. r = IF L!IsRooked(q) THEN L!Rooked(q) ELSE [q EXCEPT !.blessings = {}]
  BY DEF L!AfterDeath
<1> HIDE DEF q
<1>4. CASE L!IsRooked(q)
  <2>1. r = RookieShown(q.percent, q.magicPercent)
    BY <1>3, <1>4, RookedIs
  <2>2. q.percent \in 0 .. 100 /\ q.magicPercent \in 0 .. 100
    BY <1>2, FieldsOf
  <2> DEFINE i == q.percent
             j == q.magicPercent
  <2>3. r = RookieShown(i, j)
    BY <2>1
  <2>4. i \in 0 .. 100
    BY <2>2
  <2>5. j \in 0 .. 100
    BY <2>2
  <2> HIDE DEF i, j
  <2>6. /\ r \in PlayerSet /\ r.voc = 0 /\ r.exp = 0
        /\ r.magic = 0 /\ r.spent = 0 /\ r.skill = FirstSkill /\ r.tries = 0
        /\ LevelOk(r) /\ \A k \in Nat : HealthOk(r, k) /\ ManaOk(r, k, FALSE) /\ ManaOk(r, k, TRUE) /\ Chose(r, k)
        /\ Risen(r, FALSE) /\ Risen(r, TRUE)
    <3>1. Fresh(r)
      BY <2>3, <2>4, <2>5, RookieIs
    <3> QED BY <3>1 DEF Fresh
  <2>7. p.voc # 0
    <3>1. q.voc = p.voc
      BY <1>2 DEF Same
    <3>2. q.voc = 0 => q.healthMax > 0 /\ q.healthMax \in Nat
      BY <1>1, <1>2, RookieHealth, FieldsOf
    <3>3. q.voc = 0 => q.healthMax <= 0
      BY <1>4 DEF L!IsRooked
    <3> QED BY <3>1, <3>2, <3>3
  <2>8. Again(p, r)
    BY <2>6, <2>7 DEF Again
  <2>9. HealthOk(r, c) /\ ManaOk(r, c, f) /\ Risen(r, f) /\ Chose(r, c)
    <3>1. f = TRUE \/ f = FALSE
      OBVIOUS
    <3> QED BY <1>1, <2>6, <3>1
  <2> QED BY <2>6, <2>8, <2>9
<1>5. CASE ~L!IsRooked(q)
  <2>1. r = [q EXCEPT !.blessings = {}]
    BY <1>3, <1>5
  <2>2. /\ r \in PlayerSet /\ r.voc = q.voc /\ r.level = q.level /\ r.healthMax = q.healthMax /\ r.manaMax = q.manaMax
        /\ r.exp = q.exp /\ r.magic = q.magic /\ r.spent = q.spent /\ r.skill = q.skill /\ r.tries = q.tries
    <3>1. q \in PlayerSet
      BY <1>2
    <3> QED BY <2>1, <3>1 DEF PlayerSet
  <2>3. HealthOk(r, c) /\ ManaOk(r, c, f) /\ LevelOk(r)
    BY <1>2, <2>2, SameGiven DEF LevelOk
  <2>4. r.voc # 0 => r.level >= 6
    <3>1. q.level \in 1 .. MaxLevel /\ MaxLevel \in Nat /\ RookingLevel \in Nat /\ RookingLevel >= 6
      BY <1>2, FieldsOf DEF L!LevelsAssumption
    <3>2. q.voc # 0 => ~(q.level <= RookingLevel)
      BY <1>5 DEF L!IsRooked
    <3> QED BY <2>2, <3>1, <3>2
  <2>5. Chose(r, c)
    BY <1>2, <2>2 DEF Chose, Same
  <2>6. Poorer(p, r)
    <3>1. L!SpentInAll(r) = L!SpentInAll(q)
      BY <2>2, SameSpent
    <3>2. L!TriedInAll(r) = L!TriedInAll(q)
      BY <2>2, SameTried
    <3> QED BY <1>2, <2>2, <3>1, <3>2 DEF Poorer
  <2> QED BY <2>2, <2>3, <2>4, <2>5, <2>6 DEF Risen
<1> QED BY <1>4, <1>5

-----------------------------------------------------------------------------
(* The invariant of a player, which every step keeps.                      *)

\* What is as it should be of a player p that earned e and chose at level c, when f of a
\* fall and s of a percentage that was not renewed.
Ledger == [exp : Nat, mana : Nat, tries : Nat]
Counted(p, e) == p.exp = e.exp /\ L!SpentInAll(p) = e.mana /\ L!TriedInAll(p) = e.tries
Given(p, c, f) == Chose(p, c) /\ HealthOk(p, c) /\ ManaOk(p, c, f) /\ Risen(p, f)
ShownOk(p, s) ==
  /\ p.percent = L!LevelPercent(p)
  /\ s \/ L!MaxSkillReached(p) \/ p.skillPercent = L!SkillPercent(p)
LevelsGood(p, e, c, f, s) ==
  /\ p \in PlayerSet /\ e \in Ledger /\ f \in BOOLEAN /\ s \in BOOLEAN
  /\ LevelOk(p) /\ Counted(p, e) /\ Given(p, c, f) /\ ShownOk(p, s)
LevelsIInv == LevelsGood(u1, u2, u3, u4, u5)

LEMMA LevelsInvHolds == ASSUME LevelsIInv PROVE L!LevelsInv
<1> USE DEF LevelsIInv, LevelsGood
<1>1. L!LevelsTypeOK
  <2>1. /\ u1.voc \in Vocations \cup {0} /\ u1.level \in 1 .. MaxLevel
        /\ u1.magic \in 0 .. MaxMagic /\ u1.skill \in FirstSkill .. MaxSkill
        /\ u1.percent \in 0 .. 100 /\ u1.magicPercent \in 0 .. 100 /\ u1.skillPercent \in 0 .. 100
        /\ u1.exp >= 0 /\ u1.spent >= 0 /\ u1.tries >= 0 /\ u1.healthMax >= 0 /\ u1.manaMax >= 0
    BY FieldsOf DEF Vocs
  <2> QED BY <2>1 DEF L!LevelsTypeOK
<1>2. L!NothingMiscounted
  BY DEF L!NothingMiscounted, LevelOk, Counted
<1>3. L!BodyOfLevel
  <2>1. \A l : /\ L!Body(150, HPGain, l) = BodyAt(u1, u3, 150, HPGain, l)
               /\ L!Body(0, ManaGain, l) = BodyAt(u1, u3, 0, ManaGain, l)
    BY DEF L!Body, BodyAt
  <2>2. HealthOk(u1, u3) /\ ManaOk(u1, u3, u4)
    BY DEF Given
  <2> HIDE DEF LevelsIInv
  <2> QED BY <2>1, <2>2 DEF L!BodyOfLevel, HealthOk, ManaOk
<1>4. L!ShownRight
  BY DEF L!ShownRight, ShownOk
<1> QED BY <1>1, <1>2, <1>3, <1>4 DEF L!LevelsInv

LEMMA ZeroPercent == ASSUME NEW next \in Nat PROVE L!GetPercentLevel(0, next) = 0
<1>1. CASE next = 0
  BY <1>1 DEF L!GetPercentLevel
<1>2. CASE next # 0
  <2>1. 0 * 100 = 0 /\ 0 \div next = 0 /\ 0 % 256 = 0
    BY <1>2
  <2> QED BY <1>2, <2>1 DEF L!GetPercentLevel
<1> QED BY <1>1, <1>2

LEMMA LevelsInit == ASSUME L!LevelsAssumption, L!Init PROVE LevelsIInv
<1>1. Fresh(u1) /\ u1 = RookieShown(0, 0)
  <2>1. u1 = RookieShown(0, 0) /\ 0 \in 0 .. 100
    BY RookedIs DEF L!Init
  <2> QED BY <2>1, RookieIs
<1>2. u2 = [exp |-> 0, mana |-> 0, tries |-> 0] /\ u3 = 1 /\ u4 = FALSE /\ u5 = FALSE
  BY DEF L!Init
<1>3. u2 \in Ledger /\ Counted(u1, u2)
  BY <1>1, <1>2 DEF Ledger, Counted, Fresh
<1>4. Given(u1, u3, u4)
  BY <1>1, <1>2 DEF Given, Fresh
<1>5. ShownOk(u1, u5)
  <2>1. u1.percent = 0 /\ u1.skillPercent = 0 /\ u1.level = 1 /\ u1.exp = 0 /\ u1.tries = 0 /\ u1 \in PlayerSet
        /\ u1.skill = FirstSkill /\ u1.voc = 0
    BY <1>1 DEF Fresh, RookieShown
  <2>2. ExpFor[1] = 0 /\ ExpFor[2] \in Nat
    <3>1. 2 \in 1 .. MaxLevel + 1 /\ ExpFor[1] = 0
      BY TurnsAre, ExpTable
    <3> QED BY <3>1, ExpTable
  <2>3. L!LevelPercent(u1) = 0
    <3>1. u1.exp - ExpFor[u1.level] = 0 /\ ExpFor[u1.level + 1] - ExpFor[u1.level] = ExpFor[2]
      BY <2>1, <2>2
    <3> QED BY <2>2, <3>1, ZeroPercent DEF L!LevelPercent
  <2>4. L!NextTries(u1) \in Nat
    <3>1. FirstSkill + 1 \in FirstSkill .. MaxSkill + 1 /\ 0 \in Vocs
      BY TurnsAre DEF Vocs
    <3> QED BY <2>1, <3>1, TriesTable DEF L!NextTries
  <2>5. L!SkillPercent(u1) = 0
    BY <2>1, <2>4, ZeroPercent DEF L!SkillPercent
  <2> QED BY <2>1, <2>3, <2>5 DEF ShownOk
<1> QED BY <1>1, <1>2, <1>3, <1>4, <1>5 DEF LevelsIInv, LevelsGood, Fresh

-----------------------------------------------------------------------------
LEMMA GainExperienceKeeps == ASSUME L!LevelsAssumption, LevelsIInv, L!GainExperience PROVE LevelsIInv'
<1> USE DEF LevelsIInv, LevelsGood
<1>1. PICK n \in Amounts :
        /\ u1.exp + n < ExpFor[MaxLevel + 1]
        /\ u1' = L!AddExperience(u1, n)
        /\ u2' = [u2 EXCEPT !.exp = @ + n]
        /\ u3' = u3 /\ u4' = u4 /\ u5' = u5
  BY DEF L!GainExperience, L!Becomes
<1>2. n \in Nat
  BY DEF L!LevelsAssumption
<1>3. /\ u1' \in PlayerSet /\ Same(u1, u1') /\ SameMagic(u1, u1') /\ SameSkill(u1, u1')
      /\ u1'.exp = u1.exp + n /\ LevelOk(u1') /\ u1'.percent = L!LevelPercent(u1')
      /\ HealthOk(u1', u3) /\ ManaOk(u1', u3, u4) /\ Risen(u1', u4)
  BY <1>1, <1>2, ExpAdded DEF Given
<1>4. u2' \in Ledger /\ u2'.exp = u2.exp + n /\ u2'.mana = u2.mana /\ u2'.tries = u2.tries
  BY <1>1, <1>2 DEF Ledger
<1>5. Counted(u1', u2')
  <2>1. L!SpentInAll(u1) = L!SpentInAll(u1')
    BY <1>3, SameSpent DEF Same, SameMagic
  <2>2. L!TriedInAll(u1) = L!TriedInAll(u1')
    BY <1>3, SameTried DEF Same, SameSkill
  <2> QED BY <1>3, <1>4, <2>1, <2>2 DEF Counted
<1>6. Given(u1', u3', u4')
  BY <1>1, <1>3 DEF Given, Chose, Same
<1>7. ShownOk(u1', u5')
  <2>1. L!MaxSkillReached(u1) = L!MaxSkillReached(u1') /\ L!SkillPercent(u1) = L!SkillPercent(u1')
    BY <1>3, SameTried DEF Same, SameSkill
  <2> QED BY <1>1, <1>3, <2>1 DEF ShownOk, SameSkill
<1> QED BY <1>1, <1>3, <1>4, <1>5, <1>6, <1>7

LEMMA GivenStays ==
  ASSUME NEW p, NEW q, Same(p, q), SameLevel(p, q), NEW c, NEW f
  PROVE  /\ Given(p, c, f) => Given(q, c, f)
         /\ LevelOk(p) => LevelOk(q)
         /\ p.percent = L!LevelPercent(p) => q.percent = L!LevelPercent(q)
<1>1. q.voc = p.voc /\ q.level = p.level /\ q.healthMax = p.healthMax /\ q.manaMax = p.manaMax /\ q.exp = p.exp /\ q.percent = p.percent
  BY DEF Same, SameLevel
<1>2. L!LevelPercent(q) = L!LevelPercent(p)
  BY <1>1, PercentShown
<1> QED BY <1>1, <1>2, SameGiven DEF Given, LevelOk

LEMMA GainManaKeeps == ASSUME L!LevelsAssumption, LevelsIInv, L!GainMana PROVE LevelsIInv'
<1> USE DEF LevelsIInv, LevelsGood
<1>1. PICK n \in Amounts :
        /\ u1' = L!AddManaSpent(u1, n)
        /\ u2' = [u2 EXCEPT !.mana = IF L!MaxMagicReached(u1') THEN L!SpentInAll(u1') ELSE @ + n]
        /\ u3' = u3 /\ u4' = u4 /\ u5' = u5
  BY DEF L!GainMana, L!Becomes
<1>2. n \in Nat
  BY DEF L!LevelsAssumption
<1>3. /\ u1' \in PlayerSet /\ Same(u1, u1') /\ SameSkill(u1, u1') /\ SameLevel(u1, u1')
      /\ ~L!MaxMagicReached(u1') => L!SpentInAll(u1') = L!SpentInAll(u1) + n
  BY <1>1, <1>2, ManaAdded
<1>4. u2' \in Ledger /\ u2'.exp = u2.exp /\ u2'.mana = L!SpentInAll(u1') /\ u2'.tries = u2.tries
  <2>1. L!SpentInAll(u1') \in Nat
    BY <1>3, SpentNatural
  <2>2. u2' = [u2 EXCEPT !.mana = L!SpentInAll(u1')]
    <3>1. u2.mana = L!SpentInAll(u1)
      BY DEF Counted
    <3> QED BY <1>1, <1>3, <3>1
  <2> QED BY <2>1, <2>2 DEF Ledger
<1>5. Counted(u1', u2')
  <2>2. L!TriedInAll(u1) = L!TriedInAll(u1')
    BY <1>3, SameTried DEF Same, SameSkill
  <2> QED BY <1>3, <1>4, <2>2 DEF Counted, SameLevel
<1>6. Given(u1', u3', u4') /\ LevelOk(u1') /\ u1'.percent = L!LevelPercent(u1')
  BY <1>1, <1>3, GivenStays DEF ShownOk
<1>7. ShownOk(u1', u5')
  <2>1. L!MaxSkillReached(u1) = L!MaxSkillReached(u1') /\ L!SkillPercent(u1) = L!SkillPercent(u1')
    BY <1>3, SameTried DEF Same, SameSkill
  <2> QED BY <1>1, <1>3, <1>6, <2>1 DEF ShownOk, SameSkill
<1> QED BY <1>1, <1>3, <1>4, <1>5, <1>6, <1>7

LEMMA GainTriesKeeps == ASSUME L!LevelsAssumption, LevelsIInv, L!GainTries PROVE LevelsIInv'
<1> USE DEF LevelsIInv, LevelsGood
<1>1. PICK n \in Amounts :
        /\ u1' = L!AddSkillAdvance(u1, n)
        /\ u2' = [u2 EXCEPT !.tries = IF L!MaxSkillReached(u1') THEN L!TriedInAll(u1') ELSE @ + n]
        /\ u5' = (u5 /\ L!MaxSkillReached(u1))
        /\ u3' = u3 /\ u4' = u4
  BY DEF L!GainTries, L!Becomes
<1>2. n \in Nat
  BY DEF L!LevelsAssumption
<1>3. /\ u1' \in PlayerSet /\ Same(u1, u1') /\ SameMagic(u1, u1') /\ SameLevel(u1, u1')
      /\ L!MaxSkillReached(u1) => u1' = u1
      /\ ~L!MaxSkillReached(u1) => u1'.skillPercent = L!SkillPercent(u1')
      /\ ~L!MaxSkillReached(u1') => L!TriedInAll(u1') = L!TriedInAll(u1) + n
  BY <1>1, <1>2, TriesAdded
<1>4. u2' \in Ledger /\ u2'.exp = u2.exp /\ u2'.mana = u2.mana /\ u2'.tries = L!TriedInAll(u1')
  <2>1. L!TriedInAll(u1') \in Nat
    BY <1>3, TriedNatural
  <2>2. u2' = [u2 EXCEPT !.tries = L!TriedInAll(u1')]
    <3>1. u2.tries = L!TriedInAll(u1)
      BY DEF Counted
    <3> QED BY <1>1, <1>3, <3>1
  <2> QED BY <2>1, <2>2 DEF Ledger
<1>5. Counted(u1', u2')
  <2>2. L!SpentInAll(u1) = L!SpentInAll(u1')
    BY <1>3, SameSpent DEF Same, SameMagic
  <2> QED BY <1>3, <1>4, <2>2 DEF Counted, SameLevel
<1>6. Given(u1', u3', u4') /\ LevelOk(u1') /\ u1'.percent = L!LevelPercent(u1')
  BY <1>1, <1>3, GivenStays DEF ShownOk
<1>7. ShownOk(u1', u5') /\ u5' \in BOOLEAN
  <2>1. CASE L!MaxSkillReached(u1)
    BY <1>1, <1>3, <1>6, <2>1 DEF ShownOk
  <2>2. CASE ~L!MaxSkillReached(u1)
    BY <1>1, <1>3, <1>6, <2>2 DEF ShownOk
  <2> QED BY <2>1, <2>2
<1> QED BY <1>1, <1>3, <1>4, <1>5, <1>6, <1>7

LEMMA LoseExperienceKeeps == ASSUME L!LevelsAssumption, LevelsIInv, L!LoseExperience PROVE LevelsIInv'
<1> USE DEF LevelsIInv, LevelsGood
<1>1. PICK n \in Amounts :
        /\ u1' = L!LoseLevels(u1, n)
        /\ u2' = [u2 EXCEPT !.exp = L!NonNegative(@ - n)]
        /\ u4' = (u4 \/ (u1'.voc # 0 /\ u1'.level < RookingLevel))
        /\ u3' = u3 /\ u5' = u5
  BY DEF L!LoseExperience, L!Becomes
<1>2. n \in Nat
  BY DEF L!LevelsAssumption
<1>3. /\ u1' \in PlayerSet /\ Same(u1, u1') /\ SameMagic(u1, u1') /\ SameSkill(u1, u1')
      /\ u1'.exp = L!NonNegative(u1.exp - n) /\ LevelOk(u1') /\ u1'.percent = L!LevelPercent(u1')
      /\ HealthOk(u1', u3) /\ ManaOk(u1', u3, u4)
  BY <1>1, <1>2, ExpRemoved DEF Given, Chose
<1>4. u2' \in Ledger /\ u2'.exp = L!NonNegative(u2.exp - n) /\ u2'.mana = u2.mana /\ u2'.tries = u2.tries
  <2>1. L!NonNegative(u2.exp - n) \in Nat
    BY <1>2 DEF L!NonNegative, Ledger
  <2> QED BY <1>1, <2>1 DEF Ledger
<1>5. Counted(u1', u2')
  <2>1. L!SpentInAll(u1) = L!SpentInAll(u1')
    BY <1>3, SameSpent DEF Same, SameMagic
  <2>2. L!TriedInAll(u1) = L!TriedInAll(u1')
    BY <1>3, SameTried DEF Same, SameSkill
  <2> QED BY <1>3, <1>4, <2>1, <2>2 DEF Counted
<1>6. Given(u1', u3', u4') /\ u4' \in BOOLEAN
  <2>1. u4' \in BOOLEAN /\ (~u4' => ~u4 /\ (u1'.voc # 0 => ~(u1'.level < RookingLevel)))
    BY <1>1
  <2>2. ManaOk(u1', u3, u4')
    BY <1>3, <2>1 DEF ManaOk
  <2>3. Risen(u1', u4')
    <3>1. u1'.level \in 1 .. MaxLevel /\ MaxLevel \in Nat /\ RookingLevel \in Nat /\ RookingLevel >= 6
      BY <1>3, FieldsOf DEF L!LevelsAssumption
    <3> QED BY <2>1, <3>1 DEF Risen
  <2>4. Chose(u1', u3)
    BY <1>3 DEF Given, Chose, Same
  <2> QED BY <1>1, <1>3, <2>1, <2>2, <2>3, <2>4 DEF Given
<1>7. ShownOk(u1', u5')
  <2>1. L!MaxSkillReached(u1) = L!MaxSkillReached(u1') /\ L!SkillPercent(u1) = L!SkillPercent(u1')
    BY <1>3, SameTried DEF Same, SameSkill
  <2> QED BY <1>1, <1>3, <2>1 DEF ShownOk, SameSkill
<1> QED BY <1>1, <1>3, <1>4, <1>5, <1>6, <1>7

LEMMA LoseManaKeeps == ASSUME L!LevelsAssumption, LevelsIInv, L!LoseMana PROVE LevelsIInv'
<1> USE DEF LevelsIInv, LevelsGood
<1>1. PICK n \in Amounts :
        /\ n <= L!SpentInAll(u1)
        /\ u1' = L!RemoveManaSpent(u1, n)
        /\ u2' = [u2 EXCEPT !.mana = @ - n]
        /\ u3' = u3 /\ u4' = u4 /\ u5' = u5
  BY DEF L!LoseMana, L!Becomes
<1>2. n \in Nat
  BY DEF L!LevelsAssumption
<1>3. /\ u1' \in PlayerSet /\ Same(u1, u1') /\ SameSkill(u1, u1') /\ SameLevel(u1, u1')
      /\ L!SpentInAll(u1') = L!SpentInAll(u1) - n
  BY <1>1, <1>2, ManaRemoved
<1>4. u2' \in Ledger /\ u2'.exp = u2.exp /\ u2'.mana = L!SpentInAll(u1') /\ u2'.tries = u2.tries
  <2>1. L!SpentInAll(u1') \in Nat
    BY <1>3, SpentNatural
  <2>2. u2' = [u2 EXCEPT !.mana = L!SpentInAll(u1')]
    <3>1. u2.mana = L!SpentInAll(u1)
      BY DEF Counted
    <3> QED BY <1>1, <1>3, <3>1
  <2> QED BY <2>1, <2>2 DEF Ledger
<1>5. Counted(u1', u2')
  <2>2. L!TriedInAll(u1) = L!TriedInAll(u1')
    BY <1>3, SameTried DEF Same, SameSkill
  <2> QED BY <1>3, <1>4, <2>2 DEF Counted, SameLevel
<1>6. Given(u1', u3', u4') /\ LevelOk(u1') /\ u1'.percent = L!LevelPercent(u1')
  BY <1>1, <1>3, GivenStays DEF ShownOk
<1>7. ShownOk(u1', u5')
  <2>1. L!MaxSkillReached(u1) = L!MaxSkillReached(u1') /\ L!SkillPercent(u1) = L!SkillPercent(u1')
    BY <1>3, SameTried DEF Same, SameSkill
  <2> QED BY <1>1, <1>3, <1>6, <2>1 DEF ShownOk, SameSkill
<1> QED BY <1>1, <1>3, <1>4, <1>5, <1>6, <1>7

LEMMA LoseTriesKeeps == ASSUME L!LevelsAssumption, LevelsIInv, L!LoseTries PROVE LevelsIInv'
<1> USE DEF LevelsIInv, LevelsGood
<1>1. PICK n \in Amounts :
        /\ u1' = L!RemoveSkillTries(u1, n)
        /\ u2' = [u2 EXCEPT !.tries = L!NonNegative(@ - n)]
        /\ u5' = TRUE
        /\ u3' = u3 /\ u4' = u4
  BY DEF L!LoseTries, L!Becomes
<1>2. n \in Nat
  BY DEF L!LevelsAssumption
<1>3. /\ u1' \in PlayerSet /\ Same(u1, u1') /\ SameMagic(u1, u1') /\ SameLevel(u1, u1')
      /\ L!TriedInAll(u1') = L!NonNegative(L!TriedInAll(u1) - n)
  BY <1>1, <1>2, TriesRemoved
<1>4. u2' \in Ledger /\ u2'.exp = u2.exp /\ u2'.mana = u2.mana /\ u2'.tries = L!TriedInAll(u1')
  <2>1. L!TriedInAll(u1') \in Nat
    BY <1>3, TriedNatural
  <2>2. u2' = [u2 EXCEPT !.tries = L!TriedInAll(u1')]
    <3>1. u2.tries = L!TriedInAll(u1)
      BY DEF Counted
    <3> QED BY <1>1, <1>3, <3>1
  <2> QED BY <2>1, <2>2 DEF Ledger
<1>5. Counted(u1', u2')
  <2>2. L!SpentInAll(u1) = L!SpentInAll(u1')
    BY <1>3, SameSpent DEF Same, SameMagic
  <2> QED BY <1>3, <1>4, <2>2 DEF Counted, SameLevel
<1>6. Given(u1', u3', u4') /\ LevelOk(u1') /\ u1'.percent = L!LevelPercent(u1')
  BY <1>1, <1>3, GivenStays DEF ShownOk
<1>7. ShownOk(u1', u5')
  BY <1>1, <1>6 DEF ShownOk
<1> QED BY <1>1, <1>3, <1>4, <1>5, <1>6, <1>7

LEMMA BlessKeeps == ASSUME L!LevelsAssumption, LevelsIInv, L!Bless PROVE LevelsIInv'
<1> USE DEF LevelsIInv, LevelsGood
<1>1. PICK b \in Blessings : u1' = [u1 EXCEPT !.blessings = @ \cup {b}]
  BY DEF L!Bless, L!Becomes
<1>2. u2' = u2 /\ u3' = u3 /\ u4' = u4 /\ u5' = u5
  BY DEF L!Bless
<1>3. /\ u1' \in PlayerSet /\ u1'.voc = u1.voc /\ SameMagic(u1, u1') /\ SameSkill(u1, u1') /\ SameLevel(u1, u1')
  BY <1>1 DEF PlayerSet, SameMagic, SameSkill, SameLevel
<1>4. Counted(u1', u2')
  <2>1. L!SpentInAll(u1) = L!SpentInAll(u1')
    BY <1>3, SameSpent DEF SameMagic
  <2>2. L!TriedInAll(u1) = L!TriedInAll(u1')
    BY <1>3, SameTried DEF SameSkill
  <2> QED BY <1>2, <1>3, <2>1, <2>2 DEF Counted, SameLevel
<1>5. Given(u1', u3', u4') /\ LevelOk(u1')
  BY <1>2, <1>3, SameGiven DEF SameLevel, Given, LevelOk
<1>6. ShownOk(u1', u5')
  <2>1. L!LevelPercent(u1') = L!LevelPercent(u1)
    BY <1>3, PercentShown DEF SameLevel
  <2>2. L!MaxSkillReached(u1) = L!MaxSkillReached(u1') /\ L!SkillPercent(u1) = L!SkillPercent(u1')
    BY <1>3, SameTried DEF SameSkill
  <2> QED BY <1>2, <1>3, <2>1, <2>2 DEF ShownOk, SameLevel, SameSkill
<1> QED BY <1>2, <1>3, <1>4, <1>5, <1>6

LEMMA RelogKeeps == ASSUME L!LevelsAssumption, LevelsIInv, L!Relog PROVE LevelsIInv'
<1> USE DEF LevelsIInv, LevelsGood
<1>1. /\ u1' = L!Loaded(u1)
      /\ u2' = [u2 EXCEPT !.mana = L!SpentInAll(u1'), !.tries = L!TriedInAll(u1')]
      /\ u5' = FALSE /\ u3' = u3 /\ u4' = u4
  BY DEF L!Relog, L!Becomes
<1>2. /\ u1' \in PlayerSet /\ Same(u1, u1')
      /\ u1'.level = u1.level /\ u1'.exp = u1.exp /\ u1'.healthMax = u1.healthMax /\ u1'.manaMax = u1.manaMax
      /\ u1'.percent = L!LevelPercent(u1')
      /\ L!MaxSkillReached(u1') \/ u1'.skillPercent = L!SkillPercent(u1')
  BY <1>1, LoadedIs
<1>3. u2' \in Ledger /\ Counted(u1', u2')
  <2>1. L!SpentInAll(u1') \in Nat /\ L!TriedInAll(u1') \in Nat
    BY <1>2, SpentNatural, TriedNatural
  <2>2. u2' \in Ledger /\ u2'.exp = u2.exp /\ u2'.mana = L!SpentInAll(u1') /\ u2'.tries = L!TriedInAll(u1')
    BY <1>1, <2>1 DEF Ledger
  <2> QED BY <1>2, <2>2 DEF Counted
<1>4. Given(u1', u3', u4') /\ LevelOk(u1')
  BY <1>1, <1>2, SameGiven DEF Same, Given, LevelOk
<1>5. ShownOk(u1', u5')
  BY <1>1, <1>2 DEF ShownOk
<1> QED BY <1>1, <1>2, <1>3, <1>4, <1>5

\* At the level of the choice the old vocation and the new one have given the same.
LEMMA ChosenBody ==
  ASSUME NEW p, p.voc = 0, NEW q, q.voc # 0, NEW c, NEW base \in Int, NEW l \in Int,
         NEW gain, gain[0] \in Nat, gain[q.voc] \in Nat
  PROVE  BodyAt(q, l, base, gain, l) = BodyAt(p, c, base, gain, l)
<1> DEFINE g == gain[q.voc]
           k == gain[0] * (l - 1)
<1>1. g * (l - l) = 0 /\ k \in Int
  <2>1. l - l = 0 /\ g \in Int
    OBVIOUS
  <2> HIDE DEF g
  <2> QED BY <2>1
<1>2. BodyAt(q, l, base, gain, l) = base + (k + g * (l - l)) /\ BodyAt(p, c, base, gain, l) = base + k
  BY DEF BodyAt
<1> HIDE DEF g, k
<1> QED BY <1>1, <1>2

LEMMA RookieBody ==
  ASSUME L!LevelsAssumption, NEW p \in PlayerSet, p.voc = 0, NEW c, Chose(p, c), NEW f, HealthOk(p, c), ManaOk(p, c, f)
  PROVE  /\ p.healthMax = BodyAt(p, c, 150, HPGain, p.level)
         /\ p.manaMax = BodyAt(p, c, 0, ManaGain, p.level)
<1>1. HPGain[0] \in Nat
  <2>1. c \in Nat
    BY DEF Chose
  <2> QED BY <2>1, BothSteady
<1>2. HPGain[0] * (1 - 1) = 0
  BY <1>1
<1>3. BodyAt(p, c, 150, HPGain, 1) = 150
  BY <1>2 DEF BodyAt
<1> QED BY <1>3 DEF HealthOk, ManaOk

LEMMA SetVocationKeeps == ASSUME L!LevelsAssumption, LevelsIInv, NEW voc \in Vocations, L!SetVocation(voc) PROVE LevelsIInv'
<1> USE DEF LevelsIInv, LevelsGood
<1> DEFINE t == IF u1.voc = 0 THEN (ReqTries[voc][u1.skill + 1] * u1.skillPercent) \div 100 ELSE u1.tries
<1>1. /\ IF u1.voc = 0 THEN u1.level >= 8 /\ voc \notin Promoted ELSE voc \in Promoted /\ BaseOf[voc] = u1.voc
      /\ u1' = [u1 EXCEPT !.voc = voc, !.tries = t]
      /\ u2' = [u2 EXCEPT !.mana = L!SpentInAll(u1'), !.tries = L!TriedInAll(u1')]
      /\ u3' = IF u1.voc = 0 THEN u1.level ELSE u3
      /\ u5' = TRUE /\ u4' = u4
  BY DEF L!SetVocation, L!Becomes
<1>2. voc \in Vocs /\ voc # 0 /\ u1.voc \in Vocs /\ u1.skill \in FirstSkill .. MaxSkill /\ u1.skillPercent \in 0 .. 100 /\ u1.tries \in Nat
      /\ u1.level \in Nat /\ MaxSkill \in Nat /\ FirstSkill \in Nat
  <2>1. 0 \notin Vocations
    BY DEF L!LevelsAssumption
  <2> QED BY <2>1, FieldsOf, TurnsAre DEF Vocs
<1>3. t \in Nat
  <2> DEFINE a == ReqTries[voc][u1.skill + 1]
             b == u1.skillPercent
             k == a * b
  <2>1. a \in Nat /\ b \in Nat
    <3>1. u1.skill + 1 \in FirstSkill .. MaxSkill + 1
      BY <1>2
    <3> QED BY <1>2, <3>1, TriesTable
  <2> HIDE DEF a, b
  <2>2. k \in Nat
    BY <2>1, ProductNatural
  <2> HIDE DEF k
  <2>3. k \div 100 \in Nat
    BY <2>2
  <2> QED BY <1>2, <2>3 DEF k, a, b
<1> HIDE DEF t
<1>4. /\ u1' \in PlayerSet /\ u1'.voc = voc /\ SameLevel(u1, u1')
  BY <1>1, <1>2, <1>3 DEF PlayerSet, SameLevel
<1>5. u2' \in Ledger /\ Counted(u1', u2')
  <2>1. L!SpentInAll(u1') \in Nat /\ L!TriedInAll(u1') \in Nat
    BY <1>4, SpentNatural, TriedNatural
  <2>2. u2' \in Ledger /\ u2'.exp = u2.exp /\ u2'.mana = L!SpentInAll(u1') /\ u2'.tries = L!TriedInAll(u1')
    BY <1>1, <2>1 DEF Ledger
  <2> QED BY <1>4, <2>2 DEF Counted, SameLevel
<1>6. LevelOk(u1')
  BY <1>4 DEF LevelOk, SameLevel
<1>7. ShownOk(u1', u5')
  <2>1. L!LevelPercent(u1') = L!LevelPercent(u1)
    BY <1>4, PercentShown DEF SameLevel
  <2> QED BY <1>1, <1>4, <2>1 DEF ShownOk, SameLevel
<1> DEFINE l == u1.level
           q == u1'
<1>8. Given(q, u3', u4)
  <2>1. q.voc = voc /\ q.level = l /\ q.healthMax = u1.healthMax /\ q.manaMax = u1.manaMax
    BY <1>4 DEF SameLevel
  <2>2. CASE u1.voc = 0
    <3>1. u3' = l /\ l >= 8 /\ l \in Nat /\ l \in Int
      BY <1>1, <1>2, <2>2
    <3>2. Chose(u1, u3) /\ HealthOk(u1, u3) /\ ManaOk(u1, u3, u4)
      BY DEF Given
    <3>3. u1.healthMax = BodyAt(u1, u3, 150, HPGain, l) /\ u1.manaMax = BodyAt(u1, u3, 0, ManaGain, l)
      BY <2>2, <3>2, RookieBody
    <3>4. HPGain[0] \in Nat /\ HPGain[voc] \in Nat /\ ManaGain[0] \in Nat /\ ManaGain[voc] \in Nat
      BY <1>2, GainsAre
    <3> HIDE DEF q, l
    <3>5. BodyAt(q, l, 150, HPGain, l) = BodyAt(u1, u3, 150, HPGain, l)
      BY <1>2, <2>1, <2>2, <3>1, <3>4, ChosenBody
    <3>6. BodyAt(q, l, 0, ManaGain, l) = BodyAt(u1, u3, 0, ManaGain, l)
      BY <1>2, <2>1, <2>2, <3>1, <3>4, ChosenBody
    <3>7. HealthOk(q, l)
      <4>1. u1.healthMax \in Nat
        BY FieldsOf
      <4> QED BY <2>1, <3>3, <3>5, <4>1 DEF HealthOk
    <3>8. ManaOk(q, l, u4)
      <4>1. u1.manaMax \in Nat
        BY FieldsOf
      <4>2. L!NonNegative(u1.manaMax) = u1.manaMax
        BY <4>1 DEF L!NonNegative
      <4> QED BY <2>1, <3>3, <3>6, <4>1, <4>2 DEF ManaOk
    <3>9. Chose(q, l) /\ Risen(q, u4)
      BY <2>1, <3>1 DEF Chose, Risen
    <3> QED BY <3>1, <3>7, <3>8, <3>9 DEF Given
  <2>3. CASE u1.voc # 0
    <3>1. u3' = u3 /\ voc \in Promoted /\ BaseOf[voc] = u1.voc
      BY <1>1, <2>3
    <3>2. HPGain[voc] = HPGain[u1.voc] /\ ManaGain[voc] = ManaGain[u1.voc]
      BY <3>1 DEF L!LevelsAssumption, L!GainsAssumption
    <3>3. \A i : BodyAt(q, u3, 150, HPGain, i) = BodyAt(u1, u3, 150, HPGain, i)
      BY <1>2, <2>1, <2>3, <3>2 DEF BodyAt
    <3>4. \A i : BodyAt(q, u3, 0, ManaGain, i) = BodyAt(u1, u3, 0, ManaGain, i)
      BY <1>2, <2>1, <2>3, <3>2 DEF BodyAt
    <3>5. Given(u1, u3, u4)
      OBVIOUS
    <3> HIDE DEF q
    <3>6. HealthOk(q, u3)
      BY <2>1, <3>3, <3>5 DEF HealthOk, Given
    <3>7. ManaOk(q, u3, u4)
      BY <1>2, <2>1, <3>4, <3>5 DEF ManaOk, Given
    <3>8. Chose(q, u3) /\ Risen(q, u4)
      BY <2>1, <2>3, <3>5 DEF Chose, Risen, Given
    <3> QED BY <3>1, <3>6, <3>7, <3>8 DEF Given
  <2> QED BY <2>2, <2>3
<1> QED BY <1>1, <1>4, <1>5, <1>6, <1>7, <1>8

LEMMA DeathKeeps == ASSUME L!LevelsAssumption, LevelsIInv, L!Death PROVE LevelsIInv'
<1> USE DEF LevelsIInv, LevelsGood
<1> DEFINE r == L!AfterDeath(u1)
           b == L!LossOf(u1, L!TriedSince(u1, FirstSkill))
<1>1. /\ u1' = L!Loaded(r)
      /\ u2' = IF u1'.voc = 0 /\ u1.voc # 0
               THEN [exp |-> 0, mana |-> 0, tries |-> 0]
               ELSE [exp |-> u2.exp - L!LossOf(u1, u2.exp),
                     mana |-> IF u1'.spent = r.spent THEN u2.mana - L!LossOf(u1, u2.mana) ELSE L!SpentInAll(u1'),
                     tries |-> IF u1'.tries = r.tries THEN L!NonNegative(u2.tries - b) ELSE L!TriedInAll(u1')]
      /\ u5' = FALSE /\ u3' = u3 /\ u4' = u4
  BY DEF L!Death, L!Becomes
<1>2. Chose(u1, u3) /\ HealthOk(u1, u3) /\ ManaOk(u1, u3, u4)
  BY DEF Given
<1>3. /\ r \in PlayerSet /\ LevelOk(r) /\ HealthOk(r, u3) /\ ManaOk(r, u3, u4) /\ Risen(r, u4) /\ Chose(r, u3)
      /\ Poorer(u1, r) \/ Again(u1, r)
  <2>1. r = L!AfterDeath(u1)
    OBVIOUS
  <2> HIDE DEF r
  <2> QED BY <1>2, <2>1, DeathIs
<1> HIDE DEF r
<1>4. /\ u1' \in PlayerSet /\ Same(r, u1') /\ u1'.magic = r.magic /\ u1'.skill = r.skill
      /\ u1'.level = r.level /\ u1'.exp = r.exp /\ u1'.healthMax = r.healthMax /\ u1'.manaMax = r.manaMax
      /\ u1'.percent = L!LevelPercent(u1')
      /\ L!MaxSkillReached(u1') \/ u1'.skillPercent = L!SkillPercent(u1')
  BY <1>1, <1>3, LoadedIs
<1>5. Given(u1', u3', u4') /\ LevelOk(u1')
  BY <1>1, <1>3, <1>4, SameGiven DEF Same, Given, LevelOk
<1>6. ShownOk(u1', u5')
  BY <1>1, <1>4 DEF ShownOk
<1>7. L!SpentInAll(u1') \in Nat /\ L!TriedInAll(u1') \in Nat /\ u1'.exp \in Nat
  BY <1>4, SpentNatural, TriedNatural, FieldsOf
<1>8. u1'.spent = r.spent => L!SpentInAll(u1') = L!SpentInAll(r)
  BY <1>4, SameSpent DEF Same
<1>9. u1'.tries = r.tries => L!TriedInAll(u1') = L!TriedInAll(r)
  BY <1>4, SameTried DEF Same
<1>10. u2' = [exp |-> u1'.exp, mana |-> L!SpentInAll(u1'), tries |-> L!TriedInAll(u1')]
  <2>0. u2.exp = u1.exp /\ u2.mana = L!SpentInAll(u1) /\ u2.tries = L!TriedInAll(u1) /\ u1'.voc = r.voc
    BY <1>4 DEF Counted, Same
  <2>1. CASE Again(u1, r)
    <3>1. u1'.voc = 0 /\ u1.voc # 0 /\ u1'.exp = 0
      BY <1>4, <2>0, <2>1 DEF Again
    <3>2. u1'.spent = 0 /\ u1'.tries = 0
      <4>1. r.spent = 0 /\ r.tries = 0 /\ L!Fit(0, L!NextMana(r)) = 0 /\ L!Fit(0, L!NextTries(r)) = 0
        BY <2>1 DEF Again, L!Fit
      <4> QED BY <1>1, <1>3, <4>1 DEF L!Loaded, PlayerSet
    <3>3. L!SpentInAll(u1') = 0
      <4>1. u1'.magic = 0
        BY <1>4, <2>1 DEF Again
      <4> QED BY <1>4, <3>2, <4>1, SpentNatural
    <3>4. L!TriedInAll(u1') = 0
      <4>1. u1'.skill = FirstSkill
        BY <1>4, <2>1 DEF Again
      <4> QED BY <1>4, <3>2, <4>1, TriedNatural
    <3> QED BY <1>1, <3>1, <3>3, <3>4
  <2>2. CASE Poorer(u1, r)
    <3>1. /\ r.voc = u1.voc /\ r.exp = u2.exp - L!LossOf(u1, u2.exp)
          /\ L!SpentInAll(r) = u2.mana - L!LossOf(u1, u2.mana)
          /\ L!TriedInAll(r) = L!NonNegative(u2.tries - b)
      BY <2>0, <2>2 DEF Poorer
    <3> HIDE DEF b
    <3>2. u2' = [exp |-> u2.exp - L!LossOf(u1, u2.exp),
                 mana |-> IF u1'.spent = r.spent THEN u2.mana - L!LossOf(u1, u2.mana) ELSE L!SpentInAll(u1'),
                 tries |-> IF u1'.tries = r.tries THEN L!NonNegative(u2.tries - b) ELSE L!TriedInAll(u1')]
      BY <1>1, <2>0, <3>1
    <3> QED BY <1>4, <1>8, <1>9, <3>1, <3>2
  <2> QED BY <1>3, <2>1, <2>2
<1>11. u2' \in Ledger /\ Counted(u1', u2')
  BY <1>7, <1>10 DEF Ledger, Counted
<1> QED BY <1>1, <1>4, <1>5, <1>6, <1>11

LEMMA LevelsStep == ASSUME L!LevelsAssumption, LevelsIInv, [L!Next]_(L!vars) PROVE LevelsIInv'
<1>1. CASE UNCHANGED L!vars
  BY <1>1 DEF L!vars, LevelsIInv
<1>2. CASE \E voc \in Vocations : L!SetVocation(voc)
  BY <1>2, SetVocationKeeps
<1> QED
  BY <1>1, <1>2, GainExperienceKeeps, GainManaKeeps, GainTriesKeeps, LoseExperienceKeeps, LoseManaKeeps, LoseTriesKeeps,
     BlessKeeps, DeathKeeps, RelogKeeps DEF L!Next

-----------------------------------------------------------------------------
(* All of them: a behaviour is one of a single part, so the invariant of   *)
(* each holds while it is the one that moves.                              *)

ClientsIInv ==
  /\ part = "tile" => TileIInv
  /\ part = "known" => KnownIInv
  /\ part = "windows" => WindowsIInv
  /\ part = "map" => SpecIInv

LEMMA CharacterAssumed ==
  /\ G!TileAssumption /\ K!KnownAssumption /\ W!WindowsAssumption /\ S!SpectatorsAssumption
  /\ I!ItemsAssumption /\ L!LevelsAssumption
BY CharacterAssumption

LEMMA StepOfOne ==
  ASSUME [MCNext]_all
  PROVE  /\ part' = part
         /\ part = "tile" => [G!Next]_(G!vars)
         /\ part = "known" => [K!Next]_(K!vars)
         /\ part = "windows" => [W!Next]_(W!vars)
         /\ part = "map" => [S!Next]_(S!vars)
         /\ part = "items" => [I!Next]_(I!vars)
         /\ part = "levels" => [L!Next]_(L!vars)
<1>1. CASE skulls_step(Next)
  BY <1>1 DEF skulls_step
<1>2. CASE tile_step(G!Next)
  BY <1>2 DEF tile_step
<1>3. CASE known_step(K!Next)
  BY <1>3 DEF known_step
<1>4. CASE windows_step(W!Next)
  BY <1>4 DEF windows_step
<1>5. CASE map_step(S!Next)
  BY <1>5 DEF map_step
<1>6. CASE items_step(I!Next)
  BY <1>6 DEF items_step
<1>7. CASE levels_step(L!Next)
  BY <1>7 DEF levels_step
<1>8. CASE UNCHANGED all
  <2>1. part' = part /\ UNCHANGED <<u1, u2, u3, u4, u5, u6, u7, u8, u9>>
    BY <1>8 DEF all
  <2>2. UNCHANGED G!vars /\ UNCHANGED K!vars /\ UNCHANGED W!vars /\ UNCHANGED S!vars
    BY <2>1 DEF G!vars, K!vars, W!vars, S!vars
  <2>3. UNCHANGED I!vars /\ UNCHANGED L!vars
    BY <2>1 DEF I!vars, L!vars
  <2> QED BY <2>1, <2>2, <2>3
<1> QED BY <1>1, <1>2, <1>3, <1>4, <1>5, <1>6, <1>7, <1>8 DEF MCNext

LEMMA TileStays == ASSUME TileIInv, UNCHANGED G!vars PROVE TileIInv'
<1>1. UNCHANGED <<u1, u2, u3, u4, u5, u6, u7, u8, u9>>
  BY DEF G!vars
<1>2. G!Tile' = G!Tile
  BY <1>1 DEF G!Tile
<1>3. G!StackOf(G!Tile)' = G!StackOf(G!Tile)
  BY <1>1, <1>2 DEF G!StackOf
<1>4. TileGood(G!Tile, u9, ~u8)'
  BY <1>1, <1>2, <1>3 DEF TileIInv, TileGood
<1> QED BY <1>1, <1>4 DEF TileIInv, Walked

LEMMA WindowsStay == ASSUME WindowsIInv, UNCHANGED W!vars PROVE WindowsIInv'
<1>1. UNCHANGED <<u1, u2, u3, u4, u5, u6>>
  BY DEF W!vars
<1>2. \A p \in Watchers : W!View(p)' = W!View(p)
  BY <1>1 DEF W!View
<1> QED BY <1>1, <1>2 DEF WindowsIInv

LEMMA ClientsInit == MCInit => ClientsIInv
<1> SUFFICES ASSUME MCInit PROVE ClientsIInv
  OBVIOUS
<1>1. /\ part = "tile" => G!Init
      /\ part = "known" => K!Init
      /\ part = "windows" => W!Init
      /\ part = "map" => S!Init
  BY DEF MCInit
<1> QED BY <1>1, CharacterAssumed, TileInit, KnownInit, WindowsInit, SpecInit DEF ClientsIInv

LEMMA ClientsStep == ClientsIInv /\ [MCNext]_all => ClientsIInv'
<1> SUFFICES ASSUME ClientsIInv, [MCNext]_all PROVE ClientsIInv'
  OBVIOUS
<1>1. part = "tile" => TileIInv'
  BY CharacterAssumed, StepOfOne, TileStep, TileStays DEF ClientsIInv
<1>2. part = "known" => KnownIInv'
  BY CharacterAssumed, StepOfOne, KnownStep DEF ClientsIInv
<1>3. part = "windows" => WindowsIInv'
  BY CharacterAssumed, StepOfOne, WindowsStep, WindowsStay DEF ClientsIInv
<1>4. part = "map" => SpecIInv'
  BY CharacterAssumed, StepOfOne, SpecStep DEF ClientsIInv
<1> QED BY <1>1, <1>2, <1>3, <1>4, StepOfOne DEF ClientsIInv

\* What a client shows of a tile is the beginning of what lies there, in the server's order
\* and whole unless a creature hid; it knows the creatures it shows and no more than it can
\* keep; its windows are those the server keeps, with what is in the containers; and whoever
\* is in range is found, by whichever cache the answer comes from (tile.cpp, protocolgame.cpp,
\* player.cpp and map.cpp getSpectators).
THEOREM ClientsSeeWhatIsThere == MCSpec => []ClientsAgree
<1>1. ClientsIInv => ClientsAgree
  BY CharacterAssumed, TileInvHolds, WindowsInvHolds, SpecInvHolds DEF ClientsIInv, ClientsAgree, KnownIInv
<1> QED BY <1>1, ClientsInit, ClientsStep, PTL DEF MCSpec

\* The level is that of the experience; experience, mana and tries add up whatever was
\* gained and lost; health and mana are what the levels gave; and what is shown of the way
\* to the next ones is right (player.cpp gainExperience, removeExperience, addManaSpent,
\* removeManaSpent, addSkillAdvance, removeSkillTries, death; iologindata.cpp loadPlayer).
THEOREM LevelsFollow == MCSpec => []LevelsInv
<1> DEFINE Safe == part = "levels" => LevelsIInv
<1>1. MCInit => Safe
  BY CharacterAssumed, LevelsInit DEF MCInit
<1>2. Safe /\ [MCNext]_all => Safe'
  BY CharacterAssumed, StepOfOne, LevelsStep
<1>3. Safe => LevelsInv
  BY CharacterAssumed, LevelsInvHolds DEF LevelsInv
<1> QED BY <1>1, <1>2, <1>3, PTL DEF MCSpec

\* Every item lies in one place that has room for it, no coin appears or disappears but by
\* what is made, paid, destroyed or lost for want of room, and a bag's remembered weight is
\* that of what is in it (game.cpp internalMoveItem, addMoney, removeMoney, transformItem;
\* container.cpp updateItemWeight; player.cpp addThing, removeThing).
THEOREM ThingsAddUp == MCSpec => []ItemsInv
<1> DEFINE Safe == part = "items" => ItemsIInv
<1>1. MCInit => Safe
  BY CharacterAssumed, ItemsInit DEF MCInit
<1>2. Safe /\ [MCNext]_all => Safe'
  BY CharacterAssumed, StepOfOne, ItemsStep
<1>3. Safe => ItemsInv
  BY CharacterAssumed, ItemsInvHolds DEF ItemsInv
<1> QED BY <1>1, <1>2, <1>3, PTL DEF MCSpec
=============================================================================
