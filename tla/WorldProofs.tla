---------------------------- MODULE WorldProofs ----------------------------
(***************************************************************************)
(* Theorems about what happens in the world (MCWorld): a spawn, the life   *)
(* of a creature object, raids, an npc's customers, houses, items that     *)
(* decay, monsters and their targets.  Each part has an inductive          *)
(* invariant of its own; a step of one part leaves the others alone.       *)
(***************************************************************************)
EXTENDS MCWorld, Sequences, FiniteSetTheorems, WellFoundedInduction, TLAPS

\* Induction over the natural numbers: the smallest counterexample.
LEMMA SmallestOfSet ==
  ASSUME NEW S \in SUBSET Nat, S # {} PROVE \E k \in S : \A j \in S : k <= j
<1> DEFINE Less == {ss \in Nat \X Nat : ss[1] < ss[2]}
<1>1. IsWellFoundedOn(Less, Nat)
  BY NatLessThanWellFounded DEF OpToRel
<1>2. PICK k \in S : \A j \in S : ~(<<j, k>> \in Less)
  <2> HIDE DEF Less
  <2> QED BY <1>1, WFMin
<1>3. \A j \in S : ~(j < k)
  BY <1>2
<1> QED BY <1>3

-----------------------------------------------------------------------------
(* A spawn (Spawns).                                                       *)

\* SpawnInv is not inductive: that the count does not exceed the amount when the spawn
\* starts needs that nothing was counted before.
\* Before it starts a spawn has no monsters and looks for none.
BeforeStart ==
  state = "loaded" =>
    activeMonsters = 0 /\ lost = 0 /\ ~pending /\ \A m \in Monsters : monster[m] = "none"

SpawnIInv == SpawnInv /\ BeforeStart

LEMMA HereIsFinite ==
  ASSUME SpawnsAssumption
  PROVE  /\ IsFiniteSet(Here) /\ Cardinality(Here) \in Nat
         /\ Cardinality(Here) <= Cardinality(Monsters) /\ Cardinality(Monsters) \in Nat
<1>1. Here \in SUBSET Monsters
  BY DEF Here
<1> QED BY <1>1, FS_Subset, FS_CardinalityType DEF SpawnsAssumption

LEMMA ReturnedIsFinite ==
  ASSUME SpawnsAssumption, NEW S \in SUBSET Monsters
  PROVE  IsFiniteSet(S) /\ Cardinality(S) \in Nat
BY FS_Subset, FS_CardinalityType DEF SpawnsAssumption

\* One that goes is one less, one that comes one more.
LEMMA OneLess ==
  ASSUME SpawnsAssumption, NEW S \in SUBSET Monsters, NEW m
  PROVE  Cardinality(S \ {m}) = IF m \in S THEN Cardinality(S) - 1 ELSE Cardinality(S)
BY FS_RemoveElement, ReturnedIsFinite

LEMMA OneMore ==
  ASSUME SpawnsAssumption, NEW S \in SUBSET Monsters, NEW m \in Monsters \ S
  PROVE  Cardinality(S \cup {m}) = Cardinality(S) + 1
BY FS_AddElement, ReturnedIsFinite

LEMMA SomeMore ==
  ASSUME SpawnsAssumption, NEW S \in SUBSET Monsters, NEW more \in SUBSET Monsters, S \cap more = {}
  PROVE  Cardinality(S \cup more) = Cardinality(S) + Cardinality(more)
<1>1. Cardinality(S \cap more) = 0
  BY FS_EmptySet
<1>2. IsFiniteSet(S) /\ IsFiniteSet(more) /\ Cardinality(S) \in Nat /\ Cardinality(more) \in Nat
  BY ReturnedIsFinite
<1>3. Cardinality(S \cup more) = Cardinality(S) + Cardinality(more) - Cardinality(S \cap more)
  BY <1>2, FS_Union
<1> QED BY <1>1, <1>2, <1>3

\* What spawnMonster leaves behind, for n blocks.
LEMMA Spawned ==
  ASSUME SpawnsAssumption, SpawnIInv, NEW n \in Nat, SpawnMonsters(n), returned' = returned
  PROVE  /\ activeMonsters' = activeMonsters + n
         /\ lost' \in lost .. MaxLost
         /\ monster' \in [Monsters -> {"none", "here", "away"}]
         /\ Here \subseteq Here'
         /\ activeMonsters' = Cardinality(Here') + lost'
<1>1. PICK ms \in SUBSET Unused :
         /\ Cardinality(ms) <= n
         /\ lost + (n - Cardinality(ms)) <= MaxLost /\ lost' = lost + (n - Cardinality(ms))
         /\ monster' = [m \in Monsters |-> IF m \in ms THEN "here" ELSE monster[m]]
         /\ activeMonsters' = activeMonsters + n
  BY DEF SpawnMonsters
<1>2. /\ ms \in SUBSET Monsters /\ Here \in SUBSET Monsters /\ Here \cap ms = {}
      /\ Here' = Here \cup ms
  BY <1>1 DEF Unused, Here
<1>3. Cardinality(Here') = Cardinality(Here) + Cardinality(ms)
  BY <1>2, SomeMore
<1>4. /\ Cardinality(Here) \in Nat /\ Cardinality(ms) \in Nat /\ lost \in 0 .. MaxLost
      /\ activeMonsters = Cardinality(Here) + lost /\ MaxLost \in Nat
  BY <1>2, ReturnedIsFinite DEF SpawnIInv, SpawnInv, SpawnTypeOK, CountIsRight, SpawnsAssumption
<1>5. monster' \in [Monsters -> {"none", "here", "away"}]
  BY <1>1 DEF SpawnIInv, SpawnInv, SpawnTypeOK
<1>6. /\ lost' \in lost .. MaxLost
      /\ activeMonsters' = Cardinality(Here') + lost'
  BY <1>1, <1>3, <1>4
<1> QED BY <1>1, <1>2, <1>5, <1>6

\* The type of the count follows from its being right.
LEMMA CountInType ==
  ASSUME SpawnsAssumption, CountIsRight, lost \in 0 .. MaxLost
  PROVE  activeMonsters \in 0 .. Cardinality(Monsters) + MaxLost
BY HereIsFinite DEF CountIsRight, SpawnsAssumption

\* The facts about numbers that every step uses.
LEMMA SpawnNumbers ==
  ASSUME SpawnsAssumption, SpawnIInv
  PROVE  /\ activeMonsters \in Nat /\ lost \in 0 .. MaxLost /\ Amount \in Nat /\ MaxLost \in Nat
         /\ Here \in SUBSET Monsters /\ returned \in SUBSET Here
         /\ Cardinality(Here) \in Nat /\ Cardinality(returned) \in Nat
         /\ activeMonsters = Cardinality(Here) + lost
         /\ activeMonsters <= Amount + Cardinality(returned) + lost
<1>1. Here \in SUBSET Monsters /\ returned \in SUBSET Here
  BY DEF Here, SpawnIInv, SpawnInv, SpawnTypeOK
<1>2. Cardinality(Here) \in Nat /\ Cardinality(returned) \in Nat
  BY <1>1, ReturnedIsFinite
<1> QED BY <1>1, <1>2
        DEF SpawnIInv, SpawnInv, SpawnTypeOK, CountIsRight, NotTooMany, SpawnsAssumption

LEMMA SpawnsInit == ASSUME SpawnsAssumption, Init PROVE SpawnIInv
<1>1. Here = {} /\ returned = {} /\ Cardinality({}) = 0 /\ Cardinality(Monsters) \in Nat
  BY FS_EmptySet, HereIsFinite DEF Init, Here
<1>2. SpawnTypeOK /\ CountIsRight /\ NotTooMany
  <2>1. Cardinality(Here) = 0 /\ Cardinality(returned) = 0 /\ activeMonsters = 0 /\ lost = 0
    BY <1>1 DEF Init
  <2>2. CountIsRight /\ NotTooMany /\ activeMonsters \in 0 .. Cardinality(Monsters) + MaxLost
    BY <1>1, <2>1 DEF CountIsRight, NotTooMany, SpawnsAssumption
  <2>3. monster \in [Monsters -> {"none", "here", "away"}] /\ ready \in SUBSET Blocks
    BY DEF Init
  <2>4. checkSpawnEvent \in BOOLEAN /\ pending \in BOOLEAN /\ state = "loaded"
    BY DEF Init
  <2>5. returned \subseteq Here /\ lost \in 0 .. MaxLost
    BY <1>1, <2>1 DEF SpawnsAssumption
  <2>6. SpawnTypeOK
    BY <2>2, <2>3, <2>4, <2>5 DEF SpawnTypeOK
  <2> QED BY <2>2, <2>6
<1>3. MissedIsLookedFor /\ BeforeStart
  BY <1>1 DEF Init, MissedIsLookedFor, BeforeStart
<1> QED BY <1>2, <1>3 DEF SpawnIInv, SpawnInv

LEMMA Started == ASSUME SpawnsAssumption, SpawnIInv, Startup PROVE SpawnIInv'
<1>1. PICK n \in 0 .. Amount :
         SpawnMonsters(n) /\ state' = IF n < Amount THEN "short" ELSE "started"
  BY DEF Startup
<1>2. UNCHANGED <<checkSpawnEvent, pending, ready, returned>> /\ state = "loaded"
  BY DEF Startup
<1>3. n \in Nat /\ n <= Amount /\ activeMonsters = 0
  BY <1>1, <1>2, SpawnNumbers DEF SpawnIInv, BeforeStart
<1>4. /\ activeMonsters' = n /\ lost' \in 0 .. MaxLost
      /\ monster' \in [Monsters -> {"none", "here", "away"}]
      /\ Here \subseteq Here' /\ activeMonsters' = Cardinality(Here') + lost'
  BY <1>1, <1>2, <1>3, Spawned, SpawnNumbers
<1>5. CountIsRight' /\ activeMonsters' \in 0 .. Cardinality(Monsters) + MaxLost
  <2>1. Here' \in SUBSET Monsters
    BY DEF Here
  <2>2. Cardinality(Here') \in Nat /\ Cardinality(Here') <= Cardinality(Monsters)
        /\ Cardinality(Monsters) \in Nat
    BY <2>1, FS_Subset, FS_CardinalityType DEF SpawnsAssumption
  <2> QED BY <1>4, <2>2, SpawnNumbers DEF CountIsRight
<1>6. SpawnTypeOK'
  BY <1>1, <1>2, <1>4, <1>5 DEF SpawnIInv, SpawnInv, SpawnTypeOK
<1>7. NotTooMany'
  BY <1>2, <1>3, <1>4, SpawnNumbers DEF NotTooMany
<1>8. MissedIsLookedFor' /\ BeforeStart'
  BY <1>1, <1>2, <1>3, <1>4 DEF SpawnIInv, SpawnInv, MissedIsLookedFor, BeforeStart
<1> QED BY <1>5, <1>6, <1>7, <1>8 DEF SpawnIInv, SpawnInv

LEMMA Checked == ASSUME SpawnsAssumption, SpawnIInv, CheckSpawn PROVE SpawnIInv'
<1>1. pending /\ UNCHANGED <<returned, state>>
  BY DEF CheckSpawn
<1>2. CASE activeMonsters >= Amount
  <2>1. /\ checkSpawnEvent' = FALSE /\ pending' = FALSE
        /\ UNCHANGED <<activeMonsters, ready, monster, lost>>
    BY <1>2 DEF CheckSpawn, CheckOver
  <2>2. SpawnTypeOK' /\ CountIsRight' /\ NotTooMany'
    BY <1>1, <2>1 DEF SpawnIInv, SpawnInv, SpawnTypeOK, CountIsRight, NotTooMany, Here
  <2>3. MissedIsLookedFor'
    BY <1>1, <1>2, <2>1, SpawnNumbers DEF MissedIsLookedFor
  <2>4. BeforeStart'
    BY <1>1 DEF SpawnIInv, BeforeStart
  <2> QED BY <2>2, <2>3, <2>4 DEF SpawnIInv, SpawnInv
<1>3. CASE ~(activeMonsters >= Amount)
  <2>1. PICK tried \in SUBSET ready : \E n \in 0 .. Cardinality(tried) :
           activeMonsters + n <= Amount /\ SpawnMonsters(n) /\ ready' = ready \ tried
    BY <1>3 DEF CheckSpawn
  <2>2. PICK n \in 0 .. Cardinality(tried) :
           activeMonsters + n <= Amount /\ SpawnMonsters(n) /\ ready' = ready \ tried
    BY <2>1
  <2>3. checkSpawnEvent' = TRUE /\ pending' = TRUE
    BY <1>3 DEF CheckSpawn
  <2>4. n \in Nat
    <3>1. ready \in SUBSET Blocks /\ IsFiniteSet(Blocks)
      BY FS_Interval DEF SpawnIInv, SpawnInv, SpawnTypeOK, Blocks, SpawnsAssumption
    <3>2. Cardinality(tried) \in Nat
      BY <2>1, <3>1, FS_Subset, FS_CardinalityType
    <3> QED BY <2>2, <3>2
  <2>5. /\ activeMonsters' = activeMonsters + n /\ lost' \in lost .. MaxLost
        /\ monster' \in [Monsters -> {"none", "here", "away"}]
        /\ Here \subseteq Here' /\ activeMonsters' = Cardinality(Here') + lost'
    BY <1>1, <2>2, <2>4, Spawned
  <2>6. CountIsRight' /\ activeMonsters' \in 0 .. Cardinality(Monsters) + MaxLost
    <3>1. Here' \in SUBSET Monsters
      BY DEF Here
    <3>2. Cardinality(Here') \in Nat /\ Cardinality(Here') <= Cardinality(Monsters)
          /\ Cardinality(Monsters) \in Nat
      BY <3>1, FS_Subset, FS_CardinalityType DEF SpawnsAssumption
    <3> QED BY <2>5, <3>2, SpawnNumbers DEF CountIsRight
  <2>7. SpawnTypeOK'
    BY <1>1, <2>2, <2>3, <2>5, <2>6, SpawnNumbers DEF SpawnIInv, SpawnInv, SpawnTypeOK
  <2>8. NotTooMany'
    BY <1>1, <2>2, <2>4, <2>5, SpawnNumbers DEF NotTooMany
  <2>9. MissedIsLookedFor'
    BY <2>3 DEF MissedIsLookedFor
  <2>10. BeforeStart'
    BY <1>1 DEF SpawnIInv, BeforeStart
  <2> QED BY <2>6, <2>7, <2>8, <2>9, <2>10 DEF SpawnIInv, SpawnInv
<1> QED BY <1>2, <1>3

\* One monster that was here goes and is discounted: another is looked for.
LEMMA Discounted ==
  ASSUME SpawnsAssumption, SpawnIInv, NEW m \in Monsters, monster[m] = "here",
         NEW to \in {"none", "away"}, monster' = [monster EXCEPT ![m] = to],
         activeMonsters' = activeMonsters - 1, StartSpawnCheck,
         returned' = returned \ {m}, UNCHANGED <<ready, lost>>
  PROVE  SpawnIInv'
<1>1. state # "loaded" /\ m \in Here /\ Here' = Here \ {m}
  BY DEF SpawnIInv, SpawnInv, SpawnTypeOK, BeforeStart, Here
<1>2. /\ Cardinality(Here') = Cardinality(Here) - 1
      /\ Cardinality(returned') >= Cardinality(returned) - 1 /\ Cardinality(returned') \in Nat
  <2>1. Here \in SUBSET Monsters /\ returned \in SUBSET Monsters /\ returned' \in SUBSET Monsters
    BY SpawnNumbers
  <2> QED BY <1>1, <2>1, OneLess, ReturnedIsFinite
<1>3. CountIsRight'
  BY <1>2, SpawnNumbers DEF CountIsRight
<1>4. activeMonsters' \in 0 .. Cardinality(Monsters) + MaxLost
  <2>1. /\ activeMonsters \in 0 .. Cardinality(Monsters) + MaxLost
        /\ Cardinality(Monsters) + MaxLost \in Nat
    BY HereIsFinite DEF SpawnIInv, SpawnInv, SpawnTypeOK, SpawnsAssumption
  <2>2. Cardinality(Here') \in Nat
    BY FS_Subset, FS_CardinalityType DEF Here, SpawnsAssumption
  <2> QED BY <1>2, <2>1, <2>2, SpawnNumbers
<1>5. SpawnTypeOK'
  BY <1>1, <1>4, SpawnNumbers DEF SpawnIInv, SpawnInv, SpawnTypeOK, StartSpawnCheck
<1>6. NotTooMany'
  BY <1>2, SpawnNumbers DEF NotTooMany
<1>7. MissedIsLookedFor' /\ BeforeStart'
  BY <1>1 DEF SpawnIInv, SpawnInv, SpawnTypeOK, MissedIsLookedFor, BeforeStart, StartSpawnCheck
<1> QED BY <1>3, <1>5, <1>6, <1>7 DEF SpawnIInv, SpawnInv

LEMMA MonsterRemoved ==
  ASSUME SpawnsAssumption, SpawnIInv, NEW m \in Monsters, Remove(m) PROVE SpawnIInv'
<1>1. /\ monster[m] # "none" /\ monster' = [monster EXCEPT ![m] = "none"]
      /\ returned' = returned \ {m} /\ UNCHANGED ready
  BY DEF Remove
<1>2. CASE monster[m] = "here" /\ activeMonsters' = activeMonsters - 1 /\ StartSpawnCheck /\ UNCHANGED lost
  BY <1>1, <1>2, Discounted
<1>3. CASE /\ monster[m] = "here" => lost < MaxLost
           /\ lost' = IF monster[m] = "here" THEN lost + 1 ELSE lost
           /\ UNCHANGED <<activeMonsters, checkSpawnEvent, pending, state>>
  <2>1. state # "loaded"
    BY <1>1 DEF SpawnIInv, BeforeStart
  <2>2. /\ Here' = Here \ {m} /\ (m \in Here <=> monster[m] = "here")
        /\ Here \in SUBSET Monsters /\ returned \in SUBSET Here
    BY <1>1, SpawnNumbers DEF SpawnIInv, SpawnInv, SpawnTypeOK, Here
  <2>3. /\ Cardinality(Here') = IF m \in Here THEN Cardinality(Here) - 1 ELSE Cardinality(Here)
        /\ Cardinality(returned') = IF m \in returned THEN Cardinality(returned) - 1
                                    ELSE Cardinality(returned)
    BY <1>1, <2>2, OneLess
  <2>4. CountIsRight' /\ NotTooMany' /\ lost' \in 0 .. MaxLost
    BY <1>3, <2>2, <2>3, SpawnNumbers DEF CountIsRight, NotTooMany
  <2>5. SpawnTypeOK'
    BY <1>1, <1>3, <2>2, <2>4 DEF SpawnIInv, SpawnInv, SpawnTypeOK
  <2>6. MissedIsLookedFor' /\ BeforeStart'
    BY <1>3, <2>1 DEF SpawnIInv, SpawnInv, MissedIsLookedFor, BeforeStart
  <2> QED BY <2>4, <2>5, <2>6 DEF SpawnIInv, SpawnInv
<1> QED BY <1>2, <1>3 DEF Remove

LEMMA MonsterLeaves ==
  ASSUME SpawnsAssumption, SpawnIInv, NEW m \in Monsters, Leave(m) PROVE SpawnIInv'
BY Discounted DEF Leave

LEMMA MonsterReturns ==
  ASSUME SpawnsAssumption, SpawnIInv, NEW m \in Monsters, Return(m) PROVE SpawnIInv'
<1>1. /\ monster[m] = "away" /\ monster' = [monster EXCEPT ![m] = "here"]
      /\ activeMonsters' = activeMonsters + 1 /\ returned' = returned \cup {m}
      /\ UNCHANGED <<checkSpawnEvent, pending, ready, lost, state>>
  BY DEF Return
<1>2. state # "loaded"
  BY <1>1 DEF SpawnIInv, BeforeStart
<1>3. /\ Here' = Here \cup {m} /\ m \in Monsters \ Here
      /\ Here \in SUBSET Monsters /\ returned \in SUBSET Here
  BY <1>1, SpawnNumbers DEF SpawnIInv, SpawnInv, SpawnTypeOK, Here
<1>4. /\ Cardinality(Here') = Cardinality(Here) + 1
      /\ Cardinality(returned') = Cardinality(returned) + 1
  BY <1>1, <1>3, OneMore
<1>5. CountIsRight' /\ NotTooMany'
  BY <1>1, <1>4, SpawnNumbers DEF CountIsRight, NotTooMany
<1>6. activeMonsters' \in 0 .. Cardinality(Monsters) + MaxLost
  <2>1. Here' \in SUBSET Monsters
    BY DEF Here
  <2>2. Cardinality(Here') <= Cardinality(Monsters) /\ Cardinality(Monsters) \in Nat
    BY <2>1, FS_Subset, FS_CardinalityType DEF SpawnsAssumption
  <2> QED BY <1>1, <1>4, <2>2, SpawnNumbers
<1>7. SpawnTypeOK'
  BY <1>1, <1>3, <1>6 DEF SpawnIInv, SpawnInv, SpawnTypeOK
<1>8. MissedIsLookedFor' /\ BeforeStart'
  BY <1>1, <1>2, SpawnNumbers DEF SpawnIInv, SpawnInv, MissedIsLookedFor, BeforeStart
<1> QED BY <1>5, <1>7, <1>8 DEF SpawnIInv, SpawnInv

LEMMA SpawnsStep == ASSUME SpawnsAssumption, SpawnIInv, [Next]_vars PROVE SpawnIInv'
<1>1. CASE Startup
  BY <1>1, Started
<1>2. CASE CheckSpawn
  BY <1>2, Checked
<1>3. CASE Clear
  BY <1>3 DEF Clear, SpawnIInv, SpawnInv, SpawnTypeOK, CountIsRight, NotTooMany,
              MissedIsLookedFor, BeforeStart, Here
<1>4. CASE \E b \in Blocks : Elapse(b)
  BY <1>4 DEF Elapse, SpawnIInv, SpawnInv, SpawnTypeOK, CountIsRight, NotTooMany,
              MissedIsLookedFor, BeforeStart, Here
<1>5. CASE \E m \in Monsters : Remove(m)
  BY <1>5, MonsterRemoved
<1>6. CASE \E m \in Monsters : Leave(m)
  BY <1>6, MonsterLeaves
<1>7. CASE \E m \in Monsters : Return(m)
  BY <1>7, MonsterReturns
<1>8. CASE UNCHANGED vars
  BY <1>8 DEF vars, SpawnIInv, SpawnInv, SpawnTypeOK, CountIsRight, NotTooMany,
              MissedIsLookedFor, BeforeStart, Here
<1> QED BY <1>1, <1>2, <1>3, <1>4, <1>5, <1>6, <1>7, <1>8 DEF Next

-----------------------------------------------------------------------------
(* Creature objects (Lives).                                               *)

One(b) == IF b THEN 1 ELSE 0

\* What Held of Lives adds up, without the cardinality.
HeldBy(c) ==
  u8[c] + One(u1[c] = "placed") + One(c \in u5) + One(c \in u6) + One(c \in u7)

LivesIInv ==
  /\ u1 \in [Bodies -> {"new", "placed", "removed", "freed"}]
  /\ u2 \in [Bodies -> {0, 1}]
  /\ u3 \in [Bodies -> Nat] /\ u8 \in [Bodies -> Nat]
  /\ u4 \subseteq Bodies /\ u5 \subseteq Bodies /\ u6 \subseteq Bodies /\ u7 \subseteq Bodies
  /\ u9 \subseteq Souls
  /\ \A c \in Bodies :
       /\ u1[c] \in {"placed", "removed"} => u3[c] >= HeldBy(c)
       /\ u1[c] \in {"new", "freed"} => u3[c] = 0 /\ u8[c] = 0 /\ c \notin u5 \cup u6 \cup u7
       /\ u1[c] = "new" => u2[c] = 1
       /\ u1[c] = "placed" /\ u2[c] = 0 => c \in u6

LEMMA LivesCardinality ==
  ASSUME NEW S
  PROVE  L!Cardinality(S) = Cardinality(S)
BY DEF L!Cardinality, Cardinality

LEMMA ThreeSets ==
  ASSUME NEW a \in BOOLEAN, NEW b \in BOOLEAN, NEW d \in BOOLEAN
  PROVE  Cardinality((IF a THEN {"listed"} ELSE {}) \cup (IF b THEN {"killed"} ELSE {})
                     \cup (IF d THEN {"leaving"} ELSE {})) = One(a) + One(b) + One(d)
<1> DEFINE A == IF a THEN {"listed"} ELSE {}
           B == A \cup (IF b THEN {"killed"} ELSE {})
           C == B \cup (IF d THEN {"leaving"} ELSE {})
<1>1. IsFiniteSet(A) /\ Cardinality(A) = One(a) /\ A \subseteq {"listed"}
  BY FS_EmptySet, FS_Singleton DEF One
<1> HIDE DEF A
<1>2. IsFiniteSet(B) /\ Cardinality(B) = One(a) + One(b) /\ B \subseteq {"listed", "killed"}
  <2>1. CASE b
    <3>1. "killed" \notin A
      BY <1>1
    <3> QED BY <1>1, <2>1, <3>1, FS_AddElement DEF One
  <2>2. CASE ~b
    BY <1>1, <2>2 DEF One
  <2> QED BY <2>1, <2>2
<1> HIDE DEF B
<1>3. Cardinality(C) = One(a) + One(b) + One(d)
  <2>1. CASE d
    <3>1. "leaving" \notin B
      BY <1>2
    <3> QED BY <1>2, <2>1, <3>1, FS_AddElement DEF One
  <2>2. CASE ~d
    BY <1>2, <2>2 DEF One
  <2> QED BY <2>1, <2>2
<1> QED BY <1>3 DEF B, A

LEMMA HeldIsHeldBy ==
  ASSUME NEW c, u8[c] \in Nat
  PROVE  L!Held(c) = HeldBy(c)
<1> DEFINE in(S) == c \in CASE S = "listed" -> u5 [] S = "killed" -> u6 [] S = "leaving" -> u7
           X == {S \in {"listed", "killed", "leaving"} : in(S)}
           Y == (IF c \in u5 THEN {"listed"} ELSE {}) \cup (IF c \in u6 THEN {"killed"} ELSE {})
                     \cup (IF c \in u7 THEN {"leaving"} ELSE {})
<1>1. /\ in("listed") <=> c \in u5
      /\ in("killed") <=> c \in u6
      /\ in("leaving") <=> c \in u7
  OBVIOUS
<1> HIDE DEF in
<1>2. X = Y
  BY <1>1
<1>3. Cardinality(Y) = One(c \in u5) + One(c \in u6) + One(c \in u7)
  <2>1. (c \in u5) \in BOOLEAN /\ (c \in u6) \in BOOLEAN /\ (c \in u7) \in BOOLEAN
    OBVIOUS
  <2> QED BY <2>1, ThreeSets, Zenon
<1> HIDE DEF Y, X
<1>4. L!Cardinality(X) = One(c \in u5) + One(c \in u6) + One(c \in u7)
  BY <1>2, <1>3, LivesCardinality
<1>5. L!Held(c) = u8[c] + (IF L!Placed(c) THEN 1 ELSE 0) + L!Cardinality(X)
  BY DEF L!Held, X, in
<1> QED BY <1>4, <1>5 DEF HeldBy, One, L!Placed

LEMMA LivesIInvImpliesInv ==
  ASSUME LivesIInv
  PROVE  L!LivesInv
<1>1. \A c \in Bodies : L!Held(c) = HeldBy(c)
  BY HeldIsHeldBy DEF LivesIInv
<1>2. \A c \in Bodies : u1[c] = "freed" => HeldBy(c) = 0
  BY DEF LivesIInv, HeldBy, One
<1>3. L!PointersHold
  BY <1>1, <1>2 DEF L!PointersHold, LivesIInv
<1> QED BY <1>3 DEF LivesIInv, L!LivesInv, L!LivesTypeOK, L!DeadAwaitDeath, L!Placed

LEMMA LivesInitIInv ==
  ASSUME L!Init
  PROVE  LivesIInv
BY DEF L!Init, LivesIInv

LEMMA PlaceCreatureIInv ==
  ASSUME LivesIInv, NEW c \in Bodies, L!PlaceCreature(c)
  PROVE  LivesIInv'
BY DEF L!PlaceCreature, L!AddCreatureCheck, L!Placed, L!Bounded, LivesIInv, HeldBy, One

LEMMA SleepIInv ==
  ASSUME LivesIInv, NEW c \in Bodies, L!Sleep(c)
  PROVE  LivesIInv'
BY DEF L!Sleep, L!Placed, L!Bounded, LivesIInv, HeldBy, One

LEMMA WakeIInv ==
  ASSUME LivesIInv, NEW c \in Bodies, L!Wake(c)
  PROVE  LivesIInv'
BY DEF L!Wake, L!AddCreatureCheck, L!Bump, L!Placed, L!Bounded, LivesIInv, HeldBy, One

LEMMA StepIInv ==
  ASSUME LivesIInv, NEW c \in Bodies, L!Step(c)
  PROVE  LivesIInv'
BY DEF L!Step, L!Bump, L!Placed, L!Bounded, LivesIInv, HeldBy, One

LEMMA KillIInv ==
  ASSUME LivesIInv, NEW c \in Bodies, L!Kill(c)
  PROVE  LivesIInv'
BY DEF L!Kill, L!Killing, L!ExecuteDeath, L!Bump, L!Placed, L!Bounded, LivesIInv, HeldBy, One

LEMMA SavePlayerIInv ==
  ASSUME LivesIInv, NEW c \in Bodies, L!SavePlayer(c)
  PROVE  LivesIInv'
BY DEF L!SavePlayer, L!Placed, L!Bounded, LivesIInv, HeldBy, One

LEMMA LogoutIInv ==
  ASSUME LivesIInv, NEW c \in Bodies, L!Logout(c)
  PROVE  LivesIInv'
BY DEF L!Logout, L!ExecuteRemoveCreature, L!Bump, L!Placed, L!Bounded, LivesIInv, HeldBy, One

LEMMA SendPingIInv ==
  ASSUME LivesIInv, NEW c \in Bodies, L!SendPing(c)
  PROVE  LivesIInv'
BY DEF L!SendPing, L!ExecuteRemoveCreature, L!Bump, L!Placed, L!Bounded, LivesIInv, HeldBy, One

LEMMA RemoveCreatureIInv ==
  ASSUME LivesIInv, NEW c \in Bodies, L!RemoveCreature(c)
  PROVE  LivesIInv'
BY DEF L!RemoveCreature, L!Remove, L!Bump, L!Placed, L!Bounded, LivesIInv, HeldBy, One

LEMMA ProcessRemovedCreaturesIInv ==
  ASSUME LivesIInv, NEW spared \in SUBSET Souls, L!ProcessRemovedCreatures(spared)
  PROVE  LivesIInv'
<1> DEFINE dying == {c \in u6 : L!Placed(c)}
           dead == dying \ spared
           going == {c \in u7 : L!Placed(c) /\ c \notin dead}
           less(c) == (IF c \in dying THEN 1 ELSE 0) + (IF c \in going THEN 1 ELSE 0)
<1>1. /\ spared \subseteq dying \cap Souls
      /\ u1' = [c \in Bodies |-> IF c \in dead \cup going THEN "removed" ELSE u1[c]]
      /\ u8' = [c \in Bodies |-> IF c \in dead \cup going THEN u8[c] + 1 ELSE u8[c]]
      /\ u4' = u4 \ (dead \cup going)
      /\ u2' = [c \in Bodies |-> IF c \in spared THEN 1 ELSE u2[c]]
      /\ u3' = [c \in Bodies |-> u3[c] - less(c)]
      /\ u6' = {} /\ u7' = {} /\ UNCHANGED <<u5, u9>>
  BY DEF L!ProcessRemovedCreatures, L!Remove, L!Bump
<1>2. \A c : /\ c \in dying <=> c \in u6 /\ u1[c] = "placed"
             /\ c \in dead <=> c \in dying /\ c \notin spared
             /\ c \in going <=> c \in u7 /\ u1[c] = "placed" /\ c \notin dead
             /\ less(c) = One(c \in dying) + One(c \in going)
  BY DEF L!Placed, One
<1> HIDE DEF dying, dead, going, less
<1>3. ASSUME NEW c \in Bodies
      PROVE  /\ u1'[c] = (IF c \in dead \cup going THEN "removed" ELSE u1[c])
             /\ u8'[c] = (IF c \in dead \cup going THEN u8[c] + 1 ELSE u8[c])
             /\ u3'[c] = u3[c] - less(c)
             /\ u2'[c] = (IF c \in spared THEN 1 ELSE u2[c])
             /\ c \notin u6' \cup u7' /\ (c \in u5' <=> c \in u5)
  BY <1>1
<1>4. ASSUME NEW c \in Bodies
      PROVE  /\ u3'[c] \in Nat
             /\ u1'[c] \in {"placed", "removed"} => u3'[c] >= HeldBy(c)'
             /\ u1'[c] \in {"new", "freed"} => u3'[c] = 0 /\ u8'[c] = 0 /\ c \notin u5' \cup u6' \cup u7'
             /\ u1'[c] = "new" => u2'[c] = 1
             /\ u1'[c] = "placed" /\ u2'[c] = 0 => c \in u6'
  BY <1>1, <1>2, <1>3 DEF LivesIInv, HeldBy, One
<1>5. /\ u1' \in [Bodies -> {"new", "placed", "removed", "freed"}]
      /\ u2' \in [Bodies -> {0, 1}] /\ u8' \in [Bodies -> Nat]
      /\ u4' \subseteq Bodies /\ u5' \subseteq Bodies /\ u6' \subseteq Bodies /\ u7' \subseteq Bodies
      /\ u9' \subseteq Souls
  BY <1>1 DEF LivesIInv
<1>6. u3' \in [Bodies -> Nat]
  BY <1>1, <1>4
<1> QED BY <1>4, <1>5, <1>6 DEF LivesIInv

LEMMA CheckCreaturesIInv ==
  ASSUME LivesIInv, NEW turn, L!CheckCreatures(turn)
  PROVE  LivesIInv'
<1> DEFINE gone == turn \ u4
           left(c) == u3[c] - u8[c] - One(c \in gone)
<1>1. /\ turn \subseteq u5 /\ u5' = u5 \ gone
      /\ u3' = [c \in Bodies |-> left(c)]
      /\ u8' = [c \in Bodies |-> 0]
      /\ u1' = [c \in Bodies |-> IF u1[c] # "new" /\ left(c) = 0 THEN "freed" ELSE u1[c]]
      /\ UNCHANGED <<u2, u4, u6, u7, u9>>
  BY DEF L!CheckCreatures, L!Cleanup, One
<1> HIDE DEF gone, left
<1>2. ASSUME NEW c \in Bodies
      PROVE  /\ u3'[c] \in Nat
             /\ u1'[c] \in {"placed", "removed"} => u3'[c] >= HeldBy(c)'
             /\ u1'[c] \in {"new", "freed"} => u3'[c] = 0 /\ u8'[c] = 0 /\ c \notin u5' \cup u6' \cup u7'
             /\ u1'[c] = "new" => u2'[c] = 1
             /\ u1'[c] = "placed" /\ u2'[c] = 0 => c \in u6'
  <2>1. /\ u3'[c] = left(c) /\ u8'[c] = 0
        /\ u1'[c] = IF u1[c] # "new" /\ left(c) = 0 THEN "freed" ELSE u1[c]
        /\ c \in u5' <=> c \in u5 /\ c \notin gone
        /\ c \in gone => c \in u5
        /\ UNCHANGED <<u2, u6, u7>>
    BY <1>1 DEF gone
  <2>2. left(c) = u3[c] - u8[c] - One(c \in gone)
    BY DEF left
  <2> QED BY <2>1, <2>2 DEF LivesIInv, HeldBy, One
<1>3. u3' \in [Bodies -> Nat]
  BY <1>1, <1>2
<1>4. /\ u1' \in [Bodies -> {"new", "placed", "removed", "freed"}] /\ u8' \in [Bodies -> Nat]
      /\ u2' \in [Bodies -> {0, 1}]
      /\ u4' \subseteq Bodies /\ u5' \subseteq Bodies /\ u6' \subseteq Bodies /\ u7' \subseteq Bodies
      /\ u9' \subseteq Souls
  BY <1>1 DEF LivesIInv
<1> QED BY <1>2, <1>3, <1>4 DEF LivesIInv

LEMMA LivesStepIInv ==
  ASSUME LivesIInv, [L!Next]_(L!vars)
  PROVE  LivesIInv'
<1>1. CASE L!Next
  BY <1>1, PlaceCreatureIInv, SleepIInv, WakeIInv, StepIInv, KillIInv, SavePlayerIInv, LogoutIInv,
     SendPingIInv, RemoveCreatureIInv, ProcessRemovedCreaturesIInv, CheckCreaturesIInv
  DEF L!Next
<1>2. CASE UNCHANGED L!vars
  BY <1>2 DEF L!vars, LivesIInv, HeldBy, One
<1> QED BY <1>1, <1>2

-----------------------------------------------------------------------------
(* Raids (Raids).                                                          *)

\* RaidsInv, and that no task is of a load to come.
RaidsIInv ==
  /\ R!RaidsInv
  /\ u6 <= u1
  /\ \A e \in u7 : e.load <= u1

LEMMA RaidsTask ==
  ASSUME R!RaidsAssumption, R!RaidsTypeOK, NEW r \in Names, NEW n \in Nat
  PROVE  /\ R!Schedule(r, n) \subseteq [name : Names, at : Nat, load : 1..MaxLoads]
         /\ \A e \in R!Schedule(r, n) : e.load = u1
         /\ R!Schedule(r, n) = IF n < Events[r] THEN {[name |-> r, at |-> n, load |-> u1]} ELSE {}
BY DEF R!RaidsAssumption, R!RaidsTypeOK, R!Schedule

LEMMA RaidsInitIInv ==
  ASSUME R!RaidsAssumption, R!Init PROVE RaidsIInv
BY DEF R!RaidsAssumption, R!Init, RaidsIInv, R!RaidsInv, R!RaidsTypeOK, R!RunsAlone, R!InOrder

\* A raid starts while none runs, and therefore none has a task.
LEMMA RaidStarts ==
  ASSUME R!RaidsAssumption, RaidsIInv, NEW r \in Names, R!Idle, u9 < MaxRuns, R!StartRaid(r),
         UNCHANGED <<u1, u3, u6>>, u4' \subseteq Names, u5' \subseteq Names
  PROVE  RaidsIInv'
<1> USE DEF R!Idle, R!NoneRuns, R!RaidsInv
<1>1. {e \in u7 : e.load = u1} = {} /\ u3[r] = 0 /\ u3[r] \in Nat
  BY DEF RaidsIInv, R!RunsAlone, R!InOrder, R!RaidsAssumption, R!RaidsTypeOK
<1>2. R!RaidsTypeOK'
  BY <1>1, RaidsTask DEF RaidsIInv, R!StartRaid, R!RaidsTypeOK, R!RaidsAssumption
<1>3. R!RunsAlone'
  <2>1. {e \in u7' : e.load = u1} = R!Schedule(r, u3[r])
    BY <1>1, RaidsTask DEF RaidsIInv, R!StartRaid
  <2>2. R!Schedule(r, u3[r])
          = IF u3[r] < Events[r] THEN {[name |-> r, at |-> u3[r], load |-> u1]} ELSE {}
    BY <1>1, RaidsTask DEF RaidsIInv
  <2> QED BY <2>1, <2>2 DEF R!StartRaid, R!RunsAlone, R!RaidsAssumption
<1>4. R!InOrder'
  BY <1>1 DEF RaidsIInv, R!StartRaid, R!InOrder, R!RaidsTypeOK, R!RaidsAssumption
<1>5. \A e \in u7' : e.load <= u1
  BY <1>1, RaidsTask DEF RaidsIInv, R!StartRaid, R!RaidsTypeOK
<1> QED BY <1>2, <1>3, <1>4, <1>5 DEF RaidsIInv

\* The task that runs is the only one of this load, and of the raid that runs.
LEMMA RaidGoesOn ==
  ASSUME R!RaidsAssumption, RaidsIInv, NEW e \in u7, NEW ok \in BOOLEAN, R!ExecuteRaidEvent(e, ok)
  PROVE  RaidsIInv'
<1> USE DEF R!RaidsInv
<1> DEFINE r == e.name
           after == IF ok THEN R!Schedule(r, u3[r] + 1) ELSE {}
<1>1. /\ r \in Names /\ u3[r] \in Nat /\ u10[r] \in Nat /\ u3[r] = u10[r]
      /\ r = u2 /\ {f \in u7 : f.load = u1} = {e}
  BY DEF RaidsIInv, R!RunsAlone, R!InOrder, R!RaidsAssumption, R!RaidsTypeOK, R!ExecuteRaidEvent
<1>2. /\ after \subseteq [name : Names, at : Nat, load : 1..MaxLoads]
      /\ \A f \in after : f.load = u1
      /\ after = IF ok /\ u3[r] + 1 < Events[r]
                 THEN {[name |-> r, at |-> u3[r] + 1, load |-> u1]} ELSE {}
  <2>1. r \in Names /\ u3[r] + 1 \in Nat /\ R!RaidsTypeOK
    BY <1>1 DEF RaidsIInv
  <2>2. /\ R!Schedule(r, u3[r] + 1) \subseteq [name : Names, at : Nat, load : 1..MaxLoads]
        /\ \A f \in R!Schedule(r, u3[r] + 1) : f.load = u1
        /\ R!Schedule(r, u3[r] + 1)
             = IF u3[r] + 1 < Events[r] THEN {[name |-> r, at |-> u3[r] + 1, load |-> u1]} ELSE {}
    BY <2>1, RaidsTask
  <2>3. CASE ok
    BY <2>2, <2>3
  <2>4. CASE ~ok
    BY <2>4
  <2> QED BY <2>3, <2>4
<1>3. /\ u7' = (u7 \ {e}) \cup after /\ u8' = u8 \cup after /\ e \notin u8
      /\ IF after # {} THEN u3' = [u3 EXCEPT ![r] = @ + 1] /\ u2' = u2
         ELSE u3' = [u3 EXCEPT ![r] = 0] /\ u2' = None
      /\ u10' = [u10 EXCEPT ![r] = IF ok THEN @ + 1 ELSE @]
      /\ UNCHANGED <<u1, u4, u5, u6, u9>>
  BY DEF R!ExecuteRaidEvent, R!ResetRaid
<1> HIDE DEF after
<1>4. R!RaidsTypeOK'
  BY <1>1, <1>2, <1>3 DEF RaidsIInv, R!RaidsTypeOK, R!RaidsAssumption
<1>5. {f \in u7' : f.load = u1} = after
  BY <1>1, <1>2, <1>3
<1>6. CASE ok /\ u3[r] + 1 < Events[r]
  <2>1. after = {[name |-> r, at |-> u3[r] + 1, load |-> u1]} /\ after # {}
    BY <1>2, <1>6
  <2>2. u2' = u2 /\ u3' = [u3 EXCEPT ![r] = u3[r] + 1] /\ u10' = [u10 EXCEPT ![r] = u10[r] + 1]
    BY <1>3, <1>6, <2>1
  <2>3. u3'[r] = u3[r] + 1 /\ \A q \in Names \ {r} : u3'[q] = u3[q]
    BY <2>2, <1>1 DEF RaidsIInv, R!RaidsTypeOK
  <2>4. R!RunsAlone'
    BY <1>1, <1>3, <1>5, <1>6, <2>1, <2>2, <2>3 DEF R!RunsAlone, R!RaidsAssumption
  <2>5. R!InOrder'
    BY <1>1, <2>2, <2>3 DEF RaidsIInv, R!InOrder, R!RaidsTypeOK
  <2> QED BY <1>2, <1>3, <1>4, <2>4, <2>5 DEF RaidsIInv, R!RaidsTypeOK
<1>7. CASE ~(ok /\ u3[r] + 1 < Events[r])
  <2>1. after = {} /\ u2' = None /\ u3' = [u3 EXCEPT ![r] = 0]
    BY <1>2, <1>3, <1>7
  <2>2. R!RunsAlone'
    BY <1>3, <1>5, <2>1 DEF R!RunsAlone
  <2>3. R!InOrder'
    BY <1>1, <2>1 DEF RaidsIInv, R!InOrder, R!RaidsTypeOK, R!RaidsAssumption
  <2> QED BY <1>2, <1>3, <1>4, <2>2, <2>3 DEF RaidsIInv, R!RaidsTypeOK
<1> QED BY <1>6, <1>7

\* A reload leaves tasks of old loads only.
LEMMA RaidsReload ==
  ASSUME R!RaidsAssumption, RaidsIInv, R!Reload PROVE RaidsIInv'
<1> USE DEF R!RaidsInv
<1>1. R!RaidsTypeOK'
  BY DEF RaidsIInv, R!Reload, R!RaidsTypeOK, R!RaidsAssumption
<1>2. R!RunsAlone'
  BY DEF RaidsIInv, R!Reload, R!RunsAlone, R!RaidsTypeOK
<1>3. R!InOrder'
  BY DEF R!Reload, R!InOrder, R!RaidsAssumption
<1> QED BY <1>1, <1>2, <1>3 DEF RaidsIInv, R!Reload, R!RaidsTypeOK

LEMMA RaidsStepIInv ==
  ASSUME R!RaidsAssumption, RaidsIInv, [R!Next]_(R!vars) PROVE RaidsIInv'
<1> USE DEF R!RaidsInv
<1>1. CASE R!CheckRaids
  <2>1. PICK r \in u5 \ u4 : R!StartRaid(r) /\ u4' = u4 \cup {r}
                             /\ u5' = IF Repeats[r] THEN u5 \ {r} ELSE u5
    BY <1>1 DEF R!CheckRaids
  <2>2. r \in Names /\ R!Idle /\ u9 < MaxRuns /\ UNCHANGED <<u1, u3, u6>>
        /\ u4' \subseteq Names /\ u5' \subseteq Names
    BY <1>1, <2>1 DEF R!CheckRaids, RaidsIInv, R!RaidsTypeOK
  <2> QED BY <2>1, <2>2, RaidStarts
<1>2. CASE R!Reload
  BY <1>2, RaidsReload
<1>3. ASSUME NEW r \in Names, R!LuaGameStartRaid(r) PROVE RaidsIInv'
  <2>1. R!Idle /\ u9 < MaxRuns /\ R!StartRaid(r) /\ UNCHANGED <<u1, u3, u6>>
        /\ u4' \subseteq Names /\ u5' \subseteq Names
    BY <1>3 DEF R!LuaGameStartRaid, RaidsIInv, R!RaidsTypeOK
  <2> QED BY <2>1, RaidStarts
<1>4. ASSUME NEW r \in Names, R!Due(r) PROVE RaidsIInv'
  BY <1>4 DEF R!Due, RaidsIInv, R!RaidsTypeOK, R!RunsAlone, R!InOrder
<1>5. ASSUME NEW e \in u7, R!Dispatched(e) PROVE RaidsIInv'
  BY <1>5 DEF R!Dispatched, RaidsIInv, R!RaidsTypeOK, R!RunsAlone, R!InOrder
<1>6. ASSUME NEW e \in u7, NEW ok \in BOOLEAN, R!ExecuteRaidEvent(e, ok) PROVE RaidsIInv'
  BY <1>6, RaidGoesOn
<1>7. CASE UNCHANGED R!vars
  BY <1>7 DEF R!vars, RaidsIInv, R!RaidsTypeOK, R!RunsAlone, R!InOrder
<1> QED BY <1>1, <1>2, <1>3, <1>4, <1>5, <1>6, <1>7 DEF R!Next

-----------------------------------------------------------------------------
(* An npc's customers (NpcFocus).                                          *)

\* NpcInv, of a conversation as a record.
Conversation ==
  [focus : Customers \cup {None}, lock : Customers \cup {None}, queue : Seq(Customers),
   pending : Seq(Customers), pause : BOOLEAN, silent : BOOLEAN]
GoodTalk(t) ==
  /\ t \in Conversation
  /\ t.lock # None => t.focus \in {None, t.lock}
  /\ \A i, j \in 1 .. Len(t.queue) : t.queue[i] = t.queue[j] => i = j
  /\ t.pause => Len(t.pending) > 0

NpcIInv == u1 \in [Customers -> {"near", "away", "gone"}] /\ GoodTalk(N!Talk)

LEMMA NpcInvIsGoodTalk == N!NpcInv <=> NpcIInv
<1>1. N!NpcTypeOK <=> u1 \in [Customers -> {"near", "away", "gone"}] /\ N!Talk \in Conversation
  BY DEF N!NpcTypeOK, N!Talk, Conversation
<1>2. ASSUME N!NpcTypeOK
      PROVE  N!QueuedOnce <=> \A i, j \in 1 .. Len(u4) : u4[i] = u4[j] => i = j
  BY <1>2 DEF N!NpcTypeOK, N!QueuedOnce, N!IsInjective
<1>3. ASSUME N!NpcTypeOK PROVE N!PauseForSomeone <=> (u6 => Len(u5) > 0)
  BY <1>3 DEF N!NpcTypeOK, N!PauseForSomeone
<1> QED BY <1>1, <1>2, <1>3 DEF N!NpcInv, N!OnlyLastIsLockedOut, NpcIInv, GoodTalk, N!Talk

LEMMA TalkBecomes ==
  ASSUME NEW t \in Conversation, GoodTalk(t), N!Becomes(t) PROVE GoodTalk(N!Talk)'
<1>1. N!Talk' = [focus |-> t.focus, lock |-> t.lock, queue |-> t.queue, pending |-> t.pending,
                 pause |-> t.pause, silent |-> t.silent]
  BY DEF N!Talk, N!Becomes
<1>2. t = [focus |-> t.focus, lock |-> t.lock, queue |-> t.queue, pending |-> t.pending,
           pause |-> t.pause, silent |-> t.silent]
  BY DEF Conversation
<1>3. N!Talk' = t
  BY <1>1, <1>2, Zenon
<1> QED BY <1>3, Zenon DEF GoodTalk

LEMMA AttendIsGood ==
  ASSUME NEW t, GoodTalk(t), NEW p \in Customers
  PROVE  GoodTalk(N!AttendCustomer(t, p)) /\ N!AttendCustomer(t, p).focus = p
BY DEF GoodTalk, Conversation, N!AttendCustomer, N!Attend

\* Who is told to wait does so once.
LEMMA QueueIsGood ==
  ASSUME NEW t, GoodTalk(t), NEW p \in Customers
  PROVE  GoodTalk(N!QueueCustomer(t, p))
<1>1. CASE \E i \in DOMAIN t.queue : t.queue[i] = p
  BY <1>1 DEF N!QueueCustomer
<1>2. CASE ~\E i \in DOMAIN t.queue : t.queue[i] = p
  <2> DEFINE q == Append(t.queue, p)
  <2>1. t \in Conversation /\ t.queue \in Seq(Customers)
    BY DEF GoodTalk, Conversation
  <2>2. /\ q \in Seq(Customers) /\ Len(q) = Len(t.queue) + 1 /\ Len(t.queue) \in Nat
        /\ q[Len(t.queue) + 1] = p /\ \A i \in 1 .. Len(t.queue) : q[i] = t.queue[i]
    BY <2>1
  <2>3. N!QueueCustomer(t, p) = [t EXCEPT !.queue = q]
    BY <1>2 DEF N!QueueCustomer
  <2>4. \A i \in 1 .. Len(t.queue) : t.queue[i] # p
    BY <1>2, <2>1
  <2> HIDE DEF q
  <2>5. \A i, j \in 1 .. Len(q) : q[i] = q[j] => i = j
    <3> SUFFICES ASSUME NEW i \in 1 .. Len(q), NEW j \in 1 .. Len(q), q[i] = q[j] PROVE i = j
      OBVIOUS
    <3>1. CASE i \in 1 .. Len(t.queue) /\ j \in 1 .. Len(t.queue)
      BY <2>2, <3>1 DEF GoodTalk
    <3>2. CASE i = Len(t.queue) + 1 \/ j = Len(t.queue) + 1
      BY <2>2, <2>4, <3>2
    <3> QED BY <2>2, <3>1, <3>2
  <2> DEFINE s == N!QueueCustomer(t, p)
  <2>6. s \in Conversation /\ s.focus = t.focus /\ s.lock = t.lock /\ s.queue = q
        /\ s.pause = t.pause /\ s.pending = t.pending
    BY <2>1, <2>2, <2>3 DEF Conversation
  <2> HIDE DEF s
  <2>7. GoodTalk(s)
    BY <2>5, <2>6 DEF GoodTalk
  <2> QED BY <2>7 DEF s
<1> QED BY <1>1, <1>2

\* The npc keeps its customer or has none, and a pause comes with an address.
LEMMA IdleIsGood ==
  ASSUME NEW t, GoodTalk(t), NEW at
  PROVE  GoodTalk(N!NpcIdle(t, at)) /\ N!NpcIdle(t, at).focus \in {None, t.focus}
<1> DEFINE near == {i \in DOMAIN t.queue : at[t.queue[i]] = "near"}
<1>0. t \in Conversation /\ t.queue \in Seq(Customers) /\ t.pending \in Seq(Customers)
      /\ DOMAIN t.queue = 1 .. Len(t.queue) /\ Len(t.queue) \in Nat
  BY DEF GoodTalk, Conversation
<1>1. CASE near = {}
  <2>1. N!NpcIdle(t, at) = [t EXCEPT !.focus = None, !.lock = None, !.queue = <<>>]
    BY <1>1 DEF N!NpcIdle
  <2>2. <<>> \in Seq(Customers) /\ Len(<<>>) = 0
    OBVIOUS
  <2> DEFINE e == <<>>
  <2>3. e \in Seq(Customers) /\ Len(e) = 0 /\ N!NpcIdle(t, at) = [t EXCEPT !.focus = None, !.lock = None, !.queue = e]
    BY <2>1, <2>2
  <2> HIDE DEF e
  <2> DEFINE s == N!NpcIdle(t, at)
  <2>4. s \in Conversation /\ s.focus = None /\ s.lock = None /\ s.queue = e
        /\ s.pause = t.pause /\ s.pending = t.pending
    BY <1>0, <2>3 DEF Conversation
  <2> HIDE DEF s
  <2>5. GoodTalk(s) /\ s.focus = None
    BY <2>3, <2>4 DEF GoodTalk
  <2> QED BY <2>5 DEF s
<1>2. CASE near # {}
  <2> DEFINE i == CHOOSE k \in near : \A j \in near : k <= j
             q == SubSeq(t.queue, i + 1, Len(t.queue))
             a == Append(t.pending, t.queue[i])
  <2>1. i \in near
    <3>1. \E k \in near : \A j \in near : k <= j
      <4>1. near \subseteq 1 .. Len(t.queue)
        BY <1>0
      <4>2. near \in SUBSET Nat /\ near # {}
        BY <1>0, <1>2, <4>1
      <4> HIDE DEF near
      <4> QED BY <4>2, SmallestOfSet
    <3> QED BY <3>1
  <2>2. N!NpcIdle(t, at) = [t EXCEPT !.queue = q, !.pause = TRUE, !.pending = a]
    BY <1>2 DEF N!NpcIdle
  <2> HIDE DEF i
  <2>3. i \in 1 .. Len(t.queue) /\ t.queue[i] \in Customers
    BY <1>0, <2>1
  <2>4. a \in Seq(Customers) /\ Len(a) > 0
    BY <1>0, <2>3
  <2>5. /\ q \in Seq(Customers) /\ Len(q) = Len(t.queue) - i
        /\ \A j \in 1 .. Len(q) : q[j] = t.queue[j + i]
    BY <1>0, <2>3
  <2> HIDE DEF q, a
  <2>6. \A j, k \in 1 .. Len(q) : q[j] = q[k] => j = k
    <3> SUFFICES ASSUME NEW j \in 1 .. Len(q), NEW k \in 1 .. Len(q), q[j] = q[k] PROVE j = k
      OBVIOUS
    <3>1. j + i \in 1 .. Len(t.queue) /\ k + i \in 1 .. Len(t.queue) /\ t.queue[j + i] = t.queue[k + i]
      BY <1>0, <2>3, <2>5
    <3>2. j + i = k + i
      BY <3>1 DEF GoodTalk
    <3> QED BY <2>3, <3>2
  <2> DEFINE s == N!NpcIdle(t, at)
  <2>7. s \in Conversation /\ s.focus = t.focus /\ s.lock = t.lock /\ s.queue = q /\ s.pending = a
    BY <1>0, <2>2, <2>4, <2>5 DEF Conversation
  <2> HIDE DEF s
  <2>8. GoodTalk(s) /\ s.focus = t.focus
    BY <2>4, <2>6, <2>7 DEF GoodTalk
  <2> QED BY <2>8 DEF s
<1> QED BY <1>1, <1>2

\* One who takes leave ends the conversation, or his successor is called.
LEMMA VanishIsGood ==
  ASSUME NEW t, GoodTalk(t), NEW p \in Customers, NEW at
  PROVE  /\ GoodTalk(N!ReactVanish(t, p, at))
         /\ t.focus = p => N!ReactVanish(t, p, at).focus \in {None, p}
<1>1. CASE N!Deaf(t, p)
  BY <1>1 DEF N!ReactVanish
<1>2. CASE ~N!Deaf(t, p) /\ t.focus = p
  <2>1. N!ReactVanish(t, p, at) = N!NpcIdle(N!AttendCustomer(t, p), at)
    BY <1>2 DEF N!ReactVanish
  <2> QED BY <2>1, AttendIsGood, IdleIsGood
<1>3. CASE ~N!Deaf(t, p) /\ t.focus # p
  <2>1. N!ReactVanish(t, p, at) = N!NpcIdle(t, at)
    BY <1>3 DEF N!ReactVanish
  <2> QED BY <1>3, <2>1, IdleIsGood
<1> QED BY <1>1, <1>2, <1>3

LEMMA AddressIsGood ==
  ASSUME NEW t, GoodTalk(t), NEW p \in Customers PROVE GoodTalk(N!ReactAddress(t, p))
BY AttendIsGood, IdleIsGood DEF N!ReactAddress

LEMMA AnswerIsGood ==
  ASSUME NEW t, GoodTalk(t), NEW p \in Customers, NEW bye \in BOOLEAN
  PROVE  GoodTalk(N!ReactNone(t, p, bye)) /\ GoodTalk(N!ReactBusy(t, p))
<1>1. GoodTalk(N!ReactBusy(t, p))
  BY QueueIsGood DEF N!ReactBusy
<1>2. GoodTalk(N!AttendCustomer(t, p)) /\ GoodTalk(N!NpcIdle(N!AttendCustomer(t, p), u1))
  BY AttendIsGood, IdleIsGood
<1> QED BY <1>1, <1>2 DEF N!ReactNone

LEMMA NpcInitInv == ASSUME N!Init PROVE N!NpcInv
<1>1. <<>> \in Seq(Customers) /\ Len(<<>>) = 0
  OBVIOUS
<1>2. u1 \in [Customers -> {"near", "away", "gone"}]
  BY DEF N!Init
<1> DEFINE e == <<>>
<1>3. N!Talk = [focus |-> None, lock |-> None, queue |-> e, pending |-> e, pause |-> FALSE, silent |-> FALSE]
      /\ e \in Seq(Customers) /\ Len(e) = 0
  BY <1>1 DEF N!Init, N!Talk
<1> HIDE DEF e
<1>4. GoodTalk(N!Talk)
  BY <1>3 DEF GoodTalk, Conversation
<1> QED BY <1>2, <1>4, NpcInvIsGoodTalk DEF NpcIInv

LEMMA NpcStepInv ==
  ASSUME N!NpcInv, [N!Next]_(N!vars) PROVE N!NpcInv'
<1> DEFINE talk == N!Talk
<1>0. GoodTalk(talk) /\ u1 \in [Customers -> {"near", "away", "gone"}] /\ talk \in Conversation
  BY NpcInvIsGoodTalk DEF NpcIInv, GoodTalk
<1>f. talk.focus = u2 /\ talk.lock = u3 /\ talk.pending = u5 /\ talk.pause = u6
  BY DEF N!Talk
<1> SUFFICES NpcIInv'
  BY NpcInvIsGoodTalk, PTL
<1> USE DEF NpcIInv
<1>g. \A t : GoodTalk(t) /\ N!Becomes(t) => GoodTalk(N!Talk)'
  <2> SUFFICES ASSUME NEW t, GoodTalk(t), N!Becomes(t) PROVE GoodTalk(N!Talk)'
    OBVIOUS
  <2>1. t \in Conversation
    BY DEF GoodTalk
  <2> QED BY <2>1, TalkBecomes
<1>1. ASSUME NEW p \in Customers, NEW bye \in BOOLEAN, N!OnCreatureSay(p, bye)
      PROVE  u1' = u1 /\ GoodTalk(N!Talk)'
  <2>1. u1' = u1 /\ (N!Becomes(N!ReactAddress(talk, p)) \/ N!Becomes(N!ReactNone(talk, p, bye))
                     \/ N!Becomes(N!ReactBusy(talk, p)))
    BY <1>1 DEF N!OnCreatureSay
  <2> QED BY <1>0, <1>g, <2>1, AddressIsGood, AnswerIsGood
<1>2. ASSUME NEW p \in Customers, NEW to \in {"near", "away"}, N!OnCreatureMove(p, to)
      PROVE  u1' \in [Customers -> {"near", "away", "gone"}] /\ GoodTalk(N!Talk)'
  <2>1. u1' = [u1 EXCEPT ![p] = to]
    BY <1>2 DEF N!OnCreatureMove
  <2>2. CASE p = u2 /\ to = "away" /\ p # u3
    <3> DEFINE t == N!ReactVanish(talk, p, u1')
    <3>1. N!Becomes([t EXCEPT !.lock = p])
      BY <1>2, <2>2 DEF N!OnCreatureMove
    <3>2. GoodTalk(t) /\ t.focus \in {None, p}
      BY <1>0, <1>f, <2>2, VanishIsGood
    <3> HIDE DEF t
    <3>3. GoodTalk([t EXCEPT !.lock = p])
      BY <3>2 DEF GoodTalk, Conversation
    <3> QED BY <1>0, <1>g, <2>1, <3>1, <3>3
  <2>3. CASE ~(p = u2 /\ to = "away" /\ p # u3)
    <3>1. N!Becomes(talk)
      BY <1>2, <2>3 DEF N!OnCreatureMove
    <3> QED BY <1>0, <1>g, <2>1, <3>1
  <2> QED BY <2>2, <2>3
<1>3. ASSUME NEW p \in Customers, N!OnRemoveCreature(p)
      PROVE  u1' \in [Customers -> {"near", "away", "gone"}] /\ GoodTalk(N!Talk)'
  <2>1. u1' = [u1 EXCEPT ![p] = "gone"] /\ (N!Becomes(N!ReactVanish(talk, p, u1)) \/ N!Becomes(talk))
    BY <1>3 DEF N!OnRemoveCreature
  <2> QED BY <1>0, <1>g, <2>1, VanishIsGood
<1>4. CASE N!OnThink
  <2>1. u2 \in Customers
    BY <1>0, <1>f, <1>4 DEF N!OnThink, Conversation
  <2>2. u1' = u1 /\ (N!Becomes(N!NpcIdle(talk, u1)) \/ N!Becomes(N!ReactVanish(talk, u2, u1)))
    BY <1>4 DEF N!OnThink
  <2> QED BY <1>0, <1>g, <2>1, <2>2, VanishIsGood, IdleIsGood
<1>5. CASE N!RunAddress
  <2> DEFINE p == Head(u5)
             t == [talk EXCEPT !.pending = Tail(@)]
  <2>1. /\ u5 # <<>> /\ u6 = FALSE /\ u1' = u1
        /\ N!Becomes(N!ReactAddress(t, p)) \/ N!Becomes(N!AttendCustomer(t, p))
    BY <1>0, <1>f, <1>5 DEF N!RunAddress, Conversation
  <2>2. p \in Customers /\ Tail(u5) \in Seq(Customers)
    BY <1>0, <1>f, <2>1 DEF Conversation
  <2>3. GoodTalk(t)
    <3>1. t = [talk EXCEPT !.pending = Tail(u5)]
      BY <1>f
    <3>2. talk.pause = FALSE
      BY <1>f, <2>1
    <3> HIDE DEF talk
    <3> QED BY <1>0, <2>2, <3>1, <3>2 DEF GoodTalk, Conversation
  <2> HIDE DEF p, t
  <2> QED BY <1>0, <1>g, <2>1, <2>2, <2>3, AddressIsGood, AttendIsGood
<1>6. CASE N!OnIdleStimulus
  BY <1>0, <1>6 DEF N!OnIdleStimulus, N!Talk, GoodTalk, Conversation
<1>7. CASE N!PauseEnds
  <2> DEFINE t == [focus |-> u2, lock |-> u3, queue |-> u4, pending |-> u5, pause |-> FALSE,
                   silent |-> u7]
  <2>1. u1' = u1 /\ N!Talk' = t
    BY <1>7, Zenon DEF N!PauseEnds, N!Talk
  <2>2. GoodTalk(t)
    BY <1>0 DEF N!Talk, GoodTalk, Conversation
  <2>3. GoodTalk(N!Talk)'
    BY <2>1, <2>2, Zenon DEF GoodTalk
  <2> QED BY <1>0, <2>1, <2>3
<1>8. CASE N!FallSilent
  BY <1>0, <1>8 DEF N!FallSilent, N!Talk, GoodTalk, Conversation
<1>9. CASE UNCHANGED N!vars
  BY <1>0, <1>9 DEF N!vars, N!Talk, GoodTalk, Conversation
<1> QED BY <1>0, <1>1, <1>2, <1>3, <1>4, <1>5, <1>6, <1>7, <1>8, <1>9 DEF N!Next, NpcIInv

-----------------------------------------------------------------------------
(* Houses (Houses). What is summed over all players comes first.           *)

SumStep(w, it, s) ==
  IF s = {} THEN 0 ELSE w[CHOOSE x \in s : TRUE] + it[s \ {CHOOSE x \in s : TRUE}]
SumsUp(w, S, it) == it = [s \in SUBSET S |-> SumStep(w, it, s)]

SumsUpTo(w, S, it, n) ==
  \A s \in SUBSET S : Cardinality(s) <= n => it[s] = SumStep(w, it, s)

LEMMA SubsetsAreSmaller ==
  ASSUME NEW S, IsFiniteSet(S), NEW s \in SUBSET S, s # {}
  PROVE  /\ (CHOOSE x \in s : TRUE) \in s
         /\ s \ {CHOOSE x \in s : TRUE} \in SUBSET S
         /\ Cardinality(s) \in Nat
         /\ Cardinality(s \ {CHOOSE x \in s : TRUE}) = Cardinality(s) - 1
         /\ Cardinality(s) <= Cardinality(S)
<1>1. (CHOOSE x \in s : TRUE) \in s
  OBVIOUS
<1>2. IsFiniteSet(s) /\ Cardinality(s) \in Nat /\ Cardinality(s) <= Cardinality(S)
  BY FS_Subset, FS_CardinalityType
<1>3. Cardinality(s \ {CHOOSE x \in s : TRUE}) = Cardinality(s) - 1
  BY <1>1, <1>2, FS_RemoveElement
<1> QED BY <1>1, <1>2, <1>3

LEMMA SumExists ==
  ASSUME NEW w, NEW S, IsFiniteSet(S) PROVE \E it : SumsUp(w, S, it)
<1> DEFINE P(n) == \E it : SumsUpTo(w, S, it, n)
           pick(s) == CHOOSE x \in s : TRUE
<1>1. P(0)
  <2> DEFINE it == [s \in SUBSET S |-> 0]
  <2>1. \A s \in SUBSET S : Cardinality(s) <= 0 => s = {}
    BY FS_Subset, FS_EmptySet, FS_CardinalityType
  <2>2. SumsUpTo(w, S, it, 0)
    BY <2>1 DEF SumsUpTo, SumStep
  <2> QED BY <2>2
<1>2. ASSUME NEW n \in Nat, P(n) PROVE P(n + 1)
  <2>1. PICK it : SumsUpTo(w, S, it, n)
    BY <1>2
  <2> DEFINE jt == [s \in SUBSET S |-> IF Cardinality(s) <= n THEN it[s] ELSE SumStep(w, it, s)]
  <2>2. ASSUME NEW s \in SUBSET S, Cardinality(s) <= n + 1 PROVE jt[s] = SumStep(w, jt, s)
    <3>1. jt[s] = SumStep(w, it, s)
      BY <2>1 DEF SumsUpTo
    <3>2. CASE s = {}
      BY <3>1, <3>2 DEF SumStep
    <3>3. CASE s # {}
      <4>1. pick(s) \in s /\ s \ {pick(s)} \in SUBSET S /\ Cardinality(s \ {pick(s)}) = Cardinality(s) - 1
            /\ Cardinality(s) \in Nat
        BY <3>3, SubsetsAreSmaller
      <4>2. Cardinality(s \ {pick(s)}) <= n
        BY <2>2, <4>1
      <4>3. jt[s \ {pick(s)}] = it[s \ {pick(s)}]
        BY <4>1, <4>2
      <4> HIDE DEF jt
      <4> QED BY <3>1, <3>3, <4>3 DEF SumStep
    <3> QED BY <3>2, <3>3
  <2> HIDE DEF jt
  <2>3. SumsUpTo(w, S, jt, n + 1)
    BY <2>2 DEF SumsUpTo
  <2> QED BY <2>3
<1> HIDE DEF P
<1>3. \A n \in Nat : P(n)
  <2> SUFFICES ASSUME {n \in Nat : ~P(n)} # {} PROVE FALSE
    OBVIOUS
  <2>1. PICK k \in {n \in Nat : ~P(n)} : \A j \in {n \in Nat : ~P(n)} : k <= j
    BY SmallestOfSet
  <2>2. CASE k = 0
    BY <1>1, <2>1, <2>2
  <2>3. CASE k # 0
    <3>1. k - 1 \in Nat /\ P(k - 1)
      BY <2>1, <2>3
    <3>2. P((k - 1) + 1)
      BY <1>2, <3>1
    <3>3. (k - 1) + 1 = k
      BY <2>1
    <3> QED BY <2>1, <3>2, <3>3
  <2> QED BY <2>2, <2>3
<1>4. PICK it : SumsUpTo(w, S, it, Cardinality(S))
  BY <1>3, FS_CardinalityType DEF P
<1> DEFINE jt == [s \in SUBSET S |-> it[s]]
<1>5. ASSUME NEW s \in SUBSET S PROVE jt[s] = SumStep(w, jt, s)
  <2>1. Cardinality(s) <= Cardinality(S)
    BY FS_Subset
  <2>2. jt[s] = SumStep(w, it, s)
    BY <1>4, <2>1 DEF SumsUpTo
  <2>3. CASE s = {}
    BY <2>2, <2>3 DEF SumStep
  <2>4. CASE s # {}
    <3>1. s \ {pick(s)} \in SUBSET S
      OBVIOUS
    <3>2. jt[s \ {pick(s)}] = it[s \ {pick(s)}]
      BY <3>1
    <3> HIDE DEF jt
    <3> QED BY <2>2, <2>4, <3>2 DEF SumStep
  <2> QED BY <2>3, <2>4
<1>6. SumsUp(w, S, jt)
  <2>1. jt = [s \in SUBSET S |-> jt[s]]
    OBVIOUS
  <2>2. [s \in SUBSET S |-> jt[s]] = [s \in SUBSET S |-> SumStep(w, jt, s)]
    BY <1>5
  <2> QED BY <2>1, <2>2 DEF SumsUp
<1> QED BY <1>6

\* Two sums of numbers that differ at one place.
LEMMA SumsDiffer ==
  ASSUME NEW S, IsFiniteSet(S), NEW x \in S,
         NEW w \in [S -> Int], NEW v \in [S -> Int], \A y \in S \ {x} : v[y] = w[y],
         NEW it, SumsUp(w, S, it), NEW jt, SumsUp(v, S, jt)
  PROVE  /\ it[S] \in Int
         /\ jt[S] = it[S] + v[x] - w[x]
<1> DEFINE Good(s) == /\ it[s] \in Int
                      /\ jt[s] = IF x \in s THEN it[s] + v[x] - w[x] ELSE it[s]
           P(n) == \A s \in SUBSET S : Cardinality(s) = n => Good(s)
           pick(s) == CHOOSE y \in s : TRUE
<1>0. \A s \in SUBSET S : it[s] = SumStep(w, it, s) /\ jt[s] = SumStep(v, jt, s)
  <2>1. it = [s \in SUBSET S |-> SumStep(w, it, s)] /\ jt = [s \in SUBSET S |-> SumStep(v, jt, s)]
    BY DEF SumsUp
  <2> QED BY <2>1
<1>1. P(0)
  <2>1. \A s \in SUBSET S : Cardinality(s) = 0 => s = {}
    BY FS_Subset, FS_EmptySet
  <2>2. it[{}] = 0 /\ jt[{}] = 0
    BY <1>0 DEF SumStep
  <2> QED BY <2>1, <2>2
<1>2. ASSUME NEW n \in Nat, P(n) PROVE P(n + 1)
  <2> SUFFICES ASSUME NEW s \in SUBSET S, Cardinality(s) = n + 1 PROVE Good(s)
    OBVIOUS
  <2>1. s # {}
    BY FS_EmptySet
  <2> DEFINE c == pick(s)
             r == s \ {c}
  <2>2. c \in s /\ r \in SUBSET S /\ Cardinality(r) = n
    BY <2>1, SubsetsAreSmaller
  <2>3. it[s] = w[c] + it[r] /\ jt[s] = v[c] + jt[r]
    BY <1>0, <2>1 DEF SumStep
  <2>4. Good(r)
    BY <1>2, <2>2
  <2> HIDE DEF c
  <2>5. CASE c = x
    BY <2>2, <2>3, <2>4, <2>5
  <2>6. CASE c # x
    <3>1. c \in S /\ v[c] = w[c] /\ w[c] \in Int /\ w[x] \in Int /\ v[x] \in Int /\ (x \in r <=> x \in s)
      BY <2>2, <2>6
    <3> QED BY <2>3, <2>4, <3>1
  <2> QED BY <2>5, <2>6
<1> HIDE DEF P
<1>3. \A n \in Nat : P(n)
  <2> SUFFICES ASSUME {n \in Nat : ~P(n)} # {} PROVE FALSE
    OBVIOUS
  <2>1. PICK k \in {n \in Nat : ~P(n)} : \A j \in {n \in Nat : ~P(n)} : k <= j
    BY SmallestOfSet
  <2>2. CASE k = 0
    BY <1>1, <2>1, <2>2
  <2>3. CASE k # 0
    <3>1. k - 1 \in Nat /\ P(k - 1)
      BY <2>1, <2>3
    <3>2. P((k - 1) + 1)
      BY <1>2, <3>1
    <3>3. (k - 1) + 1 = k
      BY <2>1
    <3> QED BY <2>1, <3>2, <3>3
  <2> QED BY <2>2, <2>3
<1>4. Good(S)
  BY <1>3, FS_CardinalityType DEF P
<1> QED BY <1>4

LEMMA SumIsAtSet ==
  ASSUME NEW w, NEW S, \E it : SumsUp(w, S, it)
  PROVE  \E it : SumsUp(w, S, it) /\ H!SumFunctionOnSet(w, S) = it[S]
<1> DEFINE it == CHOOSE f : SumsUp(w, S, f)
<1>1. SumsUp(w, S, it)
  OBVIOUS
<1>2. H!SumFunctionOnSet(w, S) = it[S]
  BY DEF H!SumFunctionOnSet, H!FoldFunctionOnSet, H!MapThenFoldSet, SumsUp, SumStep
<1> QED BY <1>1, <1>2

\* What a change at one place does to a sum.
LEMMA SumChanges ==
  ASSUME NEW S, IsFiniteSet(S), NEW x \in S,
         NEW w \in [S -> Int], NEW v \in [S -> Int], \A y \in S \ {x} : v[y] = w[y]
  PROVE  /\ H!SumFunction(w) \in Int
         /\ H!SumFunction(v) = H!SumFunction(w) + v[x] - w[x]
<1>1. H!SumFunction(w) = H!SumFunctionOnSet(w, S) /\ H!SumFunction(v) = H!SumFunctionOnSet(v, S)
  BY DEF H!SumFunction
<1>2. (\E it : SumsUp(w, S, it)) /\ (\E jt : SumsUp(v, S, jt))
  BY SumExists
<1>3. PICK it : SumsUp(w, S, it) /\ H!SumFunctionOnSet(w, S) = it[S]
  BY <1>2, SumIsAtSet
<1>4. PICK jt : SumsUp(v, S, jt) /\ H!SumFunctionOnSet(v, S) = jt[S]
  BY <1>2, SumIsAtSet
<1>5. it[S] \in Int /\ jt[S] = it[S] + v[x] - w[x]
  BY <1>3, <1>4, SumsDiffer
<1> QED BY <1>1, <1>3, <1>4, <1>5

LEMMA SumIsInt ==
  ASSUME NEW S, IsFiniteSet(S), NEW w \in [S -> Int]
  PROVE  H!SumFunction(w) \in Int
<1>1. CASE S = {}
  <2>1. H!SumFunction(w) = H!SumFunctionOnSet(w, S)
    BY DEF H!SumFunction
  <2>2. PICK it : SumsUp(w, S, it) /\ H!SumFunctionOnSet(w, S) = it[S]
    BY SumExists, SumIsAtSet
  <2>3. it = [s \in SUBSET S |-> SumStep(w, it, s)] /\ S \in SUBSET S
    BY <2>2 DEF SumsUp
  <2>4. it[S] = 0
    BY <1>1, <2>3 DEF SumStep
  <2> QED BY <2>1, <2>2, <2>4
<1>2. CASE S # {}
  BY <1>2, SumChanges
<1> QED BY <1>1, <1>2

-----------------------------------------------------------------------------
MoneyOf == [p \in Owners |-> H!Wealth(p).money]
ThingsOf == [p \in Owners |-> H!Wealth(p).things]

\* HouseInv, and what is in memory and in the database.
HouseIInv ==
  /\ H!HouseInv
  /\ u9 \in [Owners -> [money : Int, things : Int]]
  /\ u10 \in [Owners -> [money : Int, things : Int]]
  /\ u5 \in BOOLEAN /\ u14 \in Int /\ u15 \in BOOLEAN

HouseTypes ==
  /\ u9 \in [Owners -> [money : Int, things : Int]]
  /\ u10 \in [Owners -> [money : Int, things : Int]]
  /\ u5 \in BOOLEAN /\ u14 \in Int /\ u15 \in BOOLEAN

\* Everything but the accounts.
HouseOrder ==
  /\ H!HouseTypeOK /\ H!PresentAreInvited /\ H!SleepersRest
  /\ HouseTypes

LEMMA HouseIsOrderAndAccounts == HouseIInv <=> HouseOrder /\ H!Accounts
BY DEF HouseIInv, HouseOrder, HouseTypes, H!HouseInv

LEMMA HouseFinite == ASSUME H!HousesAssumption PROVE IsFiniteSet(Owners)
BY DEF H!HousesAssumption, H!IsFiniteSet, IsFiniteSet

LEMMA HouseInitIInv ==
  ASSUME H!HousesAssumption, H!Init PROVE HouseIInv
<1>1. HouseOrder
  <2>1. HouseTypes
    <3>1. u9 \in [Owners -> [money : Int, things : Int]] /\ u10 \in [Owners -> [money : Int, things : Int]]
      BY DEF H!HousesAssumption, H!Init, H!Nobody
    <3>2. u5 = FALSE /\ u15 = FALSE /\ u14 \in Int
      BY DEF H!Init
    <3>3. u5 \in BOOLEAN /\ u15 \in BOOLEAN
      BY <3>2, Zenon
    <3> QED BY <3>1, <3>2, <3>3 DEF HouseTypes
  <2>2. H!HouseTypeOK /\ H!PresentAreInvited /\ H!SleepersRest
    BY DEF H!HousesAssumption, H!Init, H!HouseTypeOK, H!PresentAreInvited, H!SleepersRest
  <2> QED BY <2>1, <2>2 DEF HouseOrder
<1>2. u8 = {} /\ u7 = 0 /\ u14 = 0 /\ u9 = [p \in Owners |-> [money |-> Money[p], things |-> Things[p]]]
  BY DEF H!Init
<1>3. \A p \in Owners : H!Wealth(p).money = Money[p] /\ H!Wealth(p).things = Things[p]
  BY <1>2 DEF H!Wealth
<1>4. MoneyOf = Money /\ ThingsOf = Things
  BY <1>3 DEF H!HousesAssumption, MoneyOf, ThingsOf
<1>5. H!SumFunction(Money) \in Int /\ H!SumFunction(Things) \in Int
  BY <1>4, HouseFinite, SumIsInt DEF H!HousesAssumption
<1>6. H!AllMoney = H!SumFunction(Money) /\ H!AllThings = H!SumFunction(Things) + 0
  BY <1>2, <1>4 DEF H!AllMoney, H!AllThings, MoneyOf, ThingsOf
<1>7. H!Accounts
  BY <1>2, <1>5, <1>6 DEF H!Accounts
<1> QED BY <1>1, <1>7, HouseIsOrderAndAccounts

\* A step that moves no wealth keeps the accounts,
LEMMA AccountsSame ==
  ASSUME H!Accounts, \A p \in Owners : H!Wealth(p)' = H!Wealth(p), u7' = u7, u14' = u14, u15' = u15
  PROVE  H!Accounts'
<1>1. MoneyOf' = MoneyOf /\ ThingsOf' = ThingsOf
  BY DEF MoneyOf, ThingsOf
<1>2. H!AllMoney' = H!AllMoney /\ H!AllThings' = H!AllThings
  BY <1>1 DEF MoneyOf, ThingsOf, H!AllMoney, H!AllThings
<1> QED BY <1>2 DEF H!Accounts

\* and so does one that moves it between one player, the floor and what is paid.
LEMMA AccountsAt ==
  ASSUME H!HousesAssumption, HouseTypes, HouseTypes', H!Accounts, u7 \in Nat, u7' \in Nat,
         NEW x \in Owners, \A p \in Owners \ {x} : H!Wealth(p)' = H!Wealth(p),
         H!Wealth(x).money' + u14' = H!Wealth(x).money + u14,
         H!Wealth(x).things' + u7' = H!Wealth(x).things + u7,
         u15' = FALSE => u15 = FALSE
  PROVE  H!Accounts'
<1>1. /\ MoneyOf \in [Owners -> Int] /\ MoneyOf' \in [Owners -> Int]
      /\ ThingsOf \in [Owners -> Int] /\ ThingsOf' \in [Owners -> Int]
  BY DEF MoneyOf, ThingsOf, HouseTypes, H!Wealth
<1>2. /\ \A y \in Owners \ {x} : MoneyOf'[y] = MoneyOf[y] /\ ThingsOf'[y] = ThingsOf[y]
      /\ MoneyOf'[x] + u14' = MoneyOf[x] + u14
      /\ ThingsOf'[x] + u7' = ThingsOf[x] + u7
  BY DEF MoneyOf, ThingsOf
<1>3. /\ MoneyOf[x] \in Int /\ ThingsOf[x] \in Int /\ MoneyOf'[x] \in Int /\ ThingsOf'[x] \in Int
      /\ u14 \in Int /\ u14' \in Int
  BY <1>1 DEF HouseTypes
<1>4. /\ H!SumFunction(MoneyOf) \in Int
      /\ H!SumFunction(MoneyOf') = H!SumFunction(MoneyOf) + MoneyOf'[x] - MoneyOf[x]
  BY <1>1, <1>2, HouseFinite, SumChanges
<1>5. /\ H!SumFunction(ThingsOf) \in Int
      /\ H!SumFunction(ThingsOf') = H!SumFunction(ThingsOf) + ThingsOf'[x] - ThingsOf[x]
  BY <1>1, <1>2, HouseFinite, SumChanges
<1>6. /\ H!AllMoney = H!SumFunction(MoneyOf) /\ H!AllMoney' = H!SumFunction(MoneyOf')
      /\ H!AllThings = H!SumFunction(ThingsOf) + u7 /\ H!AllThings' = H!SumFunction(ThingsOf') + u7'
  BY DEF H!AllMoney, H!AllThings, MoneyOf, ThingsOf
<1> HIDE DEF MoneyOf, ThingsOf
<1> DEFINE a == H!SumFunction(MoneyOf)
           aa == H!SumFunction(MoneyOf')
           b == H!SumFunction(ThingsOf)
           bb == H!SumFunction(ThingsOf')
<1>7. a \in Int /\ b \in Int /\ aa = a + MoneyOf'[x] - MoneyOf[x] /\ bb = b + ThingsOf'[x] - ThingsOf[x]
  BY <1>4, <1>5
<1>8. H!AllMoney = a /\ H!AllMoney' = aa /\ H!AllThings = b + u7 /\ H!AllThings' = bb + u7'
  BY <1>6
<1> HIDE DEF a, aa, b, bb
<1> DEFINE m == MoneyOf[x]
           mm == MoneyOf'[x]
           t == ThingsOf[x]
           tt == ThingsOf'[x]
<1>9. /\ m \in Int /\ mm \in Int /\ t \in Int /\ tt \in Int /\ u14 \in Int /\ u14' \in Int
      /\ aa = a + mm - m /\ bb = b + tt - t /\ mm + u14' = m + u14 /\ tt + u7' = t + u7
  BY <1>2, <1>3, <1>7
<1> HIDE DEF m, mm, t, tt
<1>10. aa + u14' = a + u14 /\ bb + u7' = b + u7
  BY <1>7, <1>9
<1>11. H!AllMoney' + u14' = H!AllMoney + u14 /\ H!AllThings' = H!AllThings
  BY <1>8, <1>10, Zenon
<1> QED BY <1>11 DEF H!Accounts

-----------------------------------------------------------------------------
LEMMA HouseLogin ==
  ASSUME H!HousesAssumption, HouseIInv, NEW p \in Owners, H!Login(p) PROVE HouseIInv'
<1>0. HouseOrder /\ H!Accounts
  BY HouseIsOrderAndAccounts
<1>1. HouseOrder'
  BY <1>0 DEF H!HousesAssumption, HouseOrder, HouseTypes, H!HouseTypeOK, H!PresentAreInvited, H!Invited,
         H!SleepersRest, H!Login, H!WakeUp, H!rent
<1>2. \A q \in Owners : H!Wealth(q)' = H!Wealth(q)
  BY <1>0 DEF HouseOrder, HouseTypes, H!Wealth, H!Login
<1>3. H!Accounts'
  BY <1>0, <1>2, AccountsSame DEF H!Login, H!rent
<1> QED BY <1>1, <1>3, HouseIsOrderAndAccounts, PTL

LEMMA HouseLogout ==
  ASSUME H!HousesAssumption, HouseIInv, NEW p \in Owners, H!Logout(p) PROVE HouseIInv'
<1>0. HouseOrder /\ H!Accounts
  BY HouseIsOrderAndAccounts
<1>1. HouseOrder'
  BY <1>0 DEF H!HousesAssumption, HouseOrder, HouseTypes, H!HouseTypeOK, H!PresentAreInvited, H!Invited,
         H!SleepersRest, H!Logout, H!Nobody, H!rent
<1>2. \A q \in Owners : H!Wealth(q)' = H!Wealth(q)
  BY <1>0 DEF HouseOrder, HouseTypes, H!Wealth, H!Logout
<1>3. H!Accounts'
  BY <1>0, <1>2, AccountsSame DEF H!Logout, H!rent
<1> QED BY <1>1, <1>3, HouseIsOrderAndAccounts, PTL

LEMMA HouseSave ==
  ASSUME H!HousesAssumption, HouseIInv, H!Save PROVE HouseIInv'
<1>0. HouseOrder /\ H!Accounts
  BY HouseIsOrderAndAccounts
<1>1. HouseOrder'
  BY <1>0 DEF H!HousesAssumption, HouseOrder, HouseTypes, H!HouseTypeOK, H!PresentAreInvited, H!Invited,
         H!SleepersRest, H!Save, H!rent, H!access, H!beds
<1>2. \A q \in Owners : H!Wealth(q)' = H!Wealth(q)
  BY <1>0 DEF HouseOrder, HouseTypes, H!Wealth, H!Save
<1>3. H!Accounts'
  BY <1>0, <1>2, AccountsSame DEF H!Save, H!rent
<1> QED BY <1>1, <1>3, HouseIsOrderAndAccounts, PTL

LEMMA HouseQuiet ==
  ASSUME HouseIInv, HouseOrder', UNCHANGED <<u7, u8, u9, u10, u14, u15>> PROVE HouseIInv'
<1>1. H!Accounts
  BY HouseIsOrderAndAccounts
<1>2. \A q \in Owners : H!Wealth(q)' = H!Wealth(q)
  BY DEF H!Wealth
<1>3. H!Accounts'
  BY <1>1, <1>2, AccountsSame
<1> QED BY <1>3, HouseIsOrderAndAccounts, PTL

\* Coming, going, being invited or thrown out, lying down and waking move no wealth.
LEMMA HouseCompany ==
  ASSUME H!HousesAssumption, HouseIInv, NEW p \in Owners, NEW q \in Owners, NEW ps \in SUBSET Owners,
         \/ H!Enter(p) \/ H!Leave(p) \/ H!KickPlayer(p, q) \/ H!InviteGuests(p, ps)
         \/ H!InviteSubowners(p, ps) \/ H!Sleep(p) \/ H!Wake(p) \/ H!RentDue
  PROVE  HouseIInv'
<1> SUFFICES HouseOrder' /\ UNCHANGED <<u7, u8, u9, u10, u14, u15>>
  BY HouseQuiet
<1>0. HouseOrder /\ H!Accounts
  BY HouseIsOrderAndAccounts
<1> USE DEF HouseOrder, HouseTypes, H!HouseTypeOK, H!PresentAreInvited, H!Invited, H!SleepersRest, H!rent,
            H!access, H!beds, H!wealth
<1>1. CASE H!Enter(p)
  BY <1>0, <1>1 DEF H!Enter
<1>2. CASE H!Leave(p)
  BY <1>0, <1>2 DEF H!Leave
<1>3. CASE H!KickPlayer(p, q)
  BY <1>0, <1>3 DEF H!KickPlayer
<1>4. CASE H!InviteGuests(p, ps)
  BY <1>0, <1>4 DEF H!InviteGuests, H!KickedFrom, H!HousesAssumption
<1>5. CASE H!InviteSubowners(p, ps)
  BY <1>0, <1>5 DEF H!InviteSubowners, H!KickedFrom, H!HousesAssumption
<1>6. CASE H!Sleep(p)
  BY <1>0, <1>6 DEF H!Sleep, H!HousesAssumption
<1>7. CASE H!Wake(p)
  BY <1>0, <1>7 DEF H!Wake, H!WakeUp, H!HousesAssumption
<1>8. CASE H!RentDue
  BY <1>0, <1>8 DEF H!RentDue
<1> QED BY <1>1, <1>2, <1>3, <1>4, <1>5, <1>6, <1>7, <1>8

\* A step that keeps order and moves wealth at one player keeps the invariant.
LEMMA HouseMoves ==
  ASSUME H!HousesAssumption, HouseIInv, HouseOrder', NEW x \in Owners,
         \A p \in Owners \ {x} : H!Wealth(p)' = H!Wealth(p),
         H!Wealth(x).money' + u14' = H!Wealth(x).money + u14,
         H!Wealth(x).things' + u7' = H!Wealth(x).things + u7,
         u15' = FALSE => u15 = FALSE
  PROVE  HouseIInv'
<1>1. HouseTypes /\ HouseTypes' /\ H!Accounts /\ u7 \in Nat /\ u7' \in Nat
  BY HouseIsOrderAndAccounts DEF HouseOrder, H!HouseTypeOK
<1>2. H!Accounts'
  BY <1>1, AccountsAt
<1> QED BY <1>2, HouseIsOrderAndAccounts, PTL

\* Things are put on the floor and taken from it.
LEMMA HouseFloor ==
  ASSUME H!HousesAssumption, HouseIInv, NEW p \in Owners, NEW d \in {-1, 1},
         p \in u8, u7 - d \in Nat, u10' = H!With(u10, p, d), u7' = u7 - d,
         UNCHANGED <<u1, u2, u3, u4, u5, u6, u8, u9, u11, u12, u13, u14, u15>>
  PROVE  HouseIInv'
<1>0. HouseOrder /\ u7 \in Nat
  BY HouseIsOrderAndAccounts DEF HouseOrder, H!HouseTypeOK
<1>1. HouseTypes /\ u10[p] \in [money : Int, things : Int]
  BY <1>0 DEF HouseOrder, HouseTypes
<1>2. u10' = [u10 EXCEPT ![p] = [@ EXCEPT !.things = u10[p].things + d]]
  BY DEF H!With
<1>3. u10' \in [Owners -> [money : Int, things : Int]]
  BY <1>1, <1>2 DEF HouseTypes
<1>4. /\ u10'[p].money = u10[p].money /\ u10'[p].things = u10[p].things + d
      /\ \A q \in Owners \ {p} : u10'[q] = u10[q]
  BY <1>1, <1>2 DEF HouseTypes
<1>5. HouseOrder'
  BY <1>0, <1>3 DEF HouseOrder, HouseTypes, H!HouseTypeOK, H!PresentAreInvited, H!Invited, H!SleepersRest
<1>6. \A q \in Owners \ {p} : H!Wealth(q)' = H!Wealth(q)
  BY <1>4 DEF H!Wealth
<1>7. H!Wealth(p).money' + u14' = H!Wealth(p).money + u14
  BY <1>4 DEF H!Wealth
<1>8. H!Wealth(p).things' + u7' = H!Wealth(p).things + u7
  BY <1>0, <1>1, <1>4 DEF H!Wealth
<1> QED BY <1>5, <1>6, <1>7, <1>8, HouseMoves

LEMMA HousePutDown ==
  ASSUME H!HousesAssumption, HouseIInv, NEW p \in Owners, H!PutDown(p) \/ H!TakeUp(p)
  PROVE  HouseIInv'
<1>0. u7 \in Nat /\ u4 \subseteq u8
  BY HouseIsOrderAndAccounts DEF HouseOrder, H!HouseTypeOK
<1>1. CASE H!PutDown(p)
  <2>1. /\ p \in u8 /\ u7 - (-1) \in Nat /\ u10' = H!With(u10, p, -1) /\ u7' = u7 - (-1)
        /\ UNCHANGED <<u1, u2, u3, u4, u5, u6, u8, u9, u11, u12, u13, u14, u15>>
    BY <1>0, <1>1 DEF H!PutDown, H!access, H!beds, H!rent
  <2> QED BY <2>1, HouseFloor
<1>2. CASE H!TakeUp(p)
  <2>1. /\ p \in u8 /\ u7 - 1 \in Nat /\ u10' = H!With(u10, p, 1) /\ u7' = u7 - 1
        /\ UNCHANGED <<u1, u2, u3, u4, u5, u6, u8, u9, u11, u12, u13, u14, u15>>
    BY <1>0, <1>2 DEF H!TakeUp, H!access, H!beds, H!rent
  <2> QED BY <2>1, HouseFloor
<1> QED BY <1>1, <1>2

\* Whoever gets the house, nobody unwelcome is in it.
LEMMA HouseChangesHands ==
  ASSUME H!HousesAssumption, HouseIInv, NEW p \in Owners \cup {None}, H!SetOwner(p),
         UNCHANGED <<u8, u13>>, HouseTypes'
  PROVE  HouseOrder'
<1>0. HouseOrder
  BY HouseIsOrderAndAccounts
<1>1. CASE u1 # None
  BY <1>0, <1>1 DEF H!HousesAssumption, HouseOrder, H!HouseTypeOK, H!PresentAreInvited, H!Invited,
     H!SleepersRest, H!SetOwner, H!WakeUp
<1>2. CASE u1 = None
  <2>1. u4 = {} /\ u2 = {} /\ u3 = {}
    BY <1>0, <1>2 DEF H!HousesAssumption, HouseOrder, H!HouseTypeOK, H!PresentAreInvited, H!Invited
  <2> QED BY <1>0, <1>2, <2>1 DEF H!HousesAssumption, HouseOrder, H!HouseTypeOK, H!PresentAreInvited,
          H!Invited, H!SleepersRest, H!SetOwner, H!access
<1> QED BY <1>1, <1>2

LEMMA HouseTerms ==
  ASSUME NEW p, H!SetOwner(p), u5 \in BOOLEAN PROVE u5' \in BOOLEAN
<1>1. u5' = u5 \/ u5' = FALSE
  BY DEF H!SetOwner
<1> QED BY <1>1, Zenon

LEMMA HouseBuy ==
  ASSUME H!HousesAssumption, HouseIInv, NEW p \in Owners, H!Buy(p) PROVE HouseIInv'
<1>0. HouseOrder /\ u7 \in Nat /\ HouseTypes /\ Rent \in Int
  BY HouseIsOrderAndAccounts DEF HouseOrder, H!HouseTypeOK, H!HousesAssumption
<1>1. u10[p] \in [money : Int, things : Int] /\ p \in u8 /\ u1 = None /\ H!SetOwner(p)
  BY <1>0 DEF HouseTypes, H!Buy
<1>2. /\ u10' = [u10 EXCEPT ![p] = [@ EXCEPT !.money = u10[p].money - Rent]]
      /\ u14' = u14 + Rent /\ u7' = u7 /\ u9' = u9 /\ u8' = u8 /\ u13' = u13 /\ u15' = u15
  BY <1>1 DEF H!Buy, H!SetOwner
<1>3. u10' \in [Owners -> [money : Int, things : Int]] /\ u14' \in Int
  BY <1>0, <1>1, <1>2 DEF HouseTypes
<1>4. /\ u10'[p].things = u10[p].things /\ u10'[p].money = u10[p].money - Rent
      /\ \A q \in Owners \ {p} : u10'[q] = u10[q]
  BY <1>0, <1>1, <1>2 DEF HouseTypes
<1>5. HouseTypes'
  BY <1>0, <1>1, <1>2, <1>3, HouseTerms DEF HouseTypes
<1>6. HouseOrder'
  BY <1>1, <1>2, <1>5, HouseChangesHands
<1>7. \A q \in Owners \ {p} : H!Wealth(q)' = H!Wealth(q)
  BY <1>2, <1>4 DEF H!Wealth
<1>8. H!Wealth(p).money' + u14' = H!Wealth(p).money + u14
  <2>1. H!Wealth(p).money' = u10[p].money - Rent /\ H!Wealth(p).money = u10[p].money
    BY <1>1, <1>2, <1>4 DEF H!Wealth
  <2>2. u10[p].money \in Int /\ u14 \in Int
    BY <1>0, <1>1 DEF HouseTypes
  <2>3. u14' = u14 + Rent
    BY <1>2
  <2> QED BY <1>0, <2>1, <2>2, <2>3
<1>9. H!Wealth(p).things' + u7' = H!Wealth(p).things + u7
  BY <1>1, <1>2, <1>4 DEF H!Wealth
<1> QED BY <1>2, <1>6, <1>7, <1>8, <1>9, HouseMoves

\* The things on the floor go to the owner's depot.
LEMMA HouseHandOver ==
  ASSUME H!HousesAssumption, HouseIInv, NEW p \in Owners \cup {None}, H!HandOver(p), u1 \in Owners,
         UNCHANGED <<u8, u13, u14, u15>>
  PROVE  HouseIInv'
<1>0. HouseOrder /\ u7 \in Nat /\ HouseTypes /\ u1 # None
  BY HouseIsOrderAndAccounts DEF HouseOrder, H!HouseTypeOK, H!HousesAssumption
<1> DEFINE o == u1
<1>1. u10[o] \in [money : Int, things : Int] /\ o \in u8 /\ H!SetOwner(p)
  BY <1>0 DEF HouseTypes, H!HandOver
<1>2. /\ u10' = [u10 EXCEPT ![o] = [@ EXCEPT !.things = u10[o].things + u7]]
      /\ u7' = 0 /\ u9' = u9
  BY <1>0, <1>1 DEF H!HandOver, H!With, H!SetOwner
<1>o. o \in Owners
  OBVIOUS
<1> HIDE DEF o
<1>3. u10' \in [Owners -> [money : Int, things : Int]]
  BY <1>0, <1>1, <1>2, <1>o DEF HouseTypes
<1>4. /\ u10'[o].money = u10[o].money /\ u10'[o].things = u10[o].things + u7
      /\ \A q \in Owners \ {o} : u10'[q] = u10[q]
  BY <1>0, <1>1, <1>2, <1>o DEF HouseTypes
<1>5. HouseTypes'
  BY <1>0, <1>1, <1>2, <1>3, HouseTerms DEF HouseTypes
<1>6. HouseOrder'
  BY <1>1, <1>2, <1>5, HouseChangesHands
<1>o2. \A q \in Owners : H!Wealth(q)' = IF q \in u8 THEN u10'[q] ELSE u9[q]
  BY <1>2 DEF H!Wealth
<1>7. \A q \in Owners \ {o} : H!Wealth(q)' = H!Wealth(q)
  BY <1>o2, <1>4 DEF H!Wealth
<1>8. u10'[o].money + u14' = u10[o].money + u14 /\ u10'[o].things + u7' = u10[o].things + u7
  BY <1>0, <1>1, <1>2, <1>4
<1>9. H!Wealth(o) = u10[o]
  BY <1>1 DEF H!Wealth
<1> QED
  <2>1. PICK x \in Owners : x = o
    BY <1>o
  <2>2. H!Wealth(x)' = u10'[o] /\ H!Wealth(x) = u10[o]
    BY <1>1, <1>9, <1>o2, <2>1
  <2>3. \A q \in Owners \ {x} : H!Wealth(q)' = H!Wealth(q)
    BY <1>7, <2>1
  <2> QED BY <1>6, <1>8, <2>2, <2>3, HouseMoves

LEMMA HousePaysInOrder ==
  ASSUME H!HousesAssumption, HouseIInv, H!PayHouses, u15' \in BOOLEAN PROVE HouseOrder'
<1>0. HouseOrder /\ u7 \in Nat /\ HouseTypes /\ Rent \in Int /\ u1 \in Owners /\ u1 # None
  BY HouseIsOrderAndAccounts DEF HouseOrder, H!HouseTypeOK, H!HousesAssumption, H!PayHouses
<1>1. u9[u1] \in [money : Int, things : Int]
  BY <1>0 DEF HouseTypes
<1>2. CASE /\ u9' = [u9 EXCEPT ![u1].money = @ - Rent] /\ u14' = u14 + Rent /\ u5' = FALSE /\ u6' = 0
           /\ UNCHANGED <<u1, u2, u3, u4, u7, u8, u10, u11, u12, u13>>
  <2>1. u9' \in [Owners -> [money : Int, things : Int]] /\ u14' \in Int
    BY <1>0, <1>1, <1>2 DEF HouseTypes
  <2>2. u5' \in BOOLEAN
    BY <1>2, Zenon
  <2> QED BY <1>0, <1>2, <2>1, <2>2 DEF HouseOrder, HouseTypes, H!HouseTypeOK, H!PresentAreInvited, H!Invited,
          H!SleepersRest, H!HousesAssumption
<1>3. CASE /\ H!MayBeWarned /\ u6' = u6 + 1
           /\ UNCHANGED <<u1, u2, u3, u4, u5, u7, u8, u9, u10, u11, u12, u13, u14>>
  BY <1>0, <1>3 DEF HouseOrder, HouseTypes, H!HouseTypeOK, H!PresentAreInvited, H!Invited,
     H!SleepersRest, H!HousesAssumption, H!MayBeWarned
<1>4. CASE /\ H!SetOwner(None) /\ u9' = H!With(u9, u1, u7) /\ UNCHANGED <<u8, u10, u13, u14>>
  <2>1. u9' \in [Owners -> [money : Int, things : Int]]
    BY <1>0, <1>1, <1>4 DEF HouseTypes, H!With
  <2>2. HouseTypes'
    BY <1>0, <1>4, <2>1, HouseTerms DEF HouseTypes
  <2> QED BY <1>4, <2>2, HouseChangesHands
<1> QED BY <1>2, <1>3, <1>4 DEF H!PayHouses, H!access

\* The rent is taken as the database has the owner: only when he does not play
\* is that what he has.
LEMMA HousePays ==
  ASSUME H!HousesAssumption, HouseIInv, H!PayHouses PROVE HouseIInv'
<1>0. HouseOrder /\ u7 \in Nat /\ HouseTypes /\ Rent \in Int /\ u1 \in Owners
  BY HouseIsOrderAndAccounts DEF HouseOrder, H!HouseTypeOK, H!HousesAssumption, H!PayHouses
<1>1. u15' \in BOOLEAN /\ (u15' = FALSE => u15 = FALSE /\ u1 \notin u8)
      /\ u10' = u10 /\ u8' = u8 /\ u13' = u13
  <2>1. u15' = (u15 \/ u1 \in u8)
    BY DEF H!PayHouses
  <2>2. u15 \in BOOLEAN
    BY <1>0 DEF HouseTypes
  <2>3. u15' \in BOOLEAN /\ (u15' = FALSE => u15 = FALSE /\ u1 \notin u8)
    BY <2>1, <2>2, Zenon
  <2> QED BY <2>3 DEF H!PayHouses
<1>2. CASE u15' # FALSE
  <2>1. u15' = TRUE
    BY <1>1, <1>2
  <2>2. H!Accounts'
    BY <2>1 DEF H!Accounts
  <2>3. HouseOrder'
    BY <1>0, <1>1, HousePaysInOrder
  <2> QED BY <2>2, <2>3, HouseIsOrderAndAccounts, PTL
<1>3. CASE u15' = FALSE
  <2> DEFINE o == u1
  <2>1. o \in Owners /\ o \notin u8 /\ u15 = FALSE /\ u9[o] \in [money : Int, things : Int]
    BY <1>0, <1>1, <1>3 DEF HouseTypes
  <2>2. HouseOrder'
    BY <1>0, <1>1, HousePaysInOrder
  <2>3. \/ /\ u9' = [u9 EXCEPT ![o] = [@ EXCEPT !.money = u9[o].money - Rent]]
           /\ u14' = u14 + Rent /\ u7' = u7
        \/ u9' = u9 /\ u14' = u14 /\ u7' = u7
        \/ /\ u9' = [u9 EXCEPT ![o] = [@ EXCEPT !.things = u9[o].things + u7]]
           /\ u14' = u14 /\ u7' = 0
    BY <1>0 DEF H!PayHouses, H!SetOwner, H!With, H!HousesAssumption
  <2>4. H!Wealth(o) = u9[o] /\ \A q \in Owners : H!Wealth(q)' = IF q \in u8 THEN u10[q] ELSE u9'[q]
    BY <1>1, <2>1 DEF H!Wealth
  <2> HIDE DEF o
  <2>5. \A q \in Owners \ {o} : u9'[q] = u9[q]
    <3>1. u9 \in [Owners -> [money : Int, things : Int]]
      BY <1>0 DEF HouseTypes
    <3> QED BY <2>1, <2>3, <3>1
  <2>6. u9'[o].money + u14' = u9[o].money + u14 /\ u9'[o].things + u7' = u9[o].things + u7
    <3>1. u9[o].money \in Int /\ u9[o].things \in Int /\ u14 \in Int /\ u7 \in Int /\ Rent \in Int
      BY <1>0, <2>1 DEF HouseTypes
    <3>2. o \in DOMAIN u9
      BY <1>0, <2>1 DEF HouseTypes
    <3> QED BY <2>1, <2>3, <3>1, <3>2
  <2>7. PICK x \in Owners : x = o
    BY <2>1
  <2>8. H!Wealth(x)' = u9'[o] /\ H!Wealth(x) = u9[o]
    BY <2>1, <2>4, <2>7
  <2>9. \A q \in Owners \ {x} : H!Wealth(q)' = H!Wealth(q)
    BY <1>1, <2>5, <2>4, <2>7 DEF H!Wealth
  <2>10. H!Wealth(x).money' + u14' = H!Wealth(x).money + u14
         /\ H!Wealth(x).things' + u7' = H!Wealth(x).things + u7
    BY <2>6, <2>8
  <2> QED BY <1>3, <2>1, <2>2, <2>9, <2>10, HouseMoves
<1> QED BY <1>2, <1>3

LEMMA HouseStepIInv ==
  ASSUME H!HousesAssumption, HouseIInv, [H!Next]_(H!vars) PROVE HouseIInv'
<1>1. ASSUME NEW p \in Owners,
             \/ H!Login(p) \/ H!Logout(p) \/ H!Enter(p) \/ H!Leave(p) \/ H!PutDown(p) \/ H!TakeUp(p)
             \/ H!Buy(p) \/ H!GiveUp(p) \/ H!Sleep(p) \/ H!Wake(p)
      PROVE  HouseIInv'
  <2>1. CASE H!Enter(p) \/ H!Leave(p) \/ H!Sleep(p) \/ H!Wake(p)
    <3>1. {} \in SUBSET Owners
      OBVIOUS
    <3> QED BY <2>1, <3>1, HouseCompany
  <2>2. CASE H!GiveUp(p)
    <3>1. u1 \in Owners /\ H!HandOver(None) /\ UNCHANGED <<u8, u13, u14, u15>>
      BY <2>2 DEF H!GiveUp
    <3> QED BY <3>1, HouseHandOver
  <2> QED BY <1>1, <2>1, <2>2, HouseLogin, HouseLogout, HousePutDown, HouseBuy
<1>2. ASSUME NEW p \in Owners, NEW q \in Owners, H!KickPlayer(p, q) \/ H!Transfer(p, q) PROVE HouseIInv'
  <2>1. CASE H!KickPlayer(p, q)
    <3>1. {} \in SUBSET Owners
      OBVIOUS
    <3> QED BY <2>1, <3>1, HouseCompany
  <2>2. CASE H!Transfer(p, q)
    <3>1. u1 \in Owners /\ H!HandOver(q) /\ UNCHANGED <<u8, u13, u14, u15>>
      BY <2>2 DEF H!Transfer
    <3> QED BY <3>1, HouseHandOver
  <2> QED BY <1>2, <2>1, <2>2
<1>3. ASSUME NEW p \in Owners, NEW ps \in SUBSET Owners, H!InviteGuests(p, ps) \/ H!InviteSubowners(p, ps)
      PROVE  HouseIInv'
  BY <1>3, HouseCompany
<1>4. CASE H!RentDue
  <2>1. PICK p \in Owners : p = u1
    BY <1>4, HouseIsOrderAndAccounts DEF H!RentDue, HouseOrder, H!HouseTypeOK
  <2>2. {} \in SUBSET Owners
    OBVIOUS
  <2> QED BY <1>4, <2>1, <2>2, HouseCompany
<1>5. CASE UNCHANGED H!vars
  <2>1. HouseOrder'
    BY <1>5, HouseIsOrderAndAccounts DEF H!vars, H!access, H!wealth, H!beds, H!rent, HouseOrder, HouseTypes,
       H!HouseTypeOK, H!PresentAreInvited, H!Invited, H!SleepersRest
  <2> QED BY <1>5, <2>1, HouseQuiet DEF H!vars, H!access, H!wealth, H!beds, H!rent
<1> QED BY <1>1, <1>2, <1>3, <1>4, <1>5, HouseSave, HousePays DEF H!Next

-----------------------------------------------------------------------------
(* Items that decay (Decay).                                               *)

ItemType ==
  [kind : Kinds \cup {Gone}, dur : Nat, flag : BOOLEAN, here : BOOLEAN, waiting : Nat,
   bucket : [0 .. 3 -> Nat], left : Int, end : Int, again : BOOLEAN]

\* In how many sweeps bucket b is swept.
Turns(b, last) == IF b > last THEN b - last ELSE b - last + 4

\* How far the duration of a listed item and what is left of it by the clock are apart, at
\* the time now since the last sweep; since is the same for one that waits for a bucket.
InTurn(it, last, now, since) ==
  /\ it.dur >= 1
  /\ it.waiting = 1 => it.dur - since <= it.left /\ it.left <= it.dur
  /\ \A b \in 0 .. 3 : it.bucket[b] = 1 =>
       LET atSweep == it.left - (2 * Turns(b, last) - now)
       IN IF it.dur >= 8 THEN it.dur - 10 <= atSweep /\ atSweep <= it.dur - 6
          ELSE it.dur - 4 <= atSweep /\ atSweep <= it.dur

Listed(it) == it \in ItemType /\ (it.here /\ it.flag => D!Entries(it) > 0)

ItemIInv(it, last, now, since) ==
  /\ Listed(it)
  /\ ~it.again =>
       /\ D!Entries(it) <= 1
       /\ it.end # D!Never => it.end <= 8
       /\ D!CanDecay(it) /\ D!Entries(it) > 0 => it.flag /\ InTurn(it, last, now, since)

DecayIInv ==
  /\ DOMAIN u1 = Rotting /\ u2 \in 0 .. 3 /\ u3 \in 0 .. 2
  /\ \A i \in Rotting : ItemIInv(u1[i], u2, u3, u3)

LEMMA DecayNumbers == D!Round = 8 /\ D!Interval = 2 /\ D!Buckets = 4
BY DEF D!Round, D!Interval, D!Buckets

LEMMA DecayIInvImpliesInv == ASSUME DecayIInv PROVE D!DecayInv
<1>1. D!TypeOK
  BY DecayNumbers DEF DecayIInv, ItemIInv, Listed, ItemType, D!TypeOK
<1>2. ASSUME NEW i \in Rotting, D!Running(u1[i])
      PROVE  D!Entries(u1[i]) > 0
  BY <1>2 DEF DecayIInv, ItemIInv, Listed, D!Running, D!CanDecay
<1>3. ASSUME NEW i \in Rotting, ~u1[i].again
      PROVE  /\ D!Entries(u1[i]) <= 1
             /\ u1[i].end # D!Never => u1[i].end <= D!Round
             /\ D!Running(u1[i]) => u1[i].left > -2 * D!Interval
  <2> DEFINE it == u1[i]
  <2>1. ItemIInv(it, u2, u3, u3) /\ u2 \in 0 .. 3 /\ u3 \in 0 .. 2 /\ ~it.again
    BY <1>3 DEF DecayIInv
  <2> HIDE DEF it
  <2>2. it \in ItemType
    BY <2>1 DEF ItemIInv, Listed
  <2>3. D!Entries(it) <= 1 /\ (it.end # D!Never => it.end <= 8)
    BY <2>1 DEF ItemIInv
  <2>4. ASSUME D!Running(it) PROVE it.left >= -3
    <3>1. D!Entries(it) > 0 /\ InTurn(it, u2, u3, u3)
      BY <2>1, <2>4 DEF ItemIInv, Listed, D!Running, D!CanDecay
    <3>2. it.waiting = 1 \/ \E b \in 0 .. 3 : it.bucket[b] = 1
      <4>1. it.waiting \in Nat /\ it.bucket[0] \in Nat /\ it.bucket[1] \in Nat /\ it.bucket[2] \in Nat
            /\ it.bucket[3] \in Nat
        BY <2>2 DEF ItemType
      <4>2. D!Entries(it) = 1
        BY <2>3, <3>1, <4>1 DEF D!Entries
      <4>3. it.waiting = 1 \/ it.bucket[0] = 1 \/ it.bucket[1] = 1 \/ it.bucket[2] = 1 \/ it.bucket[3] = 1
        <5> DEFINE w == it.waiting
                   a == it.bucket[0]
                   b == it.bucket[1]
                   c == it.bucket[2]
                   d == it.bucket[3]
        <5>1. w + a + b + c + d = 1 /\ w \in Nat /\ a \in Nat /\ b \in Nat /\ c \in Nat /\ d \in Nat
          BY <4>1, <4>2 DEF D!Entries
        <5> HIDE DEF w, a, b, c, d
        <5>2. w = 1 \/ a = 1 \/ b = 1 \/ c = 1 \/ d = 1
          BY <5>1
        <5> QED BY <5>2 DEF w, a, b, c, d
      <4> QED BY <4>3
    <3>3. it.dur \in Nat /\ it.left \in Int
      BY <2>2 DEF ItemType
    <3> QED BY <2>1, <3>1, <3>2, <3>3 DEF InTurn, Turns
  <2>5. it.left \in Int
    BY <2>2 DEF ItemType
  <2> QED BY <2>3, <2>4, <2>5, DecayNumbers DEF it
<1> QED BY <1>1, <1>2, <1>3 DEF D!DecayInv, D!NeverForgotten, D!InTime

LEMMA DecayInitIInv == ASSUME D!Init PROVE DecayIInv
<1> DEFINE a == D!Absent
<1>1. /\ a \in ItemType /\ a.here = FALSE /\ a.end = D!Never /\ D!Entries(a) = 0
      /\ a.kind = Gone /\ a.dur = 0 /\ a.waiting = 0
  BY DEF D!Absent, ItemType, D!Never, D!Buckets, D!Entries
<1> HIDE DEF a
<1>2. ItemIInv(a, 0, 0, 0)
  BY <1>1 DEF ItemIInv, Listed, D!CanDecay
<1>3. u1 = [i \in Rotting |-> a] /\ u2 = 0 /\ u3 = 0
  BY DEF D!Init, a
<1> QED BY <1>2, <1>3 DEF DecayIInv

LEMMA ItemClock ==
  ASSUME NEW n \in ItemType, NEW d \in Nat, NEW l \in Int,
         NEW s, s = [n EXCEPT !.flag = FALSE, !.dur = d, !.left = l]
  PROVE  s \in ItemType
BY DEF ItemType

\* A new type. An item whose type does not stop its time no longer counts as decaying.
LEMMA SetIDFields ==
  ASSUME D!DecayAssumption, NEW it \in ItemType, NEW k \in Kinds
  PROVE  LET s == D!SetID(it, k)
         IN /\ s \in ItemType /\ s.here = it.here /\ s.kind = k /\ s.end = it.end
            /\ s.bucket = it.bucket /\ s.waiting = it.waiting
            /\ s.again = (it.again \/ (k \in Decays /\ D!Entries(it) > 0))
            /\ s.flag = it.flag \/ s.flag = FALSE
            /\ k \notin StopTime /\ it.kind \notin StopTime => s.flag = FALSE
<1> DEFINE s == D!SetID(it, k)
<1> DEFINE plain == k \notin Decays /\ k \notin StopTime
           fresh == k \in Decays /\ (it.kind \notin StopTime \/ it.dur = 0)
           met == it.again \/ (k \in Decays /\ D!Entries(it) > 0)
           n == [it EXCEPT !.kind = k, !.again = @ \/ (k \in Decays /\ D!Entries(it) > 0)]
<1>1. met \in BOOLEAN
  OBVIOUS
<1>2. n = [it EXCEPT !.kind = k, !.again = met]
  BY DEF ItemType
<1>3. s = CASE plain -> [n EXCEPT !.flag = FALSE, !.dur = 0, !.left = 0]
            [] fresh -> [n EXCEPT !.flag = FALSE, !.dur = Duration[k], !.left = Duration[k]]
            [] OTHER -> n
  BY DEF D!SetID
<1> HIDE DEF n, s, met
<1>4. /\ n \in ItemType /\ n.here = it.here /\ n.kind = k /\ n.end = it.end /\ n.flag = it.flag
      /\ n.bucket = it.bucket /\ n.waiting = it.waiting /\ n.again = met
  BY <1>1, <1>2 DEF ItemType
<1>t. n \in ItemType
  BY <1>4
<1> DEFINE Good == /\ s \in ItemType /\ s.here = it.here /\ s.kind = k /\ s.end = it.end
                   /\ s.bucket = it.bucket /\ s.waiting = it.waiting /\ s.again = met
                   /\ s.flag = it.flag \/ s.flag = FALSE
                   /\ k \notin StopTime /\ it.kind \notin StopTime => s.flag = FALSE
<1>5. ASSUME plain PROVE Good
  <2>1. s = [n EXCEPT !.flag = FALSE, !.dur = 0, !.left = 0]
    BY <1>3, <1>5
  <2>a. 0 \in Nat /\ 0 \in Int
    OBVIOUS
  <2>b. s \in ItemType
    BY <1>t, <2>1, <2>a, ItemClock, Zenon
  <2>2. /\ s.here = n.here /\ s.kind = n.kind /\ s.end = n.end /\ s.flag = FALSE
        /\ s.bucket = n.bucket /\ s.waiting = n.waiting /\ s.again = n.again
    BY <1>t, <2>1 DEF ItemType
  <2> QED BY <1>4, <2>b, <2>2, Zenon
<1>6. ASSUME fresh PROVE Good
  <2>1. Duration[k] \in Nat /\ Duration[k] \in Int
    BY <1>6 DEF D!DecayAssumption
  <2>2. s = [n EXCEPT !.flag = FALSE, !.dur = Duration[k], !.left = Duration[k]]
    BY <1>3, <1>6
  <2>b. s \in ItemType
    BY <1>t, <2>1, <2>2, ItemClock, Zenon
  <2>3. /\ s.here = n.here /\ s.kind = n.kind /\ s.end = n.end /\ s.flag = FALSE
        /\ s.bucket = n.bucket /\ s.waiting = n.waiting /\ s.again = n.again
    BY <1>t, <2>2 DEF ItemType
  <2> QED BY <1>4, <2>b, <2>3, Zenon
<1>7. ASSUME ~plain, ~fresh PROVE Good
  <2>1. s = n /\ (k \in StopTime \/ it.kind \in StopTime)
    BY <1>3, <1>7
  <2> QED BY <1>4, <2>1
<1>8. Good
  BY <1>5, <1>6, <1>7
<1>9. s.again = (it.again \/ (k \in Decays /\ D!Entries(it) > 0))
  <2>1. s.again = met
    BY <1>8
  <2> QED BY <2>1, Zenon DEF met
<1>10. /\ s \in ItemType /\ s.here = it.here /\ s.kind = k /\ s.end = it.end
       /\ s.bucket = it.bucket /\ s.waiting = it.waiting
       /\ s.flag = it.flag \/ s.flag = FALSE
       /\ k \notin StopTime /\ it.kind \notin StopTime => s.flag = FALSE
  BY <1>8
<1> QED BY <1>9, <1>10 DEF s

\* An entry the item already had is remembered as such.
LEMMA SetIDKeeps ==
  ASSUME D!DecayAssumption, NEW it, NEW k \in Kinds, NEW last, NEW now, NEW since,
         ItemIInv(it, last, now, since)
  PROVE  LET s == D!SetID(it, k)
         IN /\ ItemIInv(s, last, now, since)
            /\ ~s.again /\ D!CanDecay(s) => D!Entries(s) = 0
            /\ s.here = it.here /\ s.kind = k
<1> DEFINE s == D!SetID(it, k)
<1>1. it \in ItemType /\ (it.here /\ it.flag => D!Entries(it) > 0) /\ D!Entries(it) \in Nat
  BY DEF ItemIInv, Listed, ItemType, D!Entries
<1>2. /\ s \in ItemType /\ s.here = it.here /\ s.kind = k /\ s.end = it.end
      /\ s.bucket = it.bucket /\ s.waiting = it.waiting
      /\ s.again = (it.again \/ (k \in Decays /\ D!Entries(it) > 0))
      /\ s.flag = it.flag \/ s.flag = FALSE
  BY <1>1, SetIDFields
<1>3. D!Entries(s) = D!Entries(it)
  BY <1>2 DEF D!Entries
<1> HIDE DEF s
<1>4. ~s.again /\ D!CanDecay(s) => D!Entries(s) = 0
  BY <1>1, <1>2, <1>3 DEF D!CanDecay, ItemType
<1>5. ItemIInv(s, last, now, since)
  BY <1>1, <1>2, <1>3, <1>4 DEF ItemIInv, Listed, ItemType
<1> QED BY <1>2, <1>4, <1>5 DEF s

LEMMA ItemEntered ==
  ASSUME NEW n \in ItemType, NEW w \in Nat, NEW l \in Int,
         NEW s, s = [n EXCEPT !.flag = TRUE, !.waiting = w, !.left = l]
  PROVE  s \in ItemType
BY DEF ItemType

LEMMA StartKeeps ==
  ASSUME NEW it, NEW last \in 0 .. 3, NEW now \in 0 .. 2, NEW since \in 0 .. 2,
         ItemIInv(it, last, now, since), ~it.again /\ D!CanDecay(it) => D!Entries(it) = 0
  PROVE  ItemIInv(D!Start(it), last, now, since)
<1> DEFINE s == D!Start(it)
<1>1. it \in ItemType /\ D!Entries(it) \in Nat
  BY DEF ItemIInv, Listed, ItemType, D!Entries
<1>2. CASE ~(D!CanDecay(it) /\ ~it.flag /\ it.dur > 0)
  BY <1>2 DEF D!Start
<1>3. CASE D!CanDecay(it) /\ ~it.flag /\ it.dur > 0
  <2>1. s = [it EXCEPT !.flag = TRUE, !.waiting = it.waiting + 1, !.left = it.dur]
    BY <1>3 DEF D!Start, D!Enter
  <2> HIDE DEF s
  <2>2. /\ s.here = it.here /\ s.kind = it.kind /\ s.end = it.end /\ s.flag = TRUE /\ s.dur = it.dur
        /\ s.bucket = it.bucket /\ s.again = it.again /\ s.waiting = it.waiting + 1 /\ s.left = it.dur
    BY <1>1, <2>1 DEF ItemType
  <2>3. s \in ItemType
    <3>1. it.waiting + 1 \in Nat /\ it.dur \in Int
      BY <1>1 DEF ItemType
    <3> QED BY <1>1, <2>1, <3>1, ItemEntered, Zenon
  <2>4. D!Entries(s) = D!Entries(it) + 1
    BY <1>1, <2>2 DEF D!Entries, ItemType
  <2>5. CASE it.again
    <3>1. D!Entries(s) > 0 /\ s.again
      BY <1>1, <2>2, <2>4, <2>5
    <3>2. ItemIInv(s, last, now, since)
      BY <2>3, <3>1 DEF ItemIInv, Listed
    <3> QED BY <3>2 DEF s
  <2>6. CASE ~it.again
    <3>1. D!Entries(s) = 1 /\ \A b \in 0 .. 3 : it.bucket[b] = 0
      <4>1. D!Entries(it) = 0
        BY <1>3, <2>6
      <4> DEFINE w == it.waiting
                 a == it.bucket[0]
                 b == it.bucket[1]
                 c == it.bucket[2]
                 d == it.bucket[3]
      <4>2. w + a + b + c + d = 0 /\ w \in Nat /\ a \in Nat /\ b \in Nat /\ c \in Nat /\ d \in Nat
        BY <1>1, <4>1 DEF D!Entries, ItemType
      <4> HIDE DEF w, a, b, c, d
      <4>3. a = 0 /\ b = 0 /\ c = 0 /\ d = 0
        BY <4>2
      <4>4. it.bucket[0] = 0 /\ it.bucket[1] = 0 /\ it.bucket[2] = 0 /\ it.bucket[3] = 0
        BY <4>3 DEF a, b, c, d
      <4> QED BY <2>4, <4>1, <4>4
    <3>2. s.dur >= 1 /\ s.dur \in Nat
      BY <1>1, <1>3, <2>2 DEF ItemType
    <3>3. InTurn(s, last, now, since)
      BY <2>2, <3>1, <3>2 DEF InTurn
    <3>4. s.end # D!Never => s.end <= 8
      BY <2>2, <2>6 DEF ItemIInv
    <3>5. s.flag /\ ~s.again
      BY <2>2, <2>6
    <3>6. ItemIInv(s, last, now, since)
      BY <2>3, <3>1, <3>3, <3>4, <3>5 DEF ItemIInv, Listed
    <3> QED BY <3>6 DEF s
  <2> QED BY <2>5, <2>6
<1> QED BY <1>2, <1>3

LEMMA DecayTurns ==
  ASSUME NEW last \in 0 .. 3
  PROVE  /\ (last + 1) % D!Buckets \in 0 .. 3
         /\ Turns((last + 1) % D!Buckets, last) = 1 /\ Turns(last, last) = 4
         /\ \A b \in 0 .. 3 : b # (last + 1) % D!Buckets
                                => Turns(b, last) = Turns(b, (last + 1) % D!Buckets) + 1
BY DecayNumbers DEF Turns

\* cleanup, at a sweep or between two.
LEMMA SettleKeeps ==
  ASSUME NEW it, NEW last \in 0 .. 3, NEW now \in 0 .. 2, NEW since \in 0 .. 2,
         now = since \/ (now = 0 /\ since = 2), NEW later, ItemIInv(it, last, now, since)
  PROVE  ItemIInv(D!Settle(it, last), last, now, later)
<1> DEFINE s == D!Settle(it, last)
           b == IF it.dur >= D!Round THEN last ELSE (last + 1) % D!Buckets
<1>1. /\ it \in ItemType /\ it.waiting \in Nat /\ it.dur \in Nat /\ it.left \in Int
      /\ it.bucket \in [0 .. 3 -> Nat]
  BY DEF ItemIInv, Listed, ItemType
<1>2. b \in 0 .. 3
  BY DecayTurns
<1>3. s = [it EXCEPT !.bucket = [it.bucket EXCEPT ![b] = it.bucket[b] + it.waiting], !.waiting = 0]
  BY <1>1 DEF D!Settle, ItemType
<1> DEFINE bs == [it.bucket EXCEPT ![b] = it.bucket[b] + it.waiting]
           z == 0
<1>4. /\ bs \in [0 .. 3 -> Nat] /\ bs[b] = it.bucket[b] + it.waiting
      /\ \A c \in 0 .. 3 \ {b} : bs[c] = it.bucket[c]
  BY <1>1, <1>2
<1>5. s = [it EXCEPT !.bucket = bs, !.waiting = z] /\ z \in Nat
  BY <1>3
<1> HIDE DEF bs, z, s
<1>6. s \in ItemType
  BY <1>1, <1>4, <1>5 DEF ItemType
<1>7. /\ s.here = it.here /\ s.kind = it.kind /\ s.end = it.end /\ s.flag = it.flag /\ s.dur = it.dur
      /\ s.bucket = bs /\ s.again = it.again /\ s.waiting = z /\ s.left = it.left
  BY <1>1, <1>5 DEF ItemType
<1>8. D!Entries(s) = D!Entries(it)
  <2>1. \A c \in 0 .. 3 : it.bucket[c] \in Nat
    BY <1>1
  <2>2. b = 0 \/ b = 1 \/ b = 2 \/ b = 3
    BY <1>2
  <2> HIDE DEF b
  <2> QED BY <1>1, <1>4, <1>7, <2>1, <2>2 DEF D!Entries, z
<1>9. Listed(s)
  BY <1>6, <1>7, <1>8 DEF ItemIInv, Listed
<1>10. ASSUME ~it.again, D!CanDecay(it), D!Entries(it) > 0
       PROVE  s.flag /\ InTurn(s, last, now, later)
  <2>1. it.flag /\ InTurn(it, last, now, since) /\ D!Entries(it) <= 1
    BY <1>10 DEF ItemIInv
  <2>2. ASSUME NEW c \in 0 .. 3, s.bucket[c] = 1
        PROVE LET atSweep == it.left - (2 * Turns(c, last) - now)
              IN IF it.dur >= 8 THEN it.dur - 10 <= atSweep /\ atSweep <= it.dur - 6
                 ELSE it.dur - 4 <= atSweep /\ atSweep <= it.dur
    <3>1. CASE it.bucket[c] = 1
      BY <2>1, <3>1 DEF InTurn
    <3>2. CASE it.bucket[c] # 1
      <4>1. c = b /\ it.waiting > 0
        <5>1. it.bucket[c] \in Nat
          BY <1>1
        <5> QED BY <1>1, <1>4, <1>7, <2>2, <3>2, <5>1
      <4>2. it.waiting = 1
        <5> DEFINE w == it.waiting
                   x == it.bucket[0] + it.bucket[1] + it.bucket[2] + it.bucket[3]
        <5>1. w \in Nat /\ x \in Nat /\ w + x <= 1 /\ w > 0
          BY <1>1, <2>1, <4>1 DEF D!Entries
        <5> HIDE DEF w, x
        <5>2. w = 1
          BY <5>1
        <5> QED BY <5>2 DEF w
      <4>3. it.dur - since <= it.left /\ it.left <= it.dur
        BY <2>1, <4>2 DEF InTurn
      <4>4. Turns(c, last) = IF it.dur >= 8 THEN 4 ELSE 1
        BY <4>1, DecayTurns, DecayNumbers
      <4> QED BY <1>1, <4>3, <4>4
    <3> QED BY <3>1, <3>2
  <2>3. s.dur >= 1
    BY <1>7, <2>1 DEF InTurn
  <2>4. s.waiting # 1
    BY <1>7 DEF z
  <2> QED BY <1>7, <2>1, <2>2, <2>3, <2>4 DEF InTurn
<1>11. ItemIInv(s, last, now, later)
  <2>1. D!CanDecay(s) = D!CanDecay(it)
    BY <1>7 DEF D!CanDecay
  <2> QED BY <1>7, <1>8, <1>9, <1>10, <2>1 DEF ItemIInv
<1> QED BY <1>11 DEF s

LEMMA BucketSet ==
  ASSUME NEW it \in ItemType, NEW b \in 0 .. 3, NEW v \in Nat, NEW s, s = [it EXCEPT !.bucket[b] = v]
  PROVE  /\ s \in ItemType /\ s.here = it.here /\ s.kind = it.kind /\ s.end = it.end
         /\ s.flag = it.flag /\ s.dur = it.dur /\ s.again = it.again /\ s.waiting = it.waiting
         /\ s.left = it.left /\ s.bucket[b] = v /\ \A c \in 0 .. 3 \ {b} : s.bucket[c] = it.bucket[c]
         /\ D!Entries(s) = D!Entries(it) + v - it.bucket[b]
<1>0. it.bucket \in [0 .. 3 -> Nat]
  BY DEF ItemType
<1> DEFINE bs == [it.bucket EXCEPT ![b] = v]
<1>1. bs \in [0 .. 3 -> Nat] /\ bs[b] = v /\ \A c \in 0 .. 3 \ {b} : bs[c] = it.bucket[c]
  BY <1>0
<1>2. s = [it EXCEPT !.bucket = bs]
  OBVIOUS
<1> HIDE DEF bs
<1>3. s \in ItemType
  BY <1>1, <1>2 DEF ItemType
<1>4. /\ s.here = it.here /\ s.kind = it.kind /\ s.end = it.end
      /\ s.flag = it.flag /\ s.dur = it.dur /\ s.again = it.again /\ s.waiting = it.waiting
      /\ s.left = it.left /\ s.bucket = bs
  BY <1>2 DEF ItemType
<1>5. D!Entries(s) = D!Entries(it) + v - it.bucket[b]
  <2>1. it.waiting \in Nat /\ \A c \in 0 .. 3 : it.bucket[c] \in Nat
    BY <1>0 DEF ItemType
  <2>2. b = 0 \/ b = 1 \/ b = 2 \/ b = 3
    OBVIOUS
  <2> QED BY <1>1, <1>4, <2>1, <2>2 DEF D!Entries
<1> QED BY <1>1, <1>3, <1>4, <1>5

LEMMA OnlyEntry ==
  ASSUME NEW it, D!Entries(it) = 1, it.bucket \in [0 .. 3 -> Nat], it.waiting \in Nat,
         NEW b \in 0 .. 3, it.bucket[b] >= 1
  PROVE  it.waiting = 0 /\ \A a \in 0 .. 3 \ {b} : it.bucket[a] = 0
<1> DEFINE w == it.waiting
           x0 == it.bucket[0]
           x1 == it.bucket[1]
           x2 == it.bucket[2]
           x3 == it.bucket[3]
<1>1. w + x0 + x1 + x2 + x3 = 1 /\ w \in Nat /\ x0 \in Nat /\ x1 \in Nat /\ x2 \in Nat /\ x3 \in Nat
  BY DEF D!Entries
<1>2. (b = 0 /\ x0 >= 1) \/ (b = 1 /\ x1 >= 1) \/ (b = 2 /\ x2 >= 1) \/ (b = 3 /\ x3 >= 1)
  OBVIOUS
<1> HIDE DEF w, x0, x1, x2, x3
<1>3. w = 0 /\ (b # 0 => x0 = 0) /\ (b # 1 => x1 = 0) /\ (b # 2 => x2 = 0) /\ (b # 3 => x3 = 0)
  BY <1>1, <1>2
<1>4. \A a \in 0 .. 3 : a = 0 \/ a = 1 \/ a = 2 \/ a = 3
  OBVIOUS
<1> QED BY <1>3, <1>4 DEF w, x0, x1, x2, x3

LEMMA StartFields ==
  ASSUME NEW it \in ItemType PROVE D!Start(it).bucket = it.bucket /\ D!Start(it).again = it.again
BY DEF D!Start, D!Enter, ItemType

\* An item that decays is in no list but, perhaps, the one it is then entered in.
LEMMA DecayNowKeeps ==
  ASSUME D!DecayAssumption, NEW it \in ItemType, it.kind \in Decays, NEW last \in 0 .. 3,
         NEW now \in 0 .. 2, NEW since \in 0 .. 2, ~it.again => D!Entries(it) = 0 /\ it.left <= 8
  PROVE  LET s == D!DecayNow(it)
         IN ItemIInv(s, last, now, since) /\ s.bucket = it.bucket /\ (it.again => s.again)
<1> DEFINE e == [it EXCEPT !.end = it.left]
           k == DecayTo[it.kind]
<1>1. /\ e \in ItemType /\ e.here = it.here /\ e.kind = it.kind /\ e.end = it.left
      /\ e.bucket = it.bucket /\ e.waiting = it.waiting /\ e.again = it.again
  BY DEF ItemType
<1>2. D!DecayNow(it) = IF k = Gone THEN D!Remove(e) ELSE D!Start(D!SetID(e, k))
  BY <1>1 DEF D!DecayNow
<1>3. D!Entries(e) = D!Entries(it)
  BY <1>1 DEF D!Entries
<1> HIDE DEF e, k
<1>4. CASE k = Gone
  <2> DEFINE s == D!Remove(e)
             z == 0
  <2>1. s = [e EXCEPT !.here = FALSE, !.left = z] /\ z \in Int
    BY DEF D!Remove
  <2> HIDE DEF z, s
  <2>2. s \in ItemType /\ s.here = FALSE /\ s.end = e.end /\ s.bucket = e.bucket /\ s.waiting = e.waiting
        /\ s.again = e.again
    BY <1>1, <2>1 DEF ItemType
  <2>3. D!Entries(s) = D!Entries(e)
    BY <2>2 DEF D!Entries
  <2>4. ItemIInv(s, last, now, since)
    BY <1>1, <1>3, <2>2, <2>3 DEF ItemIInv, Listed, D!CanDecay
  <2> QED BY <1>1, <1>2, <1>4, <2>2, <2>4 DEF s
<1>5. CASE k # Gone
  <2>1. k \in Kinds /\ k \notin StopTime /\ e.kind \notin StopTime
    BY <1>1, <1>5 DEF D!DecayAssumption, k
  <2> DEFINE s == D!SetID(e, k)
  <2>2. /\ s \in ItemType /\ s.end = e.end /\ s.bucket = e.bucket /\ s.waiting = e.waiting
        /\ s.again = (e.again \/ (k \in Decays /\ D!Entries(e) > 0)) /\ s.flag = FALSE
    BY <1>1, <2>1, SetIDFields
  <2>3. D!Entries(s) = D!Entries(e) /\ (e.again => s.again)
    BY <2>2 DEF D!Entries
  <2> HIDE DEF s
  <2>4. ItemIInv(s, last, now, since) /\ (~s.again /\ D!CanDecay(s) => D!Entries(s) = 0)
    BY <1>1, <1>3, <2>2, <2>3 DEF ItemIInv, Listed
  <2>5. ItemIInv(D!Start(s), last, now, since)
    BY <2>4, StartKeeps
  <2>6. D!Start(s).bucket = s.bucket /\ D!Start(s).again = s.again
    BY <2>2, StartFields
  <2>7. D!DecayNow(it) = D!Start(s)
    BY <1>2, <1>5 DEF s
  <2> QED BY <1>1, <2>2, <2>3, <2>5, <2>6, <2>7
<1> QED BY <1>4, <1>5

\* When its bucket is swept the time of an item is nearly over, or a round of it is.
OnTime(it) ==
  /\ it.flag /\ it.dur >= 1
  /\ IF it.dur >= 8 THEN it.dur - 10 <= it.left /\ it.left <= it.dur - 6
     ELSE it.dur - 4 <= it.left /\ it.left <= it.dur
ToSweep(it, b) ==
  /\ Listed(it) /\ it.bucket[b] >= 1
  /\ ~it.again =>
       /\ D!Entries(it) = 1 /\ it.bucket[b] = 1
       /\ it.end # D!Never => it.end <= 8
       /\ D!CanDecay(it) => OnTime(it)

\* checkDecay, one entry.
LEMMA SweepEntryKeeps ==
  ASSUME D!DecayAssumption, NEW it, NEW b \in 0 .. 3, ToSweep(it, b)
  PROVE  LET s == D!SweepEntry(it, b)
         IN ItemIInv(s, b, 0, 2) /\ s.bucket[b] >= it.bucket[b] - 1 /\ (it.again => s.again)
<1> DEFINE s == D!SweepEntry(it, b)
           rest == it.dur - D!Round
           left == IF rest <= 0 THEN 0 ELSE rest
           used == [it EXCEPT !.dur = IF rest <= 0 THEN 0 ELSE rest]
           soon == (rest + 1) \div D!Round
           v == it.bucket[b] - 1
<1>1. /\ it \in ItemType /\ it.bucket[b] \in Nat /\ it.dur \in Nat /\ it.left \in Int
      /\ v \in Nat /\ rest = it.dur - 8 /\ left \in Nat /\ 2 \in 0 .. 2 /\ 0 \in 0 .. 2
      /\ D!Entries(it) \in Nat
  BY DecayNumbers DEF ToSweep, Listed, ItemType, D!Entries
<1>2. /\ used = [it EXCEPT !.dur = left]
      /\ s = CASE ~D!CanDecay(it) -> [D!Drop(it, b) EXCEPT !.flag = FALSE]
               [] D!CanDecay(it) /\ (rest <= 0 \/ (rest < D!Round /\ soon = 0)) -> D!DecayNow(D!Drop(used, b))
               [] D!CanDecay(it) /\ 0 < rest /\ rest < D!Round /\ soon > 0 ->
                    [D!Drop(used, b) EXCEPT !.bucket[(b + soon) % D!Buckets] = @ + 1]
               [] OTHER -> used
  BY DEF D!SweepEntry
<1>3. /\ used \in ItemType /\ used.here = it.here /\ used.kind = it.kind /\ used.end = it.end
      /\ used.flag = it.flag /\ used.bucket = it.bucket /\ used.again = it.again /\ used.waiting = it.waiting
      /\ used.left = it.left /\ used.dur = left
  <2> HIDE DEF left
  <2> QED BY <1>1, <1>2 DEF ItemType
<1>4. rest < 8 /\ rest > 0 => soon = IF rest = 7 THEN 1 ELSE 0
  BY <1>1, DecayNumbers
<1>e. D!Entries(used) = D!Entries(it) /\ D!CanDecay(used) = D!CanDecay(it)
  BY <1>3 DEF D!Entries, D!CanDecay
<1> HIDE DEF s, used, soon
<1>5. CASE ~D!CanDecay(it)
  <2> DEFINE d == D!Drop(it, b)
  <2>1. d = [it EXCEPT !.bucket[b] = v]
    BY DEF D!Drop
  <2>2. /\ d \in ItemType /\ d.here = it.here /\ d.kind = it.kind /\ d.end = it.end /\ d.again = it.again
        /\ d.bucket[b] = v /\ D!Entries(d) = D!Entries(it) - 1 /\ d.waiting = it.waiting
    BY <1>1, <2>1, BucketSet
  <2> HIDE DEF d
  <2>3. s = [d EXCEPT !.flag = FALSE]
    BY <1>2, <1>5 DEF d
  <2>4. /\ s \in ItemType /\ s.here = d.here /\ s.kind = d.kind /\ s.end = d.end /\ s.again = d.again
        /\ s.bucket = d.bucket /\ s.flag = FALSE /\ s.waiting = d.waiting
    BY <2>2, <2>3 DEF ItemType
  <2>5. D!Entries(s) = D!Entries(d) /\ ~D!CanDecay(s)
    BY <1>5, <2>2, <2>4 DEF D!Entries, D!CanDecay
  <2>6. ItemIInv(s, b, 0, 2)
    BY <1>1, <2>2, <2>4, <2>5 DEF ItemIInv, Listed, ToSweep
  <2> QED BY <1>1, <2>2, <2>4, <2>6 DEF s
<1>d. ASSUME NEW d, d = D!Drop(used, b)
      PROVE  /\ d \in ItemType /\ d.here = it.here /\ d.kind = it.kind /\ d.end = it.end /\ d.again = it.again
             /\ d.bucket[b] = v /\ D!Entries(d) = D!Entries(it) - 1 /\ d.left = it.left /\ d.dur = left
             /\ d.flag = it.flag /\ d.waiting = it.waiting
             /\ \A c \in 0 .. 3 \ {b} : d.bucket[c] = it.bucket[c]
  <2>1. d = [used EXCEPT !.bucket[b] = v]
    BY <1>3, <1>d DEF D!Drop
  <2> HIDE DEF left, v
  <2>2. /\ d \in ItemType /\ d.here = used.here /\ d.kind = used.kind /\ d.end = used.end
        /\ d.flag = used.flag /\ d.dur = used.dur /\ d.again = used.again /\ d.waiting = used.waiting
        /\ d.left = used.left /\ d.bucket[b] = v /\ \A c \in 0 .. 3 \ {b} : d.bucket[c] = used.bucket[c]
        /\ D!Entries(d) = D!Entries(used) + v - used.bucket[b]
    BY <1>1, <1>3, <2>1, BucketSet
  <2>3. D!Entries(d) = D!Entries(it) - 1
    BY <1>1, <1>3, <1>e, <2>2 DEF v
  <2> QED BY <1>3, <2>2, <2>3
<1>6. CASE D!CanDecay(it) /\ (rest <= 0 \/ (rest < D!Round /\ soon = 0))
  <2> DEFINE d == D!Drop(used, b)
  <2>1. s = D!DecayNow(d)
    <3> DEFINE arm1 == ~D!CanDecay(it)
               arm2 == D!CanDecay(it) /\ (rest <= 0 \/ (rest < D!Round /\ soon = 0))
               arm3 == D!CanDecay(it) /\ 0 < rest /\ rest < D!Round /\ soon > 0
               to1 == [D!Drop(it, b) EXCEPT !.flag = FALSE]
               to2 == D!DecayNow(D!Drop(used, b))
               to3 == [D!Drop(used, b) EXCEPT !.bucket[(b + soon) % D!Buckets] = @ + 1]
    <3>1. ~arm1 /\ arm2 /\ ~arm3
      BY <1>1, <1>4, <1>6, DecayNumbers
    <3>2. s = CASE arm1 -> to1 [] arm2 -> to2 [] arm3 -> to3 [] OTHER -> used
      BY <1>2
    <3> HIDE DEF arm1, arm2, arm3, to1, to2, to3
    <3>3. s = to2
      BY <3>1, <3>2
    <3> QED BY <3>3 DEF to2
  <2>2. /\ d \in ItemType /\ d.kind = it.kind /\ d.again = it.again
        /\ d.bucket[b] = v /\ D!Entries(d) = D!Entries(it) - 1 /\ d.left = it.left
    BY <1>d
  <2>3. d.kind \in Decays
    BY <1>6, <2>2 DEF D!CanDecay
  <2>4. ~d.again => D!Entries(d) = 0 /\ d.left <= 8
    <3>1. rest <= 6
      BY <1>1, <1>4, <1>6, DecayNumbers
    <3> QED BY <1>1, <1>6, <2>2, <3>1 DEF ToSweep, OnTime
  <2> HIDE DEF d
  <2>5. ItemIInv(s, b, 0, 2) /\ s.bucket = d.bucket /\ (d.again => s.again)
    BY <1>1, <2>1, <2>2, <2>3, <2>4, DecayNowKeeps
  <2> QED BY <1>1, <2>2, <2>5 DEF s
<1>7. CASE D!CanDecay(it) /\ 0 < rest /\ rest < D!Round /\ soon > 0
  <2> DEFINE d == D!Drop(used, b)
             c == (b + soon) % D!Buckets
  <2>1. s = [d EXCEPT !.bucket[c] = @ + 1]
    BY <1>1, <1>2, <1>7, DecayNumbers
  <2>2. rest = 7 /\ left = 7 /\ c \in 0 .. 3 /\ c # b /\ Turns(c, b) = 1
    <3>1. soon = 1 /\ rest = 7
      BY <1>1, <1>4, <1>7, DecayNumbers
    <3> QED BY <1>1, <3>1, DecayNumbers DEF Turns
  <2>3. /\ d \in ItemType /\ d.here = it.here /\ d.kind = it.kind /\ d.end = it.end /\ d.again = it.again
        /\ d.bucket[b] = v /\ D!Entries(d) = D!Entries(it) - 1 /\ d.left = it.left /\ d.dur = 7
        /\ d.flag = it.flag /\ d.waiting = it.waiting
    BY <1>d, <2>2
  <2> HIDE DEF d, c
  <2> DEFINE w == d.bucket[c] + 1
  <2>4. s = [d EXCEPT !.bucket[c] = w] /\ w \in Nat
    BY <2>1, <2>2, <2>3 DEF ItemType
  <2> HIDE DEF w
  <2>5. /\ s \in ItemType /\ s.here = d.here /\ s.kind = d.kind /\ s.end = d.end
        /\ s.flag = d.flag /\ s.dur = d.dur /\ s.again = d.again /\ s.waiting = d.waiting
        /\ s.left = d.left /\ s.bucket[c] = w /\ \A a \in 0 .. 3 \ {c} : s.bucket[a] = d.bucket[a]
        /\ D!Entries(s) = D!Entries(d) + w - d.bucket[c]
    <3>1. d \in ItemType /\ c \in 0 .. 3 /\ w \in Nat /\ s = [d EXCEPT !.bucket[c] = w]
      BY <2>2, <2>3, <2>4
    <3> HIDE DEF left, rest, v
    <3> QED BY <3>1, BucketSet, SMTT(30)
  <2>6. D!Entries(s) = D!Entries(it)
    <3>1. d.bucket[c] \in Nat
      BY <2>2, <2>3 DEF ItemType
    <3> QED BY <1>1, <2>3, <2>5, <3>1 DEF w
  <2>7. D!CanDecay(s) = D!CanDecay(it)
    BY <2>3, <2>5 DEF D!CanDecay
  <2>8. ASSUME ~it.again PROVE InTurn(s, b, 0, 2)
    <3>1. D!Entries(s) = 1 /\ s.bucket[c] >= 1 /\ s.bucket \in [0 .. 3 -> Nat] /\ s.waiting \in Nat
      <4>1. d.bucket[c] \in Nat /\ s.bucket[c] = d.bucket[c] + 1
        BY <2>2, <2>3, <2>5 DEF ItemType, w
      <4> QED BY <2>5, <2>6, <2>8, <4>1 DEF ToSweep, ItemType
    <3>2. s.waiting = 0 /\ \A a \in 0 .. 3 \ {c} : s.bucket[a] = 0
      BY <2>2, <3>1, OnlyEntry
    <3>3. it.dur = 15 /\ it.dur - 10 <= it.left /\ it.left <= it.dur - 6
      BY <1>1, <1>7, <2>2, <2>8 DEF ToSweep, OnTime
    <3>4. s.dur = 7 /\ 5 <= s.left /\ s.left <= 9 /\ s.left \in Int
      BY <1>1, <2>3, <2>5, <3>3
    <3>5. ASSUME NEW a \in 0 .. 3, s.bucket[a] = 1 PROVE Turns(a, b) = 1
      BY <2>2, <3>2, <3>5
    <3> HIDE DEF w
    <3> QED BY <3>2, <3>4, <3>5 DEF InTurn
  <2>9. ~it.again => it.flag /\ D!Entries(it) = 1 /\ (it.end # D!Never => it.end <= 8)
    BY <1>7 DEF ToSweep, OnTime
  <2>10. ItemIInv(s, b, 0, 2)
    <3>1. Listed(s)
      BY <2>3, <2>5, <2>6 DEF ToSweep, Listed
    <3> QED BY <2>3, <2>5, <2>6, <2>7, <2>8, <2>9, <3>1 DEF ItemIInv
  <2> QED BY <1>1, <2>2, <2>3, <2>5, <2>10 DEF s
<1>8. CASE D!CanDecay(it) /\ rest >= 8
  <2>1. s = used /\ left = rest
    BY <1>1, <1>2, <1>8, DecayNumbers
  <2>2. ASSUME ~it.again PROVE used.flag /\ InTurn(used, b, 0, 2)
    <3>1. D!Entries(used) = 1 /\ used.bucket[b] >= 1 /\ used.bucket \in [0 .. 3 -> Nat] /\ used.waiting \in Nat
      BY <1>3, <1>e, <2>2 DEF ToSweep, ItemType
    <3>2. used.waiting = 0 /\ \A a \in 0 .. 3 \ {b} : used.bucket[a] = 0
      BY <3>1, OnlyEntry
    <3>3. it.flag /\ it.dur - 10 <= it.left /\ it.left <= it.dur - 6
      BY <1>1, <1>8, <2>2 DEF ToSweep, OnTime
    <3>4. used.dur = it.dur - 8 /\ used.dur >= 8 /\ used.left = it.left
      BY <1>1, <1>3, <1>8, <2>1
    <3>5. Turns(b, b) = 4
      BY DecayTurns
    <3>6. ASSUME NEW a \in 0 .. 3, used.bucket[a] = 1 PROVE a = b
      BY <3>2, <3>6
    <3>7. InTurn(used, b, 0, 2)
      BY <1>1, <3>2, <3>3, <3>4, <3>5, <3>6 DEF InTurn
    <3> QED BY <1>3, <3>3, <3>7
  <2>3. ItemIInv(used, b, 0, 2)
    <3>1. Listed(used)
      BY <1>3, <1>e DEF ToSweep, Listed
    <3> QED BY <1>1, <1>3, <1>e, <2>2, <3>1 DEF ItemIInv, ToSweep
  <2> QED BY <1>1, <1>3, <2>1, <2>3 DEF s
<1>9. rest <= 0 \/ rest >= 8 \/ (0 < rest /\ rest < D!Round /\ (soon = 0 \/ soon > 0))
  BY <1>1, <1>4, DecayNumbers
<1> QED BY <1>1, <1>5, <1>6, <1>7, <1>8, <1>9, DecayNumbers

\* An item found in its bucket is one whose time has run on for the round.
LEMMA ListedToSweep ==
  ASSUME NEW it, NEW last \in 0 .. 3, NEW b, b = (last + 1) % D!Buckets,
         ItemIInv(it, last, 2, 2), it.bucket[b] >= 1
  PROVE  ToSweep(it, b)
<1>1. b \in 0 .. 3 /\ Turns(b, last) = 1
  BY DecayTurns
<1>2. /\ it \in ItemType /\ it.dur \in Nat /\ it.left \in Int /\ it.waiting \in Nat
      /\ it.bucket \in [0 .. 3 -> Nat]
  BY DEF ItemIInv, Listed, ItemType
<1>3. D!Entries(it) >= it.bucket[b] /\ D!Entries(it) \in Nat
  BY <1>1, <1>2 DEF D!Entries
<1>4. it.bucket[b] \in Nat
  BY <1>1, <1>2
<1>5. ASSUME ~it.again
      PROVE  D!Entries(it) = 1 /\ it.bucket[b] = 1 /\ (it.end # D!Never => it.end <= 8)
  BY <1>3, <1>4, <1>5 DEF ItemIInv
<1>6. ASSUME ~it.again, D!CanDecay(it) PROVE OnTime(it)
  <2>1. it.flag /\ InTurn(it, last, 2, 2)
    BY <1>5, <1>6 DEF ItemIInv
  <2> QED BY <1>1, <1>2, <1>5, <1>6, <2>1 DEF InTurn, OnTime
<1>7. Listed(it)
  BY DEF ItemIInv
<1> QED BY <1>5, <1>6, <1>7, Zenon DEF ToSweep

\* The bucket's sweep of one item. What is not in the bucket comes a sweep closer to its own.
LEMMA SweepItemKeeps ==
  ASSUME D!DecayAssumption, NEW it, NEW last \in 0 .. 3, NEW b, b = (last + 1) % D!Buckets,
         ItemIInv(it, last, 2, 2)
  PROVE  ItemIInv(D!SweepItem(it, b), b, 0, 2)
<1>1. /\ b \in 0 .. 3 /\ \A c \in 0 .. 3 : c # b => Turns(c, last) = Turns(c, b) + 1
  BY DecayTurns
<1>2. /\ it \in ItemType /\ it.dur \in Nat /\ it.left \in Int /\ it.waiting \in Nat
      /\ it.bucket \in [0 .. 3 -> Nat] /\ it.bucket[b] \in Nat
  BY <1>1 DEF ItemIInv, Listed, ItemType
<1>3. CASE it.bucket[b] = 0
  <2>1. ASSUME InTurn(it, last, 2, 2) PROVE InTurn(it, b, 0, 2)
    <3>1. ASSUME NEW c \in 0 .. 3, it.bucket[c] = 1
          PROVE  2 * Turns(c, last) - 2 = 2 * Turns(c, b) - 0
      BY <1>1, <1>3, <3>1 DEF Turns
    <3> QED BY <2>1, <3>1 DEF InTurn
  <2>2. ItemIInv(it, b, 0, 2)
    BY <2>1 DEF ItemIInv
  <2> QED BY <1>3, <2>2 DEF D!SweepItem
<1>4. CASE it.bucket[b] = 1
  <2>1. ToSweep(it, b)
    BY <1>4, ListedToSweep
  <2>2. ItemIInv(D!SweepEntry(it, b), b, 0, 2)
    BY <1>1, <2>1, SweepEntryKeeps
  <2> QED BY <1>4, <2>2 DEF D!SweepItem
<1>5. CASE it.bucket[b] >= 2
  <2>1. ToSweep(it, b)
    BY <1>2, <1>5, ListedToSweep
  <2> DEFINE s == D!SweepEntry(it, b)
  <2>2. it.again
    BY <1>5, <2>1 DEF ToSweep
  <2>3. ItemIInv(s, b, 0, 2) /\ s.bucket[b] >= it.bucket[b] - 1 /\ s.again
    BY <1>1, <2>1, <2>2, SweepEntryKeeps
  <2>4. D!SweepItem(it, b) = D!SweepEntry(s, b)
    BY <1>2, <1>5 DEF D!SweepItem
  <2> HIDE DEF s
  <2>5. s.bucket[b] \in Nat
    BY <1>1, <2>3 DEF ItemIInv, Listed, ItemType
  <2>6. ToSweep(s, b)
    BY <1>2, <1>5, <2>3, <2>5 DEF ToSweep, ItemIInv
  <2> QED BY <1>1, <2>4, <2>6, SweepEntryKeeps
<1> QED BY <1>2, <1>3, <1>4, <1>5

LEMMA EnterFields ==
  ASSUME NEW it \in ItemType
  PROVE  LET s == D!Enter(it)
         IN /\ s \in ItemType /\ s.here = it.here /\ s.kind = it.kind /\ s.end = it.end
            /\ s.flag = TRUE /\ s.dur = it.dur /\ s.bucket = it.bucket /\ s.again = it.again
            /\ s.waiting = it.waiting + 1 /\ s.left = it.dur
<1> DEFINE s == D!Enter(it)
<1>1. s = [it EXCEPT !.flag = TRUE, !.waiting = it.waiting + 1, !.left = it.dur]
  BY DEF D!Enter
<1> HIDE DEF s
<1>2. it.waiting + 1 \in Nat /\ it.dur \in Int
  BY DEF ItemType
<1>3. s \in ItemType
  BY <1>1, <1>2, ItemEntered, Zenon
<1>4. /\ s.here = it.here /\ s.kind = it.kind /\ s.end = it.end
      /\ s.flag = TRUE /\ s.dur = it.dur /\ s.bucket = it.bucket /\ s.again = it.again
      /\ s.waiting = it.waiting + 1 /\ s.left = it.dur
  BY <1>1 DEF ItemType
<1> QED BY <1>3, <1>4 DEF s

LEMMA AbsentFields ==
  /\ D!Absent \in ItemType /\ D!Absent.here = FALSE /\ D!Absent.end = D!Never
  /\ D!Entries(D!Absent) = 0 /\ D!Absent.kind = Gone /\ D!Absent.dur = 0
  /\ D!Absent.waiting = 0 /\ D!Absent.bucket = [b \in 0 .. 3 |-> 0] /\ D!Absent.flag = FALSE
BY DEF D!Absent, ItemType, D!Never, D!Buckets, D!Entries

\* A new item is in no list; one with a duration is entered at once.
LEMMA CreateKeeps ==
  ASSUME D!DecayAssumption, NEW k \in Kinds, NEW last \in 0 .. 3, NEW now \in 0 .. 2, NEW n,
         n = [D!SetID(D!Absent, k) EXCEPT !.here = TRUE],
         NEW s, s = IF n.dur > 0 THEN D!Enter(n) ELSE n
  PROVE  ItemIInv(s, last, now, now)
<1> DEFINE i == D!SetID(D!Absent, k)
<1>1. /\ i \in ItemType /\ i.kind = k /\ i.end = D!Never /\ i.bucket = [b \in 0 .. 3 |-> 0] /\ i.waiting = 0
      /\ i.flag = FALSE
  BY AbsentFields, SetIDFields
<1>2. n = [i EXCEPT !.here = TRUE]
  OBVIOUS
<1> HIDE DEF i
<1>3. /\ n \in ItemType /\ n.kind = k /\ n.end = D!Never /\ n.bucket = [b \in 0 .. 3 |-> 0] /\ n.waiting = 0
      /\ n.flag = FALSE
  BY <1>1, <1>2 DEF ItemType
<1>4. D!Entries(n) = 0
  BY <1>3 DEF D!Entries
<1>5. CASE ~(n.dur > 0)
  <2>1. s = n
    BY <1>5
  <2>2. ItemIInv(n, last, now, now)
    BY <1>3, <1>4 DEF ItemIInv, Listed
  <2> QED BY <2>1, <2>2
<1>6. CASE n.dur > 0
  <2>1. /\ s \in ItemType /\ s.end = D!Never /\ s.bucket = n.bucket /\ s.waiting = 1
        /\ s.flag = TRUE /\ s.dur = n.dur /\ s.left = n.dur
    <3>1. s = D!Enter(n)
      BY <1>6
    <3>2. /\ s \in ItemType /\ s.end = n.end /\ s.bucket = n.bucket /\ s.waiting = n.waiting + 1
          /\ s.flag = TRUE /\ s.dur = n.dur /\ s.left = n.dur
      BY <1>3, <3>1, EnterFields
    <3> QED BY <1>3, <3>2
  <2>2. D!Entries(s) = 1
    BY <1>3, <2>1 DEF D!Entries
  <2>3. s.dur >= 1 /\ s.dur \in Nat
    BY <1>6, <2>1 DEF ItemType
  <2>4. \A b \in 0 .. 3 : s.bucket[b] # 1
    BY <1>3, <2>1
  <2>5. InTurn(s, last, now, now)
    BY <2>1, <2>3, <2>4 DEF InTurn
  <2>6. ItemIInv(s, last, now, now)
    BY <2>1, <2>2, <2>5 DEF ItemIInv, Listed
  <2> QED BY <2>6
<1> QED BY <1>5, <1>6

LEMMA TakenKeeps ==
  ASSUME NEW it, NEW last, NEW now, ItemIInv(it, last, now, now)
  PROVE  ItemIInv(D!Remove(it), last, now, now)
<1> DEFINE s == D!Remove(it)
           z == 0
<1>1. s = [it EXCEPT !.here = FALSE, !.left = z] /\ z \in Int /\ it \in ItemType
  BY DEF D!Remove, ItemIInv, Listed
<1> HIDE DEF s, z
<1>2. /\ s \in ItemType /\ s.here = FALSE /\ s.end = it.end /\ s.bucket = it.bucket
      /\ s.waiting = it.waiting /\ s.again = it.again
  BY <1>1 DEF ItemType
<1>3. D!Entries(s) = D!Entries(it)
  BY <1>2 DEF D!Entries
<1>4. ItemIInv(s, last, now, now)
  BY <1>2, <1>3 DEF ItemIInv, Listed, D!CanDecay
<1> QED BY <1>4 DEF s

\* The clock: the time of an item runs while it decays.
LEMMA TickKeeps ==
  ASSUME NEW it, NEW last \in 0 .. 3, NEW now \in 0 .. 1, ItemIInv(it, last, now, now)
  PROVE  ItemIInv(IF D!Running(it) /\ ~it.again THEN [it EXCEPT !.left = @ - 1] ELSE it,
                  last, now + 1, now + 1)
<1>0. it \in ItemType /\ it.left - 1 \in Int /\ it.left \in Int /\ it.dur \in Nat
      /\ D!Entries(it) \in Nat
  BY DEF ItemIInv, Listed, ItemType, D!Entries
<1>1. CASE ~(D!Running(it) /\ ~it.again)
  <2>1. it.again \/ ~D!CanDecay(it) \/ ~(D!Entries(it) > 0)
    BY <1>1 DEF D!Running, ItemIInv
  <2>2. ItemIInv(it, last, now + 1, now + 1)
    BY <2>1 DEF ItemIInv
  <2> QED BY <1>1, <2>2
<1>2. CASE D!Running(it) /\ ~it.again
  <2> DEFINE s == [it EXCEPT !.left = @ - 1]
  <2>1. /\ s \in ItemType /\ s.here = it.here /\ s.kind = it.kind /\ s.end = it.end
        /\ s.flag = it.flag /\ s.dur = it.dur /\ s.bucket = it.bucket /\ s.again = it.again
        /\ s.waiting = it.waiting /\ s.left = it.left - 1
    BY <1>0 DEF ItemType
  <2> HIDE DEF s
  <2>2. D!Entries(s) = D!Entries(it) /\ D!CanDecay(s) = D!CanDecay(it)
    BY <2>1 DEF D!Entries, D!CanDecay
  <2>3. D!Entries(it) > 0 /\ it.flag /\ InTurn(it, last, now, now) /\ D!Entries(it) <= 1
        /\ (it.end # D!Never => it.end <= 8)
    BY <1>2 DEF ItemIInv, Listed, D!Running, D!CanDecay
  <2>4. InTurn(s, last, now + 1, now + 1)
    <3>1. \A b \in 0 .. 3 : Turns(b, last) \in Int
      BY DEF Turns
    <3>2. ASSUME NEW b \in 0 .. 3
          PROVE  s.left - (2 * Turns(b, last) - (now + 1)) = it.left - (2 * Turns(b, last) - now)
      BY <1>0, <2>1, <3>1
    <3> QED BY <1>0, <2>1, <2>3, <3>2 DEF InTurn
  <2>5. ItemIInv(s, last, now + 1, now + 1)
    BY <2>1, <2>2, <2>3, <2>4 DEF ItemIInv, Listed
  <2> QED BY <1>2, <2>5 DEF s
<1> QED BY <1>1, <1>2

\* One item is changed, the others and the clock are not.
LEMMA ItemChanges ==
  ASSUME DecayIInv, NEW i \in Rotting, NEW s, ItemIInv(s, u2, u3, u3),
         u1' = [u1 EXCEPT ![i] = s], UNCHANGED <<u2, u3>>
  PROVE  DecayIInv'
BY DEF DecayIInv, ItemIInv, Listed, InTurn, Turns, ItemType

LEMMA AfterItems ==
  ASSUME DOMAIN u1' = Rotting, u2' \in 0 .. 3, u3' \in 0 .. 2,
         \A i \in Rotting : ItemIInv(u1'[i], u2', u3', u3')
  PROVE  DecayIInv'
BY DEF DecayIInv, ItemIInv, Listed, InTurn, Turns, ItemType

LEMMA DecayStepIInv ==
  ASSUME D!DecayAssumption, DecayIInv, [D!Next]_(D!vars) PROVE DecayIInv'
<1>0. u2 \in 0 .. 3 /\ u3 \in 0 .. 2 /\ (\A i \in Rotting : ItemIInv(u1[i], u2, u3, u3)) /\ DOMAIN u1 = Rotting
  BY DEF DecayIInv
<1>1. ASSUME NEW i \in Rotting, NEW k \in Kinds, D!Create(i, k) PROVE DecayIInv'
  <2> DEFINE n == [D!SetID(D!Absent, k) EXCEPT !.here = TRUE]
             s == IF n.dur > 0 THEN D!Enter(n) ELSE n
  <2>1. u1' = [u1 EXCEPT ![i] = s] /\ UNCHANGED <<u2, u3>>
    BY <1>1 DEF D!Create, D!Becomes
  <2> HIDE DEF n, s
  <2>2. ItemIInv(s, u2, u3, u3)
    BY <1>0, CreateKeeps DEF n, s
  <2> QED BY <2>1, <2>2, ItemChanges
<1>2. ASSUME NEW i \in Rotting, NEW k \in Kinds, D!Transform(i, k) PROVE DecayIInv'
  <2> DEFINE it == D!SetID(u1[i], k)
  <2>1. UNCHANGED <<u2, u3>> /\ (u1' = [u1 EXCEPT ![i] = D!Start(it)] \/ u1' = [u1 EXCEPT ![i] = it])
    BY <1>2 DEF D!Transform, D!Becomes
  <2>2. ItemIInv(it, u2, u3, u3) /\ (~it.again /\ D!CanDecay(it) => D!Entries(it) = 0)
    BY <1>0, SetIDKeeps
  <2> HIDE DEF it
  <2>3. ItemIInv(D!Start(it), u2, u3, u3)
    BY <1>0, <2>2, StartKeeps
  <2> QED BY <2>1, <2>2, <2>3, ItemChanges
<1>3. ASSUME NEW i \in Rotting, D!TakeAway(i) PROVE DecayIInv'
  <2>1. UNCHANGED <<u2, u3>> /\ u1' = [u1 EXCEPT ![i] = D!Remove(u1[i])]
    BY <1>3 DEF D!TakeAway, D!Becomes
  <2>2. ItemIInv(D!Remove(u1[i]), u2, u3, u3)
    BY <1>0, TakenKeeps
  <2> QED BY <2>1, <2>2, ItemChanges
<1>4. ASSUME D!Cleanup PROVE DecayIInv'
  <2>1. u1' = [i \in Rotting |-> D!Settle(u1[i], u2)] /\ u2' = u2 /\ u3' = u3
    BY <1>4 DEF D!Cleanup
  <2>2. \A i \in Rotting : ItemIInv(D!Settle(u1[i], u2), u2, u3, u3)
    BY <1>0, SettleKeeps
  <2>3. \A i \in Rotting : ItemIInv(u1'[i], u2', u3', u3')
    BY <2>1, <2>2
  <2> QED BY <1>0, <2>1, <2>3, AfterItems
<1>5. ASSUME D!CheckDecay PROVE DecayIInv'
  <2> DEFINE b == (u2 + 1) % D!Buckets
  <2>1. u3 = 2 /\ u3' = 0 /\ u2' = b
        /\ u1' = [i \in Rotting |-> D!Settle(D!SweepItem(u1[i], b), b)]
    BY <1>5, DecayNumbers DEF D!CheckDecay
  <2>2. b \in 0 .. 3
    BY <1>0, DecayTurns
  <2> HIDE DEF b
  <2>3. ASSUME NEW i \in Rotting
        PROVE  ItemIInv(D!Settle(D!SweepItem(u1[i], b), b), b, 0, 0)
    <3>1. ItemIInv(D!SweepItem(u1[i], b), b, 0, 2)
      BY <1>0, <2>1, SweepItemKeeps DEF b
    <3> QED BY <2>2, <3>1, SettleKeeps
  <2>4. \A i \in Rotting : ItemIInv(u1'[i], u2', u3', u3')
    BY <2>1, <2>3
  <2> QED BY <2>1, <2>2, <2>4, AfterItems
<1>6. ASSUME D!Tick PROVE DecayIInv'
  <2>1. u3 \in 0 .. 1 /\ u3' = u3 + 1 /\ u2' = u2
        /\ u1' = [i \in Rotting |-> IF D!Running(u1[i]) /\ ~u1[i].again THEN [u1[i] EXCEPT !.left = @ - 1] ELSE u1[i]]
    BY <1>0, <1>6, DecayNumbers DEF D!Tick
  <2>2. \A i \in Rotting :
          ItemIInv(IF D!Running(u1[i]) /\ ~u1[i].again THEN [u1[i] EXCEPT !.left = @ - 1] ELSE u1[i], u2, u3 + 1, u3 + 1)
    BY <1>0, <2>1, TickKeeps
  <2>3. \A i \in Rotting : ItemIInv(u1'[i], u2', u3', u3')
    BY <2>1, <2>2
  <2> QED BY <1>0, <2>1, <2>3, AfterItems
<1>7. ASSUME UNCHANGED D!vars PROVE DecayIInv'
  BY <1>7 DEF D!vars, DecayIInv, ItemIInv, Listed, InTurn, Turns, ItemType
<1> QED BY <1>1, <1>2, <1>3, <1>4, <1>5, <1>6, <1>7 DEF D!Next

-----------------------------------------------------------------------------
(* Monsters and their targets (Targets).                                   *)

\* Whom monster m has on its list: the opponents in sight, unless sides were changed
\* without notice; and nobody on the map who is out of sight.
ListRight(m) ==
  \A c \in T!Creatures \ {m} :
    /\ <<m, c>> \notin u10 => (c \in u7[m] <=> c \in T!Enemies(m, u2) /\ T!Sees(m, c, u1))
    /\ c \in u7[m] /\ c \in u2 => T!Sees(m, c, u1)

TargetsIInv ==
  /\ T!TypeOK
  /\ \A c \in u2 : u1[c] \in Places
  /\ \A m \in Beasts : u7[m] \subseteq u2 \cup u3
  /\ \A m \in Beasts \ u2 : u9[m] # "in"
  /\ T!IdleHasNoTargets
  /\ T!AwakeThinks
  /\ \A m \in Beasts \cap u2 : ListRight(m)

LEMMA TargetsIInvImpliesInv == ASSUME TargetsIInv PROVE T!TargetsInv
BY DEF TargetsIInv, ListRight, T!TargetsInv, T!ListIsWhoIsSeen

LEMMA TargetsInitIInv == ASSUME T!Init PROVE TargetsIInv
BY DEF T!Init, TargetsIInv, T!TypeOK, T!Creatures, T!IdleHasNoTargets, T!AwakeThinks

LEMMA SeenAreTold ==
  ASSUME T!TargetsAssumption, NEW a \in Places, NEW b \in Places
  PROVE  /\ T!Within(SightRange, a, b) => T!Within(ViewRange, a, b) /\ T!Within(ViewRange, b, a)
         /\ T!Within(SightRange, a, b) => T!Within(SightRange, b, a)
         /\ T!Within(ViewRange, a, a)
BY DEF T!TargetsAssumption, T!Within

\* updateIdleStatus of those who are told.
LEMMA Reacted ==
  ASSUME TargetsIInv, NEW ms, NEW new, NEW placed, NEW gone, T!React(ms, new, placed, gone),
         NEW m \in Beasts
  PROVE  /\ u7'[m] = IF m \in gone THEN {} ELSE IF m \in ms THEN new[m] ELSE u7[m]
         /\ m \in u8' /\ m \notin u4 \cup gone => u7'[m] = {} \/ (m \notin ms /\ m \in u8)
         /\ m \notin u4 \cup gone \cup u8' =>
              u9'[m] = "in" \/ (m \notin ms /\ m \notin u8 /\ u9'[m] = u9[m])
         /\ m \notin ms \cup placed \cup gone => u9'[m] = u9[m]
         /\ m \in gone \ (placed \cup ms) => u9'[m] # "in"
         /\ u9'[m] \in {"in", "leaving", "out"}
BY DEF TargetsIInv, T!TypeOK, T!React, T!Unchecked

LEMMA ReactedType ==
  ASSUME TargetsIInv, NEW ms, NEW new, NEW placed, NEW gone, T!React(ms, new, placed, gone),
         gone \subseteq Beasts, ms \subseteq Beasts
  PROVE  /\ DOMAIN u7' = Beasts /\ u9' \in [Beasts -> {"in", "leaving", "out"}] /\ u8' \subseteq Beasts
         /\ u7' = [m \in Beasts |-> IF m \in gone THEN {} ELSE IF m \in ms THEN new[m] ELSE u7[m]]
BY DEF TargetsIInv, T!TypeOK, T!React, T!Unchecked

\* Idleness and checks after a reaction, whoever was placed or removed.
LEMMA AfterReaction ==
  ASSUME TargetsIInv, NEW ms, NEW new, NEW placed, NEW gone, T!React(ms, new, placed, gone),
         ms \subseteq Beasts \cap u2', placed \subseteq ms, gone \subseteq Beasts \cap u3', u4' = u4,
         u2' \cap u3' = {}, Beasts \cap u2' \subseteq u2 \cup placed,
         Beasts \cap u2 \subseteq u2' \cup gone, Beasts \cap u3' \subseteq u3 \cup gone
  PROVE  /\ T!IdleHasNoTargets' /\ T!AwakeThinks' /\ \A m \in Beasts \ u2' : u9'[m] # "in"
<1>1. ASSUME NEW m \in (u8' \cap u2') \ u4' PROVE u7'[m] = {}
  <2>1. m \in Beasts /\ m \notin gone
    BY <1>1, ReactedType DEF TargetsIInv, T!TypeOK
  <2>2. u7'[m] = {} \/ (m \notin ms /\ m \in u8 /\ m \in u2 /\ u7'[m] = u7[m])
    BY <1>1, <2>1, Reacted
  <2> QED BY <1>1, <2>2 DEF TargetsIInv, T!IdleHasNoTargets
<1>2. ASSUME NEW m \in (Beasts \cap u2') \ (u4' \cup u8') PROVE u9'[m] = "in"
  <2>1. u9'[m] = "in" \/ (m \notin ms /\ m \notin u8 /\ m \in u2 /\ u9'[m] = u9[m])
    BY <1>2, Reacted
  <2> QED BY <1>2, <2>1 DEF TargetsIInv, T!AwakeThinks
<1>3. ASSUME NEW m \in Beasts \ u2' PROVE u9'[m] # "in"
  <2>1. CASE m \in gone
    BY <1>3, <2>1, Reacted
  <2>2. CASE m \notin gone
    <3>1. u9'[m] = u9[m] /\ m \notin u2
      BY <1>3, <2>2, Reacted
    <3> QED BY <1>3, <3>1 DEF TargetsIInv
  <2> QED BY <2>1, <2>2
<1>4. \A m \in Beasts \cap u3' : u9'[m] # "in"
  BY <1>3
<1> QED BY <1>1, <1>2, <1>3, <1>4 DEF T!IdleHasNoTargets, T!AwakeThinks

LEMMA Updated ==
  ASSUME NEW m, NEW l, NEW pl0, NEW on, NEW c
  PROVE  c \in T!UpdateTargetList(m, l, pl0, on)
           <=> T!Sees(m, c, pl0) /\ ((c \in l /\ c \notin u4) \/ c \in T!Enemies(m, on))
BY DEF T!UpdateTargetList, T!Enemies

LEMMA PlaceKeeps ==
  ASSUME T!TargetsAssumption, TargetsIInv, NEW c \in T!Creatures, NEW p \in Places, T!Place(c, p)
  PROVE  TargetsIInv'
<1> DEFINE on == u2 \cup {c}
           ms == T!Spectators(p, u1', on)
           new == [m \in ms |-> IF m = c THEN T!UpdateTargetList(m, {}, u1', on)
                                        ELSE T!Found(m, c, u7[m], u1')]
           placed == Beasts \cap {c}
<1>1. /\ c \notin u2 \cup u3 /\ u1' = [u1 EXCEPT ![c] = p] /\ u2' = on /\ u3' = u3 /\ u4' = u4
      /\ u5' = u5 /\ u6' = u6 /\ u10' = u10 /\ T!React(ms, new, placed, {})
  BY DEF T!Place, T!sides
<1>2. /\ u1 \in [T!Creatures -> Places \cup {None}] /\ u2 \subseteq T!Creatures
      /\ u3 \subseteq T!Creatures \ u2 /\ u4 \subseteq u2 \cup u3
      /\ \A m \in Beasts : u7[m] \subseteq u2 \cup u3
      /\ \A d \in u2 : u1[d] \in Places
  BY DEF TargetsIInv, T!TypeOK
<1>3. u1'[c] = p /\ \A d \in u2 : u1'[d] = u1[d] /\ u1'[d] \in Places
  BY <1>1, <1>2
<1>4. ms \subseteq Beasts \cap on /\ placed \subseteq ms
  BY <1>1, <1>3, SeenAreTold DEF T!Spectators
<1>5. \A m \in ms : new[m] = IF m = c THEN T!UpdateTargetList(m, {}, u1', on) ELSE T!Found(m, c, u7[m], u1')
  OBVIOUS
<1> HIDE DEF ms, new
<1>6. T!IdleHasNoTargets' /\ T!AwakeThinks' /\ \A m \in Beasts \ u2' : u9'[m] # "in"
  BY <1>1, <1>2, <1>4, AfterReaction
<1>7. \A m \in Beasts : u7'[m] = IF m \in ms THEN new[m] ELSE u7[m]
  BY <1>1, Reacted
<1>8. ASSUME NEW m \in Beasts PROVE u7'[m] \subseteq u2' \cup u3'
  <2>1. m \in ms => new[m] \subseteq on \cup u3
    <3>1. T!UpdateTargetList(m, {}, u1', on) \subseteq on
      BY Updated DEF T!UpdateTargetList, T!Enemies
    <3>2. T!Found(m, c, u7[m], u1') \subseteq on \cup u3
      BY <1>2 DEF T!Found
    <3> QED BY <1>5, <3>1, <3>2
  <2> QED BY <1>1, <1>2, <1>7, <2>1
<1>9. T!TypeOK'
  <2>1. u7' \in [Beasts -> SUBSET T!Creatures]
    <3>1. DOMAIN u7' = Beasts /\ u7' = [m \in Beasts |-> IF m \in {} THEN {} ELSE IF m \in ms THEN new[m] ELSE u7[m]]
      BY <1>1, <1>4, ReactedType
    <3>2. \A m \in Beasts : u7'[m] \in SUBSET T!Creatures
      BY <1>1, <1>2, <1>8
    <3> QED BY <3>1, <3>2
  <2>2. u9' \in [Beasts -> {"in", "leaving", "out"}] /\ u8' \subseteq Beasts
    BY <1>1, <1>4, ReactedType
  <2> QED BY <1>1, <1>2, <2>1, <2>2 DEF TargetsIInv, T!TypeOK
<1>10. ASSUME NEW m \in Beasts \cap u2' PROVE ListRight(m)'
  <2>1. CASE m = c
    <3>1. u7'[m] = T!UpdateTargetList(m, {}, u1', on)
      BY <1>4, <1>5, <1>7, <2>1
    <3>2. \A d : d \in u7'[m] <=> T!Sees(m, d, u1') /\ d \in T!Enemies(m, on)
      BY <3>1, Updated
    <3>3. T!Enemies(m, on) = T!Enemies(m, u2)'
      BY <1>1 DEF T!Enemies, T!Opponent
    <3> QED BY <1>1, <3>2, <3>3 DEF ListRight
  <2>2. CASE m # c
    <3>1. m \in u2 /\ ListRight(m)
      BY <1>1, <2>2 DEF TargetsIInv
    <3>2. ASSUME NEW d \in T!Creatures \ {m}, d # c
          PROVE  /\ d \in u7'[m] <=> d \in u7[m]
                 /\ d \in T!Enemies(m, u2)' <=> d \in T!Enemies(m, u2)
                 /\ d \in T!Enemies(m, u2) => d \in u2
                 /\ d \in u2 => (T!Sees(m, d, u1)' <=> T!Sees(m, d, u1))
      <4>1. d \in u7'[m] <=> d \in u7[m]
        BY <1>5, <1>7, <2>2, <3>2 DEF T!Found
      <4>2. d \in T!Enemies(m, u2)' <=> d \in T!Enemies(m, u2)
        BY <1>1, <3>2 DEF T!Enemies, T!Opponent
      <4>3. d \in T!Enemies(m, u2) => d \in u2
        BY DEF T!Enemies
      <4>4. d \in u2 => (T!Sees(m, d, u1)' <=> T!Sees(m, d, u1))
        BY <1>3, <3>1 DEF T!Sees
      <4> QED BY <4>1, <4>2, <4>3, <4>4
    <3>3. c \in u7'[m] <=> c \in T!Enemies(m, u2)' /\ T!Sees(m, c, u1)'
      <4>1. c \notin u7[m]
        BY <1>1, <1>2
      <4>2. c \in T!Enemies(m, u2)' <=> T!Opponent(m, c, u5, u6)
        BY <1>1, <2>2 DEF T!Enemies, T!Opponent
      <4>3. T!Sees(m, c, u1)' => m \in ms
        BY <1>1, <1>3, <3>1, SeenAreTold DEF T!Sees, T!Spectators, ms
      <4> QED BY <1>5, <1>7, <2>2, <4>1, <4>2, <4>3 DEF T!Found, T!Sees
    <3> QED BY <1>1, <3>1, <3>2, <3>3 DEF ListRight
  <2> QED BY <2>1, <2>2
<1> QED BY <1>1, <1>3, <1>6, <1>8, <1>9, <1>10 DEF TargetsIInv

\* A move: of who is in sight afterwards and was not, of who is not any more, and of all
\* for the creature that moves.
LEMMA MoveKeeps ==
  ASSUME T!TargetsAssumption, TargetsIInv, NEW c \in T!Creatures, NEW p \in Places, T!Move(c, p)
  PROVE  TargetsIInv'
<1> DEFINE ms == T!Spectators(u1[c], u1, u2) \cup T!Spectators(p, u1', u2)
           new == [m \in Beasts \cap u2 |->
                     CASE m = c -> T!UpdateTargetList(m, u7[m], u1', u2)
                       [] m # c /\ T!Sees(m, c, u1') /\ ~T!Sees(m, c, u1) ->
                            T!Found(m, c, u7[m], u1')
                       [] m # c /\ ~T!Sees(m, c, u1') /\ T!Sees(m, c, u1) ->
                            T!Leave(m, c, u1', u2)
                       [] OTHER -> u7[m]]
<1>1. /\ c \in u2 /\ u1' = [u1 EXCEPT ![c] = p] /\ u2' = u2 /\ u3' = u3 /\ u4' = u4
      /\ u5' = u5 /\ u6' = u6 /\ u10' = u10 /\ T!React(ms, new, {}, {})
  BY DEF T!Move, T!sides, T!InGame
<1>2. /\ u1 \in [T!Creatures -> Places \cup {None}] /\ u2 \subseteq T!Creatures
      /\ u3 \subseteq T!Creatures \ u2 /\ u4 \subseteq u2 \cup u3
      /\ \A m \in Beasts : u7[m] \subseteq u2 \cup u3
      /\ \A d \in u2 : u1[d] \in Places
  BY DEF TargetsIInv, T!TypeOK
<1>3. u1'[c] = p /\ \A d \in u2 : (d # c => u1'[d] = u1[d]) /\ u1'[d] \in Places
  BY <1>1, <1>2
<1>4. ms \subseteq Beasts \cap u2
  BY DEF T!Spectators
<1>5. ASSUME NEW m \in Beasts \cap u2
      PROVE  /\ m = c => new[m] = T!UpdateTargetList(m, u7[m], u1', u2)
             /\ m # c /\ T!Sees(m, c, u1') /\ ~T!Sees(m, c, u1) => new[m] = T!Found(m, c, u7[m], u1')
             /\ m # c /\ ~T!Sees(m, c, u1') /\ T!Sees(m, c, u1) => new[m] = T!Leave(m, c, u1', u2)
             /\ m # c /\ (T!Sees(m, c, u1') <=> T!Sees(m, c, u1)) => new[m] = u7[m]
  OBVIOUS
<1>6. \A m \in Beasts \cap u2 : (m # c /\ m \notin ms => ~T!Sees(m, c, u1') /\ ~T!Sees(m, c, u1)) /\ (m = c => m \in ms)
  BY <1>1, <1>2, <1>3, SeenAreTold DEF T!Sees, T!Spectators
<1> HIDE DEF ms, new
<1>7. T!IdleHasNoTargets' /\ T!AwakeThinks' /\ \A m \in Beasts \ u2' : u9'[m] # "in"
  BY <1>1, <1>2, <1>4, AfterReaction
<1>8. \A m \in Beasts : u7'[m] = IF m \in ms THEN new[m] ELSE u7[m]
  BY <1>1, Reacted
<1>9. ASSUME NEW m \in Beasts PROVE u7'[m] \subseteq u2' \cup u3'
  <2>1. ASSUME m \in ms PROVE new[m] \subseteq u2 \cup u3
    <3>1. T!UpdateTargetList(m, u7[m], u1', u2) \subseteq u2 \cup u3
      BY <1>2 DEF T!UpdateTargetList, T!Enemies
    <3>2. T!Found(m, c, u7[m], u1') \subseteq u2 \cup u3
      BY <1>1, <1>2 DEF T!Found
    <3>3. T!Leave(m, c, u1', u2) \subseteq u2 \cup u3
      BY <1>2 DEF T!UpdateTargetList, T!Enemies, T!Leave
    <3> QED BY <1>2, <1>4, <1>5, <2>1, <3>1, <3>2, <3>3
  <2> QED BY <1>1, <1>2, <1>8, <2>1
<1>10. T!TypeOK'
  <2>1. u7' \in [Beasts -> SUBSET T!Creatures]
    <3>1. DOMAIN u7' = Beasts /\ u7' = [m \in Beasts |-> IF m \in {} THEN {} ELSE IF m \in ms THEN new[m] ELSE u7[m]]
      BY <1>1, <1>4, ReactedType
    <3>2. \A m \in Beasts : u7'[m] \in SUBSET T!Creatures
      BY <1>1, <1>2, <1>9
    <3> QED BY <3>1, <3>2
  <2>2. u9' \in [Beasts -> {"in", "leaving", "out"}] /\ u8' \subseteq Beasts
    BY <1>1, <1>4, ReactedType
  <2> QED BY <1>1, <1>2, <2>1, <2>2 DEF TargetsIInv, T!TypeOK
<1>11. ASSUME NEW m \in Beasts \cap u2' PROVE ListRight(m)'
  <2>0. m \in u2 /\ ListRight(m) /\ T!Enemies(m, u2)' = T!Enemies(m, u2)
    BY <1>1 DEF TargetsIInv, T!Enemies, T!Opponent
  <2>1. ASSUME NEW d \in T!Creatures \ {m}, <<m, d>> \notin u10, d \in u7[m]
        PROVE  d \in T!Enemies(m, u2) /\ T!Sees(m, d, u1)
    BY <2>0, <2>1 DEF ListRight
  <2>2. CASE m = c
    <3>1. u7'[m] = T!UpdateTargetList(m, u7[m], u1', u2)
      BY <1>5, <1>6, <1>8, <2>0, <2>2
    <3>2. \A d : d \in u7'[m] <=> T!Sees(m, d, u1') /\ ((d \in u7[m] /\ d \notin u4) \/ d \in T!Enemies(m, u2))
      BY <3>1, Updated
    <3> QED BY <1>1, <2>0, <2>1, <3>2 DEF ListRight
  <2>3. CASE m # c
    <3>1. ASSUME NEW d \in T!Creatures \ {m}, d # c
          PROVE  /\ <<m, d>> \notin u10 => (d \in u7'[m] <=> d \in T!Enemies(m, u2) /\ T!Sees(m, d, u1'))
                 /\ d \in u7'[m] /\ d \in u2 => T!Sees(m, d, u1')
      <4>1. d \in u2 => (T!Sees(m, d, u1') <=> T!Sees(m, d, u1))
        BY <1>3, <2>0, <2>3, <3>1 DEF T!Sees
      <4>2. d \in T!Enemies(m, u2) => d \in u2
        BY DEF T!Enemies
      <4>3. CASE u7'[m] = T!Leave(m, c, u1', u2)
        <5>1. d \in u7'[m] <=> T!Sees(m, d, u1') /\ ((d \in u7[m] /\ d \notin u4) \/ d \in T!Enemies(m, u2))
          BY <3>1, <4>3, Updated DEF T!Leave
        <5> QED BY <2>0, <2>1, <4>1, <4>2, <5>1
      <4>4. CASE d \in u7'[m] <=> d \in u7[m]
        BY <2>0, <4>1, <4>2, <4>4 DEF ListRight
      <4>5. (d \in T!Found(m, c, u7[m], u1')) <=> d \in u7[m]
        BY <3>1 DEF T!Found
      <4> QED BY <1>5, <1>8, <2>0, <2>3, <4>3, <4>4, <4>5
    <3>2. /\ <<m, c>> \notin u10 => (c \in u7'[m] <=> c \in T!Enemies(m, u2) /\ T!Sees(m, c, u1'))
          /\ c \in u7'[m] /\ c \in u2 => T!Sees(m, c, u1')
      <4>0. c \in T!Creatures \ {m}
        BY <2>3
      <4>1. c \in T!Enemies(m, u2) <=> T!Opponent(m, c, u5, u6)
        BY <1>1, <2>3 DEF T!Enemies
      <4>2. CASE m \notin ms
        BY <1>1, <1>6, <1>8, <2>0, <2>3, <4>0, <4>2 DEF ListRight
      <4>3. CASE m \in ms /\ T!Sees(m, c, u1') /\ ~T!Sees(m, c, u1)
        <5>1. u7'[m] = T!Found(m, c, u7[m], u1')
          BY <1>5, <1>8, <2>0, <2>3, <4>3
        <5>2. c \notin u7[m]
          BY <1>1, <2>0, <4>0, <4>3 DEF ListRight
        <5> QED BY <4>1, <4>3, <5>1, <5>2 DEF T!Found
      <4>4. CASE m \in ms /\ ~T!Sees(m, c, u1') /\ T!Sees(m, c, u1)
        <5>1. u7'[m] = T!Leave(m, c, u1', u2)
          BY <1>5, <1>8, <2>0, <2>3, <4>4
        <5>2. c \notin u7'[m]
          BY <4>4, <5>1, Updated DEF T!Leave
        <5> QED BY <4>4, <5>2
      <4>5. CASE m \in ms /\ (T!Sees(m, c, u1') <=> T!Sees(m, c, u1))
        <5>1. u7'[m] = u7[m]
          BY <1>5, <1>8, <2>0, <2>3, <4>5
        <5> QED BY <2>0, <4>0, <4>5, <5>1 DEF ListRight
      <4> QED BY <4>2, <4>3, <4>4, <4>5
    <3> QED BY <1>1, <2>0, <3>1, <3>2 DEF ListRight
  <2> QED BY <2>2, <2>3
<1> QED BY <1>1, <1>3, <1>7, <1>9, <1>10, <1>11 DEF TargetsIInv

\* A removal: all who see the creature are told, and as it was on no list unless it was an
\* opponent, it is on none afterwards.
LEMMA RemovalKeeps ==
  ASSUME T!TargetsAssumption, TargetsIInv, NEW c \in u2, T!RemoveCreature(c),
         u5' \in [Beasts -> Foes \cup {None}], \A m \in Beasts \ {c} : u5'[m] = u5[m],
         u1' = u1, u4' = u4, u6' = u6, u10' = u10
  PROVE  TargetsIInv'
<1> DEFINE on == u2 \ {c}
           ms == T!Spectators(u1[c], u1, on)
           new == [m \in Beasts \cap on |-> T!Leave(m, c, u1, on)]
           gone == Beasts \cap {c}
<1>1. u2' = on /\ u3' = u3 \cup {c} /\ T!React(ms, new, {}, gone)
  BY DEF T!RemoveCreature
<1>2. /\ u1 \in [T!Creatures -> Places \cup {None}] /\ u2 \subseteq T!Creatures
      /\ u3 \subseteq T!Creatures \ u2 /\ u4 \subseteq u2 \cup u3
      /\ \A m \in Beasts : u7[m] \subseteq u2 \cup u3
      /\ \A d \in u2 : u1[d] \in Places
  BY DEF TargetsIInv, T!TypeOK
<1>3. ms \subseteq Beasts \cap on
  BY DEF T!Spectators
<1>4. \A m \in Beasts \cap on : new[m] = T!Leave(m, c, u1, on) /\ (m \notin ms => ~T!Sees(m, c, u1))
  BY <1>2, SeenAreTold DEF T!Sees, T!Spectators
<1> HIDE DEF ms, new
<1>5. T!IdleHasNoTargets' /\ T!AwakeThinks' /\ \A m \in Beasts \ u2' : u9'[m] # "in"
  BY <1>1, <1>2, <1>3, AfterReaction
<1>6. \A m \in Beasts : u7'[m] = IF m \in gone THEN {} ELSE IF m \in ms THEN new[m] ELSE u7[m]
  BY <1>1, Reacted
<1>7. ASSUME NEW m \in Beasts PROVE u7'[m] \subseteq u2' \cup u3'
  <2>1. ASSUME m \in ms PROVE new[m] \subseteq u2 \cup u3
    BY <1>2, <1>3, <1>4, <2>1 DEF T!UpdateTargetList, T!Enemies, T!Leave
  <2> QED BY <1>1, <1>2, <1>6, <2>1
<1>8. T!TypeOK'
  <2>1. u7' \in [Beasts -> SUBSET T!Creatures]
    <3>1. DOMAIN u7' = Beasts /\ u7' = [m \in Beasts |-> IF m \in gone THEN {} ELSE IF m \in ms THEN new[m] ELSE u7[m]]
      BY <1>1, <1>3, ReactedType
    <3>2. \A m \in Beasts : u7'[m] \in SUBSET T!Creatures
      BY <1>1, <1>2, <1>7
    <3> QED BY <3>1, <3>2
  <2>2. u9' \in [Beasts -> {"in", "leaving", "out"}] /\ u8' \subseteq Beasts
    BY <1>1, <1>3, ReactedType
  <2> QED BY <1>1, <1>2, <2>1, <2>2 DEF TargetsIInv, T!TypeOK
<1>9. ASSUME NEW m \in Beasts \cap u2' PROVE ListRight(m)'
  <2>1. m \in Beasts \cap on /\ m # c /\ ListRight(m)
    BY <1>1 DEF TargetsIInv
  <2>2. ASSUME NEW d \in T!Creatures \ {m}
        PROVE  d \in T!Enemies(m, u2)' <=> d # c /\ d \in T!Enemies(m, u2)
    BY <1>1, <2>1 DEF T!Enemies, T!Opponent
  <2>3. c \in T!Creatures \ {m} /\ (c \in T!Enemies(m, u2) <=> T!Opponent(m, c, u5, u6))
    BY <1>2, <2>1 DEF T!Enemies
  <2>4. ASSUME m \in ms, NEW d
        PROVE  d \in u7'[m] <=> /\ T!Sees(m, d, u1)
                                /\ \/ d \in u7[m] /\ d \notin u4 /\ (d = c => ~T!Opponent(m, c, u5, u6))
                                   \/ d # c /\ d \in T!Enemies(m, u2)
    <3> DEFINE l == IF T!Opponent(m, c, u5, u6) THEN u7[m] \ {c} ELSE u7[m]
    <3>1. u7'[m] = T!UpdateTargetList(m, l, u1, on)
      BY <1>4, <1>6, <2>1, <2>4 DEF T!Leave
    <3>2. d \in T!Enemies(m, on) <=> d # c /\ d \in T!Enemies(m, u2)
      BY DEF T!Enemies
    <3> HIDE DEF l
    <3>3. d \in u7'[m] <=> T!Sees(m, d, u1) /\ ((d \in l /\ d \notin u4) \/ d \in T!Enemies(m, on))
      BY <3>1, Updated
    <3> QED BY <3>2, <3>3 DEF l
  <2>5. ASSUME NEW d \in T!Creatures \ {m}
        PROVE  /\ <<m, d>> \notin u10 => (d \in u7'[m] <=> d # c /\ d \in T!Enemies(m, u2) /\ T!Sees(m, d, u1))
               /\ d \in u7'[m] /\ d \in on => T!Sees(m, d, u1)
    <3>1. /\ <<m, d>> \notin u10 => (d \in u7[m] <=> d \in T!Enemies(m, u2) /\ T!Sees(m, d, u1))
          /\ d \in u7[m] /\ d \in u2 => T!Sees(m, d, u1)
      BY <2>1 DEF ListRight
    <3>2. CASE m \in ms
      BY <2>3, <2>4, <3>1, <3>2
    <3>3. CASE m \notin ms
      <4>1. u7'[m] = u7[m] /\ ~T!Sees(m, c, u1)
        BY <1>4, <1>6, <2>1, <3>3
      <4> QED BY <3>1, <4>1
    <3> QED BY <3>2, <3>3
  <2> QED BY <1>1, <2>1, <2>2, <2>5 DEF ListRight, T!Sees
<1> QED BY <1>1, <1>2, <1>5, <1>7, <1>8, <1>9 DEF TargetsIInv

\* Somebody appears again: he is on the lists of those who see him, and on no other.
LEMMA ReappearKeeps ==
  ASSUME T!TargetsAssumption, TargetsIInv, NEW p \in Foes, T!Reappear(p)
  PROVE  TargetsIInv'
<1> DEFINE ms == T!Spectators(u1[p], u1, u2)
           found == {m \in ms : T!Sees(m, p, u1) /\ T!Opponent(m, p, u5, u6')}
<1>1. /\ p \in u2 /\ p \in u6 /\ u6' = u6 \ {p} /\ u1' = u1 /\ u2' = u2 /\ u3' = u3 /\ u4' = u4 /\ u5' = u5
      /\ u7' = [m \in Beasts |-> IF m \in found THEN u7[m] \cup {p} ELSE u7[m]]
      /\ u8' = u8 \ (found \ u4)
      /\ u9' = [m \in Beasts |-> IF m \in found \ u4 THEN "in" ELSE u9[m]]
      /\ u10' = {o \in u10 : o[2] # p \/ u5[o[1]] # None}
  BY DEF T!Reappear, T!InGame
<1>2. found \subseteq Beasts \cap u2 /\ \A m \in Beasts \cap u2 :
        m \in found <=> T!Sees(m, p, u1) /\ T!Opponent(m, p, u5, u6')
  BY <1>1, SeenAreTold DEF TargetsIInv, T!Spectators, T!Sees
<1> HIDE DEF found
<1>3. T!TypeOK'
  BY <1>1, <1>2 DEF TargetsIInv, T!TypeOK, T!Creatures
<1>4. /\ \A m \in Beasts : u7'[m] \subseteq u2' \cup u3'
      /\ \A m \in Beasts \ u2' : u9'[m] # "in"
      /\ \A c \in u2' : u1'[c] \in Places
  BY <1>1, <1>2 DEF TargetsIInv
<1>5. T!IdleHasNoTargets'
  BY <1>1, <1>2 DEF TargetsIInv, T!IdleHasNoTargets, T!TypeOK
<1>6. T!AwakeThinks'
  BY <1>1, <1>2 DEF TargetsIInv, T!AwakeThinks, T!TypeOK
<1>7. ASSUME NEW m \in Beasts \cap u2' PROVE ListRight(m)'
  <2>1. m \in Beasts \cap u2 /\ ListRight(m)
    BY <1>1 DEF TargetsIInv
  <2>2. ASSUME NEW c \in T!Creatures \ {m}, c # p
        PROVE  /\ c \in u7'[m] <=> c \in u7[m]
               /\ <<m, c>> \in u10' <=> <<m, c>> \in u10
               /\ c \in T!Enemies(m, u2)' <=> c \in T!Enemies(m, u2)
    <3>1. c \in u7'[m] <=> c \in u7[m]
      BY <1>1, <2>2
    <3>2. <<m, c>> \in u10' <=> <<m, c>> \in u10
      BY <1>1, <2>2
    <3>3. c \in T!Enemies(m, u2)' <=> c \in T!Enemies(m, u2)
      BY <1>1, <2>2 DEF T!Enemies, T!Opponent
    <3> QED BY <3>1, <3>2, <3>3
  <2>3. ASSUME m # p
        PROVE  /\ <<m, p>> \notin u10' => (p \in u7'[m] <=> p \in T!Enemies(m, u2)' /\ T!Sees(m, p, u1))
               /\ p \in u7'[m] /\ p \in u2 => T!Sees(m, p, u1)
    <3>1. p \in T!Creatures \ {m}
      BY <2>3 DEF T!Creatures
    <3>2. p \in T!Enemies(m, u2)' <=> T!Opponent(m, p, u5, u6')
      BY <1>1, <2>3 DEF T!Enemies, T!Opponent
    <3>3. p \in u7'[m] <=> p \in u7[m] \/ m \in found
      BY <1>1, <2>1
    <3>4. p \in u7[m] => T!Sees(m, p, u1)
      BY <1>1, <2>1, <3>1 DEF ListRight
    <3>5. ASSUME <<m, p>> \notin u10', p \in u7[m] PROVE T!Opponent(m, p, u5, u6')
      <4>1. <<m, p>> \in u10
        BY <1>1, <2>1, <3>1, <3>5 DEF ListRight, T!Enemies, T!Opponent
      <4>2. u5[m] = None
        BY <1>1, <3>5, <4>1
      <4>3. p \notin Beasts /\ p \notin u6'
        BY <1>1 DEF T!TargetsAssumption
      <4> QED BY <4>2, <4>3 DEF T!Opponent
    <3> QED BY <1>2, <2>1, <3>2, <3>3, <3>4, <3>5
  <2> QED BY <1>1, <2>1, <2>2, <2>3 DEF ListRight, T!Sees
<1> QED BY <1>3, <1>4, <1>5, <1>6, <1>7 DEF TargetsIInv

LEMMA TargetsStepIInv ==
  ASSUME T!TargetsAssumption, TargetsIInv, [T!Next]_(T!vars) PROVE TargetsIInv'
<1>0. T!TypeOK
  BY DEF TargetsIInv
<1>1. ASSUME NEW c \in T!Creatures, T!Remove(c) PROVE TargetsIInv'
  BY <1>0, <1>1, RemovalKeeps DEF T!Remove, T!InGame, T!TypeOK
<1>2. ASSUME NEW c \in T!Creatures, T!Hurt(c) PROVE TargetsIInv'
  BY <1>2 DEF T!Hurt, T!InGame, T!sides, TargetsIInv, T!TypeOK, T!IdleHasNoTargets, T!AwakeThinks,
    ListRight, T!Enemies, T!Opponent, T!Sees
<1>3. ASSUME NEW c \in T!Creatures, T!Die(c) PROVE TargetsIInv'
  BY <1>0, <1>3, RemovalKeeps DEF T!Die, T!InGame, T!TypeOK
<1>4. ASSUME NEW m \in Beasts, T!Think(m) PROVE TargetsIInv'
  <2>1. /\ u9[m] = "in" /\ m \in u2 /\ T!React({m}, u7, {}, {})
        /\ UNCHANGED <<u1, u2, u3, u4, u5, u6, u10>>
    BY <1>4 DEF T!Think, T!sides, TargetsIInv
  <2>2. T!IdleHasNoTargets' /\ T!AwakeThinks' /\ \A n \in Beasts \ u2' : u9'[n] # "in"
    BY <1>0, <2>1, AfterReaction DEF T!TypeOK
  <2>3. /\ u9' \in [Beasts -> {"in", "leaving", "out"}] /\ u8' \subseteq Beasts
        /\ u7' = [n \in Beasts |-> IF n \in {} THEN {} ELSE IF n \in {m} THEN u7[n] ELSE u7[n]]
    BY <2>1, ReactedType
  <2>4. u7' = u7
    BY <1>0, <2>3 DEF T!TypeOK
  <2> QED BY <2>1, <2>2, <2>3, <2>4 DEF TargetsIInv, T!TypeOK, ListRight, T!Enemies, T!Opponent, T!Sees
<1>5. ASSUME NEW m \in Beasts, T!Uncheck(m) PROVE TargetsIInv'
  BY <1>5 DEF T!Uncheck, T!sides, TargetsIInv, T!TypeOK, T!IdleHasNoTargets, T!AwakeThinks,
    ListRight, T!Enemies, T!Opponent, T!Sees
<1>6. ASSUME NEW m \in Beasts, T!ScriptIdle(m) PROVE TargetsIInv'
  BY <1>6 DEF T!ScriptIdle, T!InGame, T!Unchecked, TargetsIInv, T!TypeOK, T!IdleHasNoTargets, T!AwakeThinks,
    ListRight, T!Enemies, T!Opponent, T!Sees
<1>7. ASSUME NEW p \in Foes, T!Vanish(p) PROVE TargetsIInv'
  BY <1>7 DEF T!Vanish, T!InGame, TargetsIInv, T!TypeOK, T!IdleHasNoTargets, T!AwakeThinks,
    ListRight, T!Enemies, T!Opponent, T!Sees, T!Creatures
<1>8. ASSUME NEW m \in Beasts, NEW p \in Foes \cup {None}, T!SetMaster(m, p) PROVE TargetsIInv'
  BY <1>8 DEF T!SetMaster, T!InGame, TargetsIInv, T!TypeOK, T!IdleHasNoTargets, T!AwakeThinks,
    ListRight, T!Enemies, T!Opponent, T!Sees, T!Creatures
<1>9. ASSUME UNCHANGED T!vars PROVE TargetsIInv'
  BY <1>9 DEF T!vars, TargetsIInv, T!TypeOK, T!IdleHasNoTargets, T!AwakeThinks,
    ListRight, T!Enemies, T!Opponent, T!Sees
<1> QED BY <1>1, <1>2, <1>3, <1>4, <1>5, <1>6, <1>7, <1>8, <1>9, PlaceKeeps, MoveKeeps, ReappearKeeps DEF T!Next

-----------------------------------------------------------------------------
(* The world.                                                              *)

WorldIInv ==
  /\ SpawnIInv
  /\ part = "lives" => LivesIInv
  /\ part = "raids" => RaidsIInv
  /\ part = "npc" => N!NpcInv
  /\ part = "house" => HouseIInv
  /\ part = "decay" => DecayIInv
  /\ part = "targets" => TargetsIInv

LEMMA WorldAssumed ==
  T!TargetsAssumption /\ D!DecayAssumption /\ H!HousesAssumption /\ R!RaidsAssumption
BY WorldAssumption

LEMMA StepOfOne ==
  ASSUME [MCNext]_all
  PROVE  /\ part' = part /\ [Next]_vars
         /\ part = "lives" => [L!Next]_(L!vars)
         /\ part = "raids" => [R!Next]_(R!vars)
         /\ part = "npc" => [N!Next]_(N!vars)
         /\ part = "house" => [H!Next]_(H!vars)
         /\ part = "decay" => [D!Next]_(D!vars)
         /\ part = "targets" => [T!Next]_(T!vars)
<1>0. (UNCHANGED spawn_vars) => UNCHANGED vars
  BY DEF spawn_vars, vars
<1>1. CASE spawn_step(Next)
  BY <1>0, <1>1 DEF spawn_step
<1>2. CASE targets_step(T!Next)
  BY <1>0, <1>2 DEF targets_step
<1>3. CASE decay_step(D!Next)
  BY <1>0, <1>3 DEF decay_step
<1>4. CASE house_step(H!Next)
  BY <1>0, <1>4 DEF house_step
<1>5. CASE lives_step(L!Next)
  BY <1>0, <1>5 DEF lives_step
<1>6. CASE raids_step(R!Next)
  BY <1>0, <1>6 DEF raids_step
<1>7. CASE npc_step(N!Next)
  BY <1>0, <1>7 DEF npc_step
<1>8. CASE UNCHANGED all
  <2>1. part' = part /\ UNCHANGED vars /\ UNCHANGED <<u1, u2, u3, u4, u5, u6, u7, u8, u9, u10, u11, u12, u13, u14, u15>>
    BY <1>0, <1>8 DEF all
  <2>2. UNCHANGED L!vars
    BY <2>1 DEF L!vars
  <2>3. UNCHANGED R!vars
    BY <2>1 DEF R!vars
  <2>4. UNCHANGED N!vars
    BY <2>1 DEF N!vars
  <2>5. UNCHANGED H!vars
    BY <2>1 DEF H!vars, H!access, H!wealth, H!beds, H!rent
  <2>6. UNCHANGED D!vars
    BY <2>1 DEF D!vars
  <2>7. UNCHANGED T!vars
    BY <2>1 DEF T!vars
  <2> QED BY <2>1, <2>2, <2>3, <2>4, <2>5, <2>6, <2>7
<1> QED BY <1>1, <1>2, <1>3, <1>4, <1>5, <1>6, <1>7, <1>8 DEF MCNext

LEMMA WorldInitIInv == MCInit => WorldIInv
BY SpawnsAssumed, SpawnsInit, WorldAssumed, LivesInitIInv, RaidsInitIInv, NpcInitInv, HouseInitIInv, DecayInitIInv, TargetsInitIInv
   DEF MCInit, WorldIInv

LEMMA WorldStepIInv == WorldIInv /\ [MCNext]_all => WorldIInv'
<1> SUFFICES ASSUME WorldIInv, [MCNext]_all PROVE WorldIInv'
  OBVIOUS
<1>0. SpawnIInv'
  BY StepOfOne, SpawnsStep, SpawnsAssumed DEF WorldIInv
<1>1. CASE part = "lives"
  BY <1>0, <1>1, StepOfOne, LivesStepIInv DEF WorldIInv
<1>2. CASE part = "raids"
  BY <1>0, <1>2, StepOfOne, WorldAssumed, RaidsStepIInv DEF WorldIInv
<1>3. CASE part = "npc"
  BY <1>0, <1>3, StepOfOne, NpcStepInv DEF WorldIInv
<1>4. CASE part = "house"
  BY <1>0, <1>4, StepOfOne, WorldAssumed, HouseStepIInv DEF WorldIInv
<1>5. CASE part = "decay"
  BY <1>0, <1>5, StepOfOne, WorldAssumed, DecayStepIInv DEF WorldIInv
<1>6. CASE part = "targets"
  BY <1>0, <1>6, StepOfOne, WorldAssumed, TargetsStepIInv DEF WorldIInv
<1> QED BY <1>0, <1>1, <1>2, <1>3, <1>4, <1>5, <1>6, StepOfOne DEF WorldIInv

\* A spawn knows how many of its monsters will be discounted, has no more than its amount but
\* for those that returned, and looks for those it misses (spawn.cpp, startSpawnCheck,
\* checkSpawn; Monster::onRemoveCreature, onThink).
THEOREM SpawnIsLookedAfter == MCSpec => []SpawnInv
<1>1. WorldIInv => SpawnInv
  BY DEF WorldIInv, SpawnIInv
<1> QED BY <1>1, WorldInitIInv, WorldStepIInv, PTL DEF MCSpec

\* A creature object is there as long as something refers to it, is freed once, and one
\* without health that is still placed waits to die (creature.h, game.cpp
\* removeCreature, processRemovedCreatures, checkCreatures).
THEOREM CreaturesDieOnce == MCSpec => []LivesInv
<1>1. WorldIInv => LivesInv
  BY LivesIInvImpliesInv DEF WorldIInv, LivesInv
<1> QED BY <1>1, WorldInitIInv, WorldStepIInv, PTL DEF MCSpec

\* One raid runs at a time, from load to load, and its events happen once and in order; an
\* npc is deaf to at most the customer it attends, and nobody is in its queue twice
\* (raids.cpp, npc.cpp).
THEOREM RaidsRunAlone == MCSpec => []RaidsAndNpcsInv
<1>1. WorldIInv => RaidsAndNpcsInv
  BY DEF WorldIInv, RaidsAndNpcsInv, RaidsIInv
<1> QED BY <1>1, WorldInitIInv, WorldStepIInv, PTL DEF MCSpec

\* Who is in a house may be there, who sleeps there rests in its bed, and what the players
\* own is neither lost nor doubled when houses change hands, rents are paid and furniture
\* is sent home, except where a save overwrites it (house.cpp, iologindata.cpp).
THEOREM HousesKeepOrder == MCSpec => []HouseInv
<1>1. WorldIInv => HouseInv
  BY DEF WorldIInv, HouseInv, HouseIInv
<1> QED BY <1>1, WorldInitIInv, WorldStepIInv, PTL DEF MCSpec

\* Each item that decays is in a list and decays when its time is over, whatever types it
\* has become in the meantime and with any durations (game.cpp checkDecay, cleanup).
THEOREM ItemsDecayInTime == MCSpec => []DecayInv
<1>1. WorldIInv => DecayInv
  BY DecayIInvImpliesInv DEF WorldIInv, DecayInv
<1> QED BY <1>1, WorldInitIInv, WorldStepIInv, PTL DEF MCSpec

\* A monster's list is who is in sight and an opponent, one that is idle has an empty list
\* and one that is not thinks, unless somebody changed sides and nobody was told
\* (monster.cpp, game.cpp addCreatureCheck).
THEOREM TargetsAreWhoIsSeen == MCSpec => []TargetsInv
<1>1. WorldIInv => TargetsInv
  BY TargetsIInvImpliesInv DEF WorldIInv, TargetsInv
<1> QED BY <1>1, WorldInitIInv, WorldStepIInv, PTL DEF MCSpec
=============================================================================
