----------------------------- MODULE TileProofs -----------------------------
(***************************************************************************)
(* What a client shows of a tile is the beginning of what lies there, for  *)
(* any items, creatures and limit; and items have one place, coins and     *)
(* weights add up, for any stacks, bags, slots and sizes.                  *)
(*                                                                         *)
(* The client is told of each change by a position in a list that it keeps *)
(* itself.  TileIInv says what this list is of the server's: the beginning *)
(* of it, in its order, without anything twice; then a position means the  *)
(* same on both sides.  What the server does to one of the four parts of   *)
(* its list (it gets, loses or exchanges one thing) it does to the whole.  *)
(*                                                                         *)
(* ItemsIInv says of the world that it is Sound: what exists lies in the   *)
(* list of the place it names, once, where there is room, and no bag is in *)
(* itself.  An operation is followed through the worlds it makes, with the *)
(* thing in hand that lies nowhere in them.  A weight is told by a bag and *)
(* an offset of its own, which no operation on other things changes; what  *)
(* a bag remembers is the sum of these, but for multiples of Wrap.         *)
(***************************************************************************)
EXTENDS MCCharacter, FiniteSetTheorems, SequenceTheorems, WellFoundedInduction, TLAPS

\* Induction over the natural numbers, with a set in place of a predicate.
LEMMA AllNumbers ==
  ASSUME NEW S0, 0 \in S0, \A n \in Nat : n \in S0 => n + 1 \in S0 PROVE Nat \subseteq S0
<1> DEFINE Less == {ss \in Nat \X Nat : ss[1] < ss[2]}
<1>1. IsWellFoundedOn(Less, Nat)
  BY NatLessThanWellFounded DEF OpToRel
<1> SUFFICES ASSUME Nat \ S0 # {} PROVE FALSE
  OBVIOUS
<1>2. PICK k \in Nat \ S0 : \A j \in Nat \ S0 : ~(<<j, k>> \in Less)
  <2> HIDE DEF Less
  <2> QED BY <1>1, WFMin
<1>3. \A j \in Nat \ S0 : ~(j < k)
  BY <1>2
<1>4. k # 0 /\ k - 1 \in Nat /\ k - 1 < k /\ (k - 1) + 1 = k
  BY <1>2
<1>5. k - 1 \in S0
  BY <1>3, <1>4
<1>6. k \in S0
  BY <1>4, <1>5
<1> QED BY <1>2, <1>6

\* The leaf that is linked from l in direction d, if there is one.
Ahead(l, d) == <<l[1] + d[1], l[2] + d[2]>>
LinksOf(link, d) == \A l \in u2 : link[l] = S!LeafAt(Ahead(l, d))

\* A walk finds at each step the leaf that is there: a function that does satisfies the
\* equation that defines the walk.
Finds(start, link, l, d, n) ==
  \A i \in 0 .. n : S!Walk(start, link, l, d, n)[i] = S!LeafAt(<<l[1] + i * d[1], l[2] + i * d[2]>>)

LEMMA WalkFinds ==
  ASSUME u2 \subseteq Nat \X Nat, None \notin Nat \X Nat, NEW link, NEW l \in Nat \X Nat, NEW d \in Nat \X Nat,
         NEW n \in Int, LinksOf(link, d), NEW start, start = S!LeafAt(l)
  PROVE  Finds(start, link, l, d, n)
<1> DEFINE Place(i) == <<l[1] + i * d[1], l[2] + i * d[2]>>
           Next1(last, i) == IF last # None THEN link[last] ELSE S!LeafAt(Place(i))
           Fits(f) == f = [i \in 0 .. n |-> IF i = 0 THEN start ELSE Next1(f[i - 1], i)]
           w == [i \in 0 .. n |-> S!LeafAt(Place(i))]
<1>1. \A i \in 1 .. n : S!LeafAt(Place(i - 1)) # None => link[S!LeafAt(Place(i - 1))] = S!LeafAt(Place(i))
  <2> SUFFICES ASSUME NEW i \in 1 .. n, Place(i - 1) \in u2 PROVE link[Place(i - 1)] = S!LeafAt(Place(i))
    BY DEF S!LeafAt
  <2>1. link[Place(i - 1)] = S!LeafAt(<<Place(i - 1)[1] + d[1], Place(i - 1)[2] + d[2]>>)
    BY DEF LinksOf, Ahead
  <2>2. i - 1 \in Int /\ d[1] \in Int /\ d[2] \in Int /\ (i - 1) * d[1] + d[1] = i * d[1] /\ (i - 1) * d[2] + d[2] = i * d[2]
    OBVIOUS
  <2>3. Place(i - 1)[1] + d[1] = l[1] + i * d[1] /\ Place(i - 1)[2] + d[2] = l[2] + i * d[2]
    BY <2>2
  <2> QED BY <2>1, <2>3
<1>2. Place(0) = l
  OBVIOUS
<1>3. Fits(w)
  <2> DEFINE G1(i) == IF i = 0 THEN start ELSE Next1(w[i - 1], i)
  <2>1. \A i \in 0 .. n : w[i] = G1(i)
    <3> TAKE i \in 0 .. n
    <3>1. CASE i = 0
      BY <1>2, <3>1
    <3>2. CASE i # 0
      <4>1. i \in 1 .. n /\ i - 1 \in 0 .. n
        BY <3>2
      <4>2. w[i - 1] = S!LeafAt(Place(i - 1)) /\ w[i] = S!LeafAt(Place(i))
        BY <4>1
      <4> HIDE DEF Place, w
      <4> QED BY <1>1, <3>2, <4>1, <4>2
    <3> QED BY <3>1, <3>2
  <2> HIDE DEF G1, Place
  <2>2. w = [i \in 0 .. n |-> G1(i)]
    BY <2>1
  <2> QED BY <2>2 DEF G1
<1>4. \A f : Fits(f) => \A i \in 0 .. n : f[i] = w[i]
  <2> SUFFICES ASSUME NEW f, Fits(f) PROVE \A i \in 0 .. n : f[i] = w[i]
    OBVIOUS
  <2> DEFINE G2(g, i) == IF i = 0 THEN start ELSE Next1(g[i - 1], i)
             Same == {i \in Nat : i \in 0 .. n => f[i] = w[i]}
  <2>1. \A i \in 0 .. n : f[i] = G2(f, i) /\ w[i] = G2(w, i)
    <3>1. f = [i \in 0 .. n |-> G2(f, i)] /\ w = [i \in 0 .. n |-> G2(w, i)]
      BY <1>3
    <3> HIDE DEF G2, w
    <3> QED BY <3>1
  <2> HIDE DEF Fits, w, Place
  <2>2. 0 \in Same
    BY <2>1
  <2>3. \A i \in Nat : i \in Same => i + 1 \in Same
    <3> SUFFICES ASSUME NEW i \in Nat, i \in Same, i + 1 \in 0 .. n PROVE f[i + 1] = w[i + 1]
      OBVIOUS
    <3>1. i \in 0 .. n /\ (i + 1) - 1 = i /\ i + 1 # 0
      OBVIOUS
    <3>2. f[i] = w[i]
      BY <3>1
    <3> HIDE DEF Same, Next1
    <3> QED BY <2>1, <3>1, <3>2 DEF G2
  <2> HIDE DEF Same
  <2>4. Nat \subseteq Same
    BY <2>2, <2>3, AllNumbers
  <2> QED BY <2>4 DEF Same
<1>5. S!Walk(start, link, l, d, n) = CHOOSE f : Fits(f)
  BY DEF S!Walk
<1> HIDE DEF Fits, w
<1>6. Fits(CHOOSE f : Fits(f))
  BY <1>3
<1>7. \A i \in 0 .. n : S!Walk(start, link, l, d, n)[i] = w[i]
  BY <1>4, <1>5, <1>6
<1> QED BY <1>7 DEF w, Finds

-----------------------------------------------------------------------------
(* Lists without repetition: one more, one less.                           *)

\* A sequence without its i-th element, and with one more in front.
Skipped(s, i) == SubSeq(s, 1, i - 1) \o SubSeq(s, i + 1, Len(s))
Past(k, i) == IF k < i THEN k ELSE k + 1
Once(s) == \A i, j \in 1 .. Len(s) : s[i] = s[j] => i = j
Members(s) == {s[i] : i \in 1 .. Len(s)}

LEMMA SkippedIs ==
  ASSUME NEW T, NEW s \in Seq(T), NEW i \in 1 .. Len(s)
  PROVE  /\ Skipped(s, i) \in Seq(T) /\ Len(Skipped(s, i)) = Len(s) - 1
         /\ \A k \in 1 .. (Len(s) - 1) : Past(k, i) \in 1 .. Len(s) /\ Past(k, i) # i /\ Skipped(s, i)[k] = s[Past(k, i)]
<1> DEFINE x == SubSeq(s, 1, i - 1)
           y == SubSeq(s, i + 1, Len(s))
           z == x \o y
<1>0. Len(s) \in Nat /\ i \in Nat
  OBVIOUS
<1>1. x \in Seq(T) /\ Len(x) = i - 1 /\ \A k \in 1 .. (i - 1) : x[k] = s[k]
  BY <1>0
<1>2. y \in Seq(T) /\ Len(y) = Len(s) - i /\ \A k \in 1 .. (Len(s) - i) : y[k] = s[i + k]
  BY <1>0
<1>3. Skipped(s, i) = z
  BY DEF Skipped
<1> HIDE DEF x, y
<1>4. z \in Seq(T) /\ Len(z) = Len(s) - 1
  <2>1. z \in Seq(T) /\ Len(z) = Len(x) + Len(y)
    BY <1>1, <1>2, ConcatProperties
  <2> HIDE DEF z
  <2> QED BY <1>0, <1>1, <1>2, <2>1
<1>5. ASSUME NEW k \in 1 .. (Len(s) - 1) PROVE Past(k, i) \in 1 .. Len(s) /\ Past(k, i) # i /\ z[k] = s[Past(k, i)]
  <2>1. k \in 1 .. Len(x) + Len(y)
    BY <1>0, <1>1, <1>2
  <2>2. z[k] = IF k <= Len(x) THEN x[k] ELSE y[k - Len(x)]
    BY <1>1, <1>2, <2>1, ConcatProperties
  <2> HIDE DEF z
  <2>3. CASE k < i
    BY <1>0, <1>1, <2>2, <2>3 DEF Past
  <2>4. CASE k >= i
    <3> DEFINE m == k - (i - 1)
    <3>1. m \in 1 .. (Len(s) - i) /\ i + m = k + 1 /\ ~(k <= Len(x)) /\ m = k - Len(x)
      <4>1. i \in Int /\ k \in Int /\ Len(s) \in Int /\ Len(x) = i - 1 /\ k >= i /\ k <= Len(s) - 1
        BY <1>0, <1>1, <2>4
      <4> QED BY <4>1
    <3> HIDE DEF m
    <3>2. y[m] = s[i + m]
      BY <1>2, <3>1
    <3>3. z[k] = s[k + 1] /\ ~(k < i) /\ k + 1 \in 1 .. Len(s) /\ k + 1 # i
      <4>1. k \in Nat /\ k <= Len(s) - 1 /\ i \in Nat /\ Len(s) \in Nat
        BY <1>0
      <4>2. z[k] = s[k + 1]
        BY <2>2, <3>1, <3>2
      <4>3. ~(k < i) /\ k + 1 \in 1 .. Len(s) /\ k + 1 # i
        BY <2>4, <4>1
      <4> QED BY <4>2, <4>3
    <3> QED BY <3>3 DEF Past
  <2> QED BY <1>0, <2>3, <2>4
<1> QED BY <1>3, <1>4, <1>5

LEMMA PastReaches ==
  ASSUME NEW n \in Nat, NEW i \in 1 .. n, NEW j \in 1 .. n, j # i
  PROVE  \E k \in 1 .. (n - 1) : Past(k, i) = j
<1>1. CASE j < i
  BY <1>1 DEF Past
<1>2. CASE j > i
  <2>1. j - 1 \in 1 .. (n - 1) /\ Past(j - 1, i) = j
    BY <1>2 DEF Past
  <2> QED BY <2>1
<1> QED BY <1>1, <1>2

LEMMA SkippedKeeps ==
  ASSUME NEW T, NEW s \in Seq(T), Once(s), NEW i \in 1 .. Len(s)
  PROVE  Once(Skipped(s, i)) /\ Members(Skipped(s, i)) = Members(s) \ {s[i]}
<1> DEFINE z == Skipped(s, i)
<1>0. Len(s) \in Nat
  OBVIOUS
<1>1. z \in Seq(T) /\ Len(z) = Len(s) - 1 /\ \A k \in 1 .. Len(z) : Past(k, i) \in 1 .. Len(s) /\ Past(k, i) # i /\ z[k] = s[Past(k, i)]
  BY SkippedIs
<1> HIDE DEF z
<1>2. \A k, m \in 1 .. Len(z) : Past(k, i) = Past(m, i) => k = m
  BY <1>0, <1>1 DEF Past
<1>3. Once(z)
  BY <1>1, <1>2 DEF Once
<1>4. \A j \in 1 .. Len(s) : j # i => \E k \in 1 .. Len(z) : Past(k, i) = j
  <2> TAKE j \in 1 .. Len(s)
  <2> HAVE j # i
  <2> DEFINE n == Len(s)
  <2>1. n \in Nat /\ i \in 1 .. n /\ j \in 1 .. n /\ Len(z) = n - 1
    BY <1>0, <1>1
  <2> HIDE DEF n
  <2> QED BY <2>1, PastReaches
<1>5. Members(z) = Members(s) \ {s[i]}
  <2>1. \A k \in 1 .. Len(z) : z[k] \in Members(s) /\ z[k] # s[i]
    BY <1>1 DEF Members, Once
  <2>2. \A j \in 1 .. Len(s) : s[j] # s[i] => \E k \in 1 .. Len(z) : z[k] = s[j]
    <3> TAKE j \in 1 .. Len(s)
    <3> HAVE s[j] # s[i]
    <3>1. PICK k \in 1 .. Len(z) : Past(k, i) = j
      BY <1>4
    <3> QED BY <1>1, <3>1
  <2> QED BY <2>1, <2>2 DEF Members
<1> QED BY <1>3, <1>5 DEF z

LEMMA FirstIs ==
  ASSUME NEW T, NEW s \in Seq(T), NEW x \in T
  PROVE  LET z == <<x>> \o s
         IN /\ z \in Seq(T) /\ Len(z) = Len(s) + 1 /\ z[1] = x /\ \A k \in 1 .. Len(s) : z[k + 1] = s[k]
            /\ Members(z) = Members(s) \cup {x}
            /\ Once(s) /\ x \notin Members(s) => Once(z)
<1> DEFINE e == <<x>>
           z == e \o s
<1>0. e \in Seq(T) /\ Len(e) = 1 /\ e[1] = x /\ Len(s) \in Nat
  OBVIOUS
<1> HIDE DEF e
<1>1. z \in Seq(T) /\ Len(z) = Len(s) + 1 /\ \A k \in 1 .. (Len(s) + 1) : z[k] = IF k <= 1 THEN e[k] ELSE s[k - 1]
  <2>1. z \in Seq(T) /\ Len(z) = Len(e) + Len(s) /\ \A k \in 1 .. Len(e) + Len(s) : z[k] = IF k <= Len(e) THEN e[k] ELSE s[k - Len(e)]
    BY <1>0, ConcatProperties
  <2>2. Len(e) + Len(s) = Len(s) + 1
    BY <1>0
  <2> HIDE DEF z
  <2> QED BY <1>0, <2>1, <2>2
<1> HIDE DEF z
<1>2. z[1] = x
  <2>1. 1 \in 1 .. (Len(s) + 1)
    BY <1>0
  <2> QED BY <1>0, <1>1, <2>1
<1>3. \A k \in 1 .. Len(s) : z[k + 1] = s[k]
  <2> TAKE k \in 1 .. Len(s)
  <2>1. k + 1 \in 1 .. (Len(s) + 1) /\ ~(k + 1 <= 1) /\ (k + 1) - 1 = k
    BY <1>0
  <2> QED BY <1>1, <2>1
<1>4. \A j \in 1 .. Len(z) : j = 1 \/ \E k \in 1 .. Len(s) : j = k + 1
  <2> TAKE j \in 1 .. Len(z)
  <2>1. j # 1 => j - 1 \in 1 .. Len(s) /\ j = (j - 1) + 1
    BY <1>0, <1>1
  <2> QED BY <2>1
<1>5. 1 \in 1 .. Len(z) /\ \A k \in 1 .. Len(s) : k + 1 \in 1 .. Len(z)
  BY <1>0, <1>1
<1>6. Members(z) = Members(s) \cup {x}
  BY <1>2, <1>3, <1>4, <1>5 DEF Members
<1>7. ASSUME Once(s), x \notin Members(s) PROVE Once(z)
  <2> SUFFICES ASSUME NEW i \in 1 .. Len(z), NEW j \in 1 .. Len(z), z[i] = z[j] PROVE i = j
    BY DEF Once
  <2>1. \A k \in 1 .. Len(s) : s[k] # x
    BY <1>7 DEF Members
  <2>2. CASE i = 1 \/ j = 1
    BY <1>2, <1>3, <1>4, <2>1, <2>2
  <2>3. CASE i # 1 /\ j # 1
    <3>1. PICK k \in 1 .. Len(s) : i = k + 1
      BY <1>4, <2>3
    <3>2. PICK m \in 1 .. Len(s) : j = m + 1
      BY <1>4, <2>3
    <3>3. s[k] = s[m]
      BY <1>3, <3>1, <3>2
    <3> QED BY <1>7, <3>1, <3>2, <3>3 DEF Once
  <2> QED BY <2>2, <2>3
<1> QED BY <1>1, <1>2, <1>3, <1>6, <1>7 DEF z, e

LEMMA LeastExists ==
  ASSUME NEW A \in SUBSET Nat, A # {} PROVE \E j \in A : \A k \in A : j <= k
<1> DEFINE Less == {ss \in Nat \X Nat : ss[1] < ss[2]}
<1>1. IsWellFoundedOn(Less, Nat)
  BY NatLessThanWellFounded DEF OpToRel
<1>2. PICK j \in A : \A k \in A : ~(<<k, j>> \in Less)
  <2> HIDE DEF Less
  <2> QED BY <1>1, WFMin
<1>3. \A k \in A : j <= k
  <2> TAKE k \in A
  <2>1. j \in Nat /\ k \in Nat /\ ~(k < j)
    BY <1>2
  <2> QED BY <2>1
<1> QED BY <1>3

-----------------------------------------------------------------------------
(* The things of a tile: what a list gets, loses and exchanges.            *)

\* z is s with x as the i-th element; and s with x for its i-th element.
Gets(s, z, i, x) ==
  /\ i \in 1 .. Len(z) /\ Len(z) = Len(s) + 1 /\ z[i] = x
  /\ \A k \in 1 .. Len(s) : z[Past(k, i)] = s[k]
Swaps(s, z, i, x) ==
  /\ i \in 1 .. Len(s) /\ Len(z) = Len(s) /\ z[i] = x
  /\ \A k \in 1 .. Len(s) : k # i => z[k] = s[k]
Grown(s, z, x) == \E i : Gets(s, z, i, x)
Swapped(s, z, x, y) == \E i : Swaps(s, z, i, y) /\ s[i] = x

LEMMA GetsMembers ==
  ASSUME NEW T, NEW s \in Seq(T), NEW z \in Seq(T), NEW i, NEW x, Gets(s, z, i, x)
  PROVE  /\ Members(z) = Members(s) \cup {x}
         /\ Once(s) /\ x \notin Members(s) <=> Once(z)
<1>0. Len(s) \in Nat /\ Len(z) = Len(s) + 1 /\ i \in 1 .. Len(z) /\ z[i] = x /\ Len(z) - 1 = Len(s) /\ Len(z) \in Nat
  BY DEF Gets
<1>1. \A k \in 1 .. Len(s) : Past(k, i) \in 1 .. Len(z) /\ Past(k, i) # i /\ z[Past(k, i)] = s[k]
  BY <1>0 DEF Gets, Past
<1>2. \A k, m \in 1 .. Len(s) : Past(k, i) = Past(m, i) => k = m
  BY <1>0 DEF Past
<1>3. \A j \in 1 .. Len(z) : j # i => \E k \in 1 .. Len(s) : Past(k, i) = j
  <2> DEFINE n == Len(z)
  <2>1. n \in Nat /\ i \in 1 .. n /\ Len(s) = n - 1
    BY <1>0
  <2> HIDE DEF n
  <2>2. \A j \in 1 .. n : j # i => \E k \in 1 .. (n - 1) : Past(k, i) = j
    BY <2>1, PastReaches
  <2> QED BY <2>1, <2>2 DEF n
<1>4. Members(z) = Members(s) \cup {x}
  <2>1. \A j \in 1 .. Len(z) : z[j] \in Members(s) \cup {x}
    BY <1>0, <1>1, <1>3 DEF Members
  <2>2. \A k \in 1 .. Len(s) : s[k] \in Members(z)
    BY <1>1 DEF Members
  <2>3. x \in Members(z)
    BY <1>0 DEF Members
  <2> QED BY <2>1, <2>2, <2>3 DEF Members
<1>5. ASSUME Once(s), x \notin Members(s) PROVE Once(z)
  <2> SUFFICES ASSUME NEW j \in 1 .. Len(z), NEW m \in 1 .. Len(z), z[j] = z[m] PROVE j = m
    BY DEF Once
  <2>1. \A k \in 1 .. Len(s) : s[k] # x
    BY <1>5 DEF Members
  <2>2. CASE j = i \/ m = i
    BY <1>0, <1>1, <1>3, <2>1, <2>2
  <2>3. CASE j # i /\ m # i
    <3>1. PICK k \in 1 .. Len(s) : Past(k, i) = j
      BY <1>3, <2>3
    <3>2. PICK l \in 1 .. Len(s) : Past(l, i) = m
      BY <1>3, <2>3
    <3>3. s[k] = s[l]
      BY <1>1, <3>1, <3>2
    <3> QED BY <1>5, <3>1, <3>2, <3>3 DEF Once
  <2> QED BY <2>2, <2>3
<1>6. ASSUME Once(z) PROVE Once(s) /\ x \notin Members(s)
  <2>1. ASSUME NEW k \in 1 .. Len(s), NEW m \in 1 .. Len(s), s[k] = s[m] PROVE k = m
    BY <1>1, <1>2, <1>6, <2>1 DEF Once
  <2>2. \A k \in 1 .. Len(s) : s[k] # x
    BY <1>0, <1>1, <1>6 DEF Once
  <2> QED BY <2>1, <2>2 DEF Once, Members
<1> QED BY <1>4, <1>5, <1>6

LEMMA SwapsMembers ==
  ASSUME NEW T, NEW s \in Seq(T), NEW z \in Seq(T), NEW i, NEW x, Swaps(s, z, i, x), Once(s), x \notin Members(s)
  PROVE  Members(z) = (Members(s) \ {s[i]}) \cup {x} /\ Once(z)
<1>0. i \in 1 .. Len(s) /\ Len(z) = Len(s) /\ z[i] = x /\ \A k \in 1 .. Len(s) : k # i => z[k] = s[k]
  BY DEF Swaps
<1>1. \A k \in 1 .. Len(s) : s[k] # x /\ (k # i => s[k] # s[i])
  BY <1>0 DEF Members, Once
<1>2. Members(z) = (Members(s) \ {s[i]}) \cup {x}
  <2>1. \A k \in 1 .. Len(z) : z[k] \in (Members(s) \ {s[i]}) \cup {x}
    BY <1>0, <1>1 DEF Members
  <2>2. \A k \in 1 .. Len(s) : s[k] # s[i] => s[k] \in Members(z)
    BY <1>0 DEF Members
  <2>3. x \in Members(z)
    BY <1>0 DEF Members
  <2> QED BY <2>1, <2>2, <2>3 DEF Members
<1>3. Once(z)
  <2> SUFFICES ASSUME NEW k \in 1 .. Len(s), NEW m \in 1 .. Len(s), z[k] = z[m] PROVE k = m
    BY <1>0 DEF Once
  <2> QED BY <1>0, <1>1 DEF Once
<1> QED BY <1>2, <1>3

\* Both go through in a part of what is there.
LEMMA JoinIs ==
  ASSUME NEW T, NEW a \in Seq(T), NEW b \in Seq(T)
  PROVE  /\ a \o b \in Seq(T) /\ Len(a \o b) = Len(a) + Len(b)
         /\ \A k \in 1 .. Len(a) : (a \o b)[k] = a[k]
         /\ \A k \in 1 .. Len(b) : (a \o b)[Len(a) + k] = b[k]
         /\ Members(a \o b) = Members(a) \cup Members(b)
<1> DEFINE z == a \o b
<1>0. Len(a) \in Nat /\ Len(b) \in Nat
  OBVIOUS
<1>1. z \in Seq(T) /\ Len(z) = Len(a) + Len(b) /\ \A k \in 1 .. Len(a) + Len(b) : z[k] = IF k <= Len(a) THEN a[k] ELSE b[k - Len(a)]
  BY ConcatProperties
<1> HIDE DEF z
<1>2. \A k \in 1 .. Len(a) : k \in 1 .. Len(z) /\ z[k] = a[k]
  BY <1>0, <1>1
<1>3. \A k \in 1 .. Len(b) : Len(a) + k \in 1 .. Len(z) /\ z[Len(a) + k] = b[k]
  <2> TAKE k \in 1 .. Len(b)
  <2>1. Len(a) + k \in 1 .. Len(a) + Len(b) /\ ~(Len(a) + k <= Len(a)) /\ (Len(a) + k) - Len(a) = k
    BY <1>0
  <2> QED BY <1>1, <2>1
<1>4. \A j \in 1 .. Len(z) : j \in 1 .. Len(a) \/ \E k \in 1 .. Len(b) : j = Len(a) + k
  <2> TAKE j \in 1 .. Len(z)
  <2>1. j \notin 1 .. Len(a) => j - Len(a) \in 1 .. Len(b) /\ j = Len(a) + (j - Len(a))
    BY <1>0, <1>1
  <2> QED BY <2>1
<1>5. Members(z) = Members(a) \cup Members(b)
  <2>1. \A j \in 1 .. Len(z) : z[j] \in Members(a) \cup Members(b)
    BY <1>2, <1>3, <1>4 DEF Members
  <2>2. (\A k \in 1 .. Len(a) : a[k] \in Members(z)) /\ \A k \in 1 .. Len(b) : b[k] \in Members(z)
    BY <1>2, <1>3 DEF Members
  <2> QED BY <2>1, <2>2 DEF Members
<1> QED BY <1>1, <1>2, <1>3, <1>5 DEF z

LEMMA GetsBefore ==
  ASSUME NEW T, NEW a \in Seq(T), NEW z \in Seq(T), NEW b \in Seq(T), NEW i, NEW x, Gets(a, z, i, x)
  PROVE  Gets(a \o b, z \o b, i, x)
<1> DEFINE s == a \o b
           w == z \o b
<1>0. Len(a) \in Nat /\ Len(b) \in Nat /\ Len(z) = Len(a) + 1 /\ i \in 1 .. Len(z) /\ z[i] = x /\ \A k \in 1 .. Len(a) : z[Past(k, i)] = a[k]
  BY DEF Gets
<1>1. /\ Len(s) = Len(a) + Len(b) /\ (\A k \in 1 .. Len(a) : s[k] = a[k])
      /\ \A k \in 1 .. Len(b) : s[Len(a) + k] = b[k]
  BY JoinIs
<1>2. /\ Len(w) = Len(z) + Len(b) /\ (\A k \in 1 .. Len(z) : w[k] = z[k])
      /\ \A k \in 1 .. Len(b) : w[Len(z) + k] = b[k]
  BY JoinIs
<1> HIDE DEF s, w
<1>3. i \in 1 .. Len(w) /\ Len(w) = Len(s) + 1 /\ w[i] = x
  BY <1>0, <1>1, <1>2
<1>4. ASSUME NEW k \in 1 .. Len(s) PROVE w[Past(k, i)] = s[k]
  <2>1. CASE k <= Len(a)
    <3>1. k \in 1 .. Len(a) /\ Past(k, i) \in 1 .. Len(z)
      BY <1>0, <1>1, <2>1 DEF Past
    <3> QED BY <1>0, <1>1, <1>2, <3>1
  <2>2. CASE ~(k <= Len(a))
    <3> DEFINE m == k - Len(a)
    <3>1. m \in 1 .. Len(b) /\ k = Len(a) + m /\ Past(k, i) = Len(z) + m
      BY <1>0, <1>1, <2>2 DEF Past
    <3> HIDE DEF m
    <3> QED BY <1>1, <1>2, <3>1
  <2> QED BY <2>1, <2>2
<1> QED BY <1>3, <1>4 DEF Gets, s, w

LEMMA GetsAfter ==
  ASSUME NEW T, NEW a \in Seq(T), NEW b \in Seq(T), NEW z \in Seq(T), NEW i, NEW x, Gets(b, z, i, x)
  PROVE  Gets(a \o b, a \o z, Len(a) + i, x)
<1> DEFINE s == a \o b
           w == a \o z
           n == Len(a) + i
<1>0. Len(a) \in Nat /\ Len(b) \in Nat /\ Len(z) = Len(b) + 1 /\ i \in 1 .. Len(z) /\ z[i] = x /\ \A k \in 1 .. Len(b) : z[Past(k, i)] = b[k]
  BY DEF Gets
<1>1. /\ Len(s) = Len(a) + Len(b) /\ (\A k \in 1 .. Len(a) : s[k] = a[k])
      /\ \A k \in 1 .. Len(b) : s[Len(a) + k] = b[k]
  BY JoinIs
<1>2. /\ Len(w) = Len(a) + Len(z) /\ (\A k \in 1 .. Len(a) : w[k] = a[k])
      /\ \A k \in 1 .. Len(z) : w[Len(a) + k] = z[k]
  BY JoinIs
<1> HIDE DEF s, w
<1>3. n \in 1 .. Len(w) /\ Len(w) = Len(s) + 1 /\ w[n] = x
  BY <1>0, <1>1, <1>2
<1>4. ASSUME NEW k \in 1 .. Len(s) PROVE w[Past(k, n)] = s[k]
  <2>1. CASE k <= Len(a)
    <3>1. k \in 1 .. Len(a) /\ Past(k, n) = k
      BY <1>0, <1>1, <2>1 DEF Past
    <3> QED BY <1>1, <1>2, <3>1
  <2>2. CASE ~(k <= Len(a))
    <3> DEFINE m == k - Len(a)
    <3>1. m \in 1 .. Len(b) /\ k = Len(a) + m /\ Past(k, n) = Len(a) + Past(m, i) /\ Past(m, i) \in 1 .. Len(z)
      BY <1>0, <1>1, <2>2 DEF Past
    <3> HIDE DEF m
    <3> QED BY <1>0, <1>1, <1>2, <3>1
  <2> QED BY <2>1, <2>2
<1> QED BY <1>3, <1>4 DEF Gets, s, w, n

LEMMA SwapsBefore ==
  ASSUME NEW T, NEW a \in Seq(T), NEW z \in Seq(T), NEW b \in Seq(T), NEW i, NEW x, Swaps(a, z, i, x)
  PROVE  Swaps(a \o b, z \o b, i, x) /\ Swapped(a \o b, z \o b, a[i], x)
<1> DEFINE s == a \o b
           w == z \o b
<1>0. Len(a) \in Nat /\ Len(b) \in Nat /\ Len(z) = Len(a) /\ i \in 1 .. Len(a) /\ z[i] = x /\ \A k \in 1 .. Len(a) : k # i => z[k] = a[k]
  BY DEF Swaps
<1>1. /\ Len(s) = Len(a) + Len(b) /\ (\A k \in 1 .. Len(a) : s[k] = a[k])
      /\ \A k \in 1 .. Len(b) : s[Len(a) + k] = b[k]
  BY JoinIs
<1>2. /\ Len(w) = Len(z) + Len(b) /\ (\A k \in 1 .. Len(z) : w[k] = z[k])
      /\ \A k \in 1 .. Len(b) : w[Len(z) + k] = b[k]
  BY JoinIs
<1> HIDE DEF s, w
<1>3. i \in 1 .. Len(s) /\ Len(w) = Len(s) /\ w[i] = x /\ s[i] = a[i]
  BY <1>0, <1>1, <1>2
<1>4. ASSUME NEW k \in 1 .. Len(s), k # i PROVE w[k] = s[k]
  <2>1. CASE k <= Len(a)
    BY <1>0, <1>1, <1>2, <1>4, <2>1
  <2>2. CASE ~(k <= Len(a))
    <3> DEFINE m == k - Len(a)
    <3>1. m \in 1 .. Len(b) /\ k = Len(a) + m
      BY <1>0, <1>1, <2>2
    <3> HIDE DEF m
    <3> QED BY <1>0, <1>1, <1>2, <3>1
  <2> QED BY <2>1, <2>2
<1>5. Swaps(s, w, i, x)
  BY <1>3, <1>4 DEF Swaps
<1> QED BY <1>3, <1>5 DEF Swapped, s, w

LEMMA SwapsAfter ==
  ASSUME NEW T, NEW a \in Seq(T), NEW b \in Seq(T), NEW z \in Seq(T), NEW i, NEW x, Swaps(b, z, i, x)
  PROVE  Swapped(a \o b, a \o z, b[i], x)
<1> DEFINE s == a \o b
           w == a \o z
           n == Len(a) + i
<1>0. Len(a) \in Nat /\ Len(b) \in Nat /\ Len(z) = Len(b) /\ i \in 1 .. Len(b) /\ z[i] = x /\ \A k \in 1 .. Len(b) : k # i => z[k] = b[k]
  BY DEF Swaps
<1>1. /\ Len(s) = Len(a) + Len(b) /\ (\A k \in 1 .. Len(a) : s[k] = a[k])
      /\ \A k \in 1 .. Len(b) : s[Len(a) + k] = b[k]
  BY JoinIs
<1>2. /\ Len(w) = Len(a) + Len(z) /\ (\A k \in 1 .. Len(a) : w[k] = a[k])
      /\ \A k \in 1 .. Len(z) : w[Len(a) + k] = z[k]
  BY JoinIs
<1> HIDE DEF s, w
<1>3. n \in 1 .. Len(s) /\ Len(w) = Len(s) /\ w[n] = x /\ s[n] = b[i]
  BY <1>0, <1>1, <1>2
<1>4. ASSUME NEW k \in 1 .. Len(s), k # n PROVE w[k] = s[k]
  <2>1. CASE k <= Len(a)
    BY <1>0, <1>1, <1>2, <2>1
  <2>2. CASE ~(k <= Len(a))
    <3> DEFINE m == k - Len(a)
    <3>1. m \in 1 .. Len(b) /\ k = Len(a) + m /\ m # i
      BY <1>0, <1>1, <1>4, <2>2
    <3> HIDE DEF m
    <3> QED BY <1>0, <1>1, <1>2, <3>1
  <2> QED BY <2>1, <2>2
<1>5. Swaps(s, w, n, x)
  BY <1>3, <1>4 DEF Swaps
<1> QED BY <1>3, <1>5 DEF Swapped, s, w, n

LEMMA GetsRemoved ==
  ASSUME NEW T, NEW s \in Seq(T), NEW i \in 1 .. Len(s)
  PROVE  /\ G!RemoveAt(s, i) \in Seq(T) /\ Gets(G!RemoveAt(s, i), s, i, s[i])
<1> DEFINE z == Skipped(s, i)
<1>1. G!RemoveAt(s, i) = z
  BY DEF G!RemoveAt, Skipped
<1>2. z \in Seq(T) /\ Len(z) = Len(s) - 1 /\ \A k \in 1 .. (Len(s) - 1) : z[k] = s[Past(k, i)]
  BY SkippedIs
<1> HIDE DEF z
<1>3. Gets(z, s, i, s[i])
  <2>1. Len(s) \in Nat /\ Len(s) = Len(z) + 1 /\ Len(z) = Len(s) - 1
    BY <1>2
  <2> QED BY <1>2, <2>1 DEF Gets
<1> QED BY <1>1, <1>2, <1>3

LEMMA GetsFirst ==
  ASSUME NEW T, NEW s \in Seq(T), NEW x \in T
  PROVE  <<x>> \o s \in Seq(T) /\ Gets(s, <<x>> \o s, 1, x)
<1> DEFINE z == <<x>> \o s
<1>1. z \in Seq(T) /\ Len(z) = Len(s) + 1 /\ z[1] = x /\ \A k \in 1 .. Len(s) : z[k + 1] = s[k]
  BY FirstIs
<1> HIDE DEF z
<1>2. Len(s) \in Nat /\ \A k \in 1 .. Len(s) : Past(k, 1) = k + 1
  BY DEF Past
<1>3. Gets(s, z, 1, x)
  BY <1>1, <1>2 DEF Gets
<1> QED BY <1>1, <1>3 DEF z

LEMMA GetsLast ==
  ASSUME NEW T, NEW s \in Seq(T), NEW x \in T
  PROVE  Append(s, x) \in Seq(T) /\ Gets(s, Append(s, x), Len(s) + 1, x)
<1> DEFINE z == Append(s, x)
<1>1. z \in Seq(T) /\ Len(z) = Len(s) + 1 /\ z[Len(s) + 1] = x /\ \A k \in 1 .. Len(s) : z[k] = s[k]
  OBVIOUS
<1> HIDE DEF z
<1>2. Len(s) \in Nat /\ \A k \in 1 .. Len(s) : Past(k, Len(s) + 1) = k
  BY DEF Past
<1>3. Gets(s, z, Len(s) + 1, x)
  BY <1>1, <1>2 DEF Gets
<1> QED BY <1>1, <1>3 DEF z

LEMMA GetsInserted ==
  ASSUME NEW T, NEW s \in Seq(T), NEW i \in 1 .. (Len(s) + 1), NEW x \in T
  PROVE  G!InsertAt(s, i, x) \in Seq(T) /\ Gets(s, G!InsertAt(s, i, x), i, x)
<1> DEFINE a == SubSeq(s, 1, i - 1)
           b == SubSeq(s, i, Len(s))
           e == <<x>>
           z == e \o b
           w == a \o b
           u == a \o z
<1>0. Len(s) \in Nat /\ i \in Nat /\ i >= 1 /\ i <= Len(s) + 1
  OBVIOUS
<1>1. Len(a) = i - 1 /\ \A k \in 1 .. (i - 1) : a[k] = s[k]
  BY <1>0
<1>2. Len(b) = Len(s) - i + 1 /\ \A k \in 1 .. (Len(s) - i + 1) : b[k] = s[i + k - 1]
  BY <1>0
<1>10. a \in Seq(T) /\ b \in Seq(T)
  BY <1>0
<1>3. G!InsertAt(s, i, x) = (a \o e) \o b
  BY DEF G!InsertAt
<1>4. e \in Seq(T)
  OBVIOUS
<1> HIDE DEF a, b, e
<1>5. (a \o e) \o b = u
  BY <1>4, <1>10, ConcatAssociative
<1>6. z \in Seq(T) /\ Gets(b, z, 1, x)
  BY <1>10, GetsFirst DEF e
<1> HIDE DEF z
<1>7. Gets(w, u, Len(a) + 1, x) /\ u \in Seq(T) /\ w \in Seq(T)
  BY <1>6, <1>10, GetsAfter, JoinIs
<1>8. w = s
  <2>1. Len(w) = Len(s) /\ \A k \in 1 .. Len(s) : w[k] = s[k]
    <3>1. /\ Len(w) = Len(a) + Len(b) /\ (\A k \in 1 .. Len(a) : w[k] = a[k])
          /\ \A k \in 1 .. Len(b) : w[Len(a) + k] = b[k]
      BY <1>10, JoinIs
    <3> HIDE DEF w
    <3>2. ASSUME NEW k \in 1 .. Len(s), k >= i PROVE w[k] = s[k]
      <4> DEFINE m == k - (i - 1)
      <4>1. m \in 1 .. Len(b) /\ m \in 1 .. (Len(s) - i + 1) /\ k = Len(a) + m /\ i + m - 1 = k
        BY <1>0, <1>1, <1>2, <3>2
      <4> HIDE DEF m
      <4>2. w[Len(a) + m] = b[m] /\ b[m] = s[i + m - 1]
        <5> HIDE DEF b
        <5> QED BY <1>2, <3>1, <4>1
      <4> QED BY <4>1, <4>2
    <3>3. ASSUME NEW k \in 1 .. Len(s), k < i PROVE w[k] = s[k]
      <4>1. k \in 1 .. Len(a) /\ k \in 1 .. (i - 1)
        BY <1>0, <1>1, <3>3
      <4> QED BY <1>1, <3>1, <4>1
    <3> QED BY <1>0, <1>1, <1>2, <3>1, <3>2, <3>3
  <2> HIDE DEF w
  <2> QED BY <1>7, <2>1, SeqEqual
<1>9. Len(a) + 1 = i
  BY <1>0, <1>1
<1> HIDE DEF w, u
<1> QED BY <1>3, <1>5, <1>7, <1>8, <1>9

LEMMA SwapsReplaced ==
  ASSUME NEW T, NEW s \in Seq(T), NEW i \in 1 .. Len(s), NEW x \in T
  PROVE  [s EXCEPT ![i] = x] \in Seq(T) /\ Swaps(s, [s EXCEPT ![i] = x], i, x)
BY DEF Swaps

LEMMA AtIs ==
  ASSUME NEW T, NEW s \in Seq(T), NEW x
  PROVE  /\ G!IsIn(x, s) <=> x \in Members(s)
         /\ G!Range(s) = Members(s)
         /\ \A i \in 1 .. Len(s) : s[i] = x /\ (\A k \in 1 .. Len(s) : s[k] = x => k = i) => G!At(x, s) = i
         /\ x \in Members(s) => G!At(x, s) \in 1 .. Len(s) /\ s[G!At(x, s)] = x
<1>1. G!IsIn(x, s) <=> x \in Members(s)
  BY DEF G!IsIn, Members
<1>2. G!Range(s) = Members(s)
  <2>1. DOMAIN s = 1 .. Len(s)
    OBVIOUS
  <2> QED BY <2>1 DEF G!Range, Members
<1>3. x \in Members(s) => G!At(x, s) \in 1 .. Len(s) /\ s[G!At(x, s)] = x
  BY DEF G!At, Members
<1>4. ASSUME NEW i \in 1 .. Len(s), s[i] = x, \A k \in 1 .. Len(s) : s[k] = x => k = i PROVE G!At(x, s) = i
  BY <1>4 DEF G!At
<1> QED BY <1>1, <1>2, <1>3, <1>4

\* What x was put at, is its position.
LEMMA PositionOf ==
  ASSUME NEW T, NEW s \in Seq(T), NEW z \in Seq(T), NEW i, NEW x, x \notin Members(s),
         Gets(s, z, i, x) \/ Swaps(s, z, i, x)
  PROVE  G!Position(x, z) = i
<1>1. i \in 1 .. Len(z) /\ z[i] = x
  BY DEF Gets, Swaps
<1>2. \A k \in 1 .. Len(s) : s[k] # x
  BY DEF Members
<1>3. ASSUME NEW k \in 1 .. Len(z), k # i PROVE z[k] # x
  <2>1. CASE Gets(s, z, i, x)
    <3> DEFINE n == Len(z)
    <3>1. n \in Nat /\ i \in 1 .. n /\ Len(s) = n - 1
      BY <2>1 DEF Gets
    <3>2. PICK j \in 1 .. (n - 1) : Past(j, i) = k
      <4> HIDE DEF n
      <4>1. k \in 1 .. n
        BY DEF n
      <4> QED BY <1>3, <3>1, <4>1, PastReaches
    <3> HIDE DEF n
    <3> QED BY <1>2, <2>1, <3>1, <3>2 DEF Gets
  <2>2. CASE Swaps(s, z, i, x)
    BY <1>2, <1>3, <2>2 DEF Swaps
  <2> QED BY <2>1, <2>2
<1>4. G!At(x, z) = i
  BY <1>1, <1>3, AtIs
<1> QED BY <1>4 DEF G!Position

LEMMA WithoutGets ==
  ASSUME NEW T, NEW s \in Seq(T), NEW x
  PROVE  /\ G!Without(s, x) \in Seq(T)
         /\ x \in Members(s) => \E i : Gets(G!Without(s, x), s, i, x)
         /\ x \notin Members(s) => G!Without(s, x) = s
<1>1. G!IsIn(x, s) <=> x \in Members(s)
  BY AtIs
<1>2. CASE x \in Members(s)
  <2> DEFINE i == G!At(x, s)
  <2>1. i \in 1 .. Len(s) /\ s[i] = x /\ G!Without(s, x) = G!RemoveAt(s, i)
    BY <1>1, <1>2, AtIs DEF G!Without
  <2> HIDE DEF i
  <2>2. G!RemoveAt(s, i) \in Seq(T) /\ Gets(G!RemoveAt(s, i), s, i, s[i])
    BY <2>1, GetsRemoved
  <2> QED BY <1>2, <2>1, <2>2
<1>3. CASE x \notin Members(s)
  BY <1>1, <1>3 DEF G!Without
<1> QED BY <1>2, <1>3

-----------------------------------------------------------------------------
(* The client's list: the beginning of the server's.                       *)

\* v is what a client has of s: no more than it keeps, and the same from the beginning.
Clips(v, s) == Len(v) <= TileMax /\ Len(v) <= Len(s) /\ \A k \in 1 .. Len(v) : v[k] = s[k]

LEMMA ClipsFirst ==
  ASSUME TileMax \in Nat, NEW T, NEW s \in Seq(T)
  PROVE  /\ G!First(s) \in Seq(T) /\ Clips(G!First(s), s)
         /\ \A v \in Seq(T) : Clips(v, s) => (v = G!First(s) <=> Len(v) = TileMax \/ Len(v) = Len(s))
<1> DEFINE n == IF Len(s) < TileMax THEN Len(s) ELSE TileMax
           f == SubSeq(s, 1, n)
<1>0. Len(s) \in Nat /\ n \in Nat /\ n <= Len(s) /\ n <= TileMax /\ (n = Len(s) \/ n = TileMax)
  OBVIOUS
<1>1. G!First(s) = f
  BY DEF G!First
<1> HIDE DEF n
<1>2. f \in Seq(T) /\ Len(f) = n /\ \A k \in 1 .. n : f[k] = s[k]
  BY <1>0
<1> HIDE DEF f
<1>3. Clips(f, s)
  BY <1>0, <1>2 DEF Clips
<1>4. ASSUME NEW v \in Seq(T), Clips(v, s) PROVE v = f <=> Len(v) = TileMax \/ Len(v) = Len(s)
  <2>0. Len(v) \in Nat /\ Len(v) <= TileMax /\ Len(v) <= Len(s) /\ \A k \in 1 .. Len(v) : v[k] = s[k]
    BY <1>4 DEF Clips
  <2>1. ASSUME Len(v) = TileMax \/ Len(v) = Len(s) PROVE v = f
    <3>1. Len(v) = n
      BY <1>0, <2>0, <2>1
    <3>2. \A k \in 1 .. Len(v) : v[k] = f[k]
      BY <1>2, <2>0, <3>1
    <3> QED BY <1>2, <3>1, <3>2, SeqEqual
  <2>2. ASSUME v = f PROVE Len(v) = TileMax \/ Len(v) = Len(s)
    BY <1>0, <1>2, <2>2
  <2> QED BY <2>1, <2>2
<1> QED BY <1>1, <1>2, <1>3, <1>4

LEMMA ClipsInserted ==
  ASSUME TileMax \in Nat, NEW T, NEW s \in Seq(T), NEW z \in Seq(T), NEW i, NEW x \in T, Gets(s, z, i, x),
         NEW v \in Seq(T), Clips(v, s)
  PROVE  /\ G!Inserted(v, i, x) \in Seq(T) /\ Clips(G!Inserted(v, i, x), z)
         /\ v = G!First(s) => G!Inserted(v, i, x) = G!First(z)
<1> DEFINE w == G!InsertAt(v, i, x)
           f == G!First(w)
<1>0. /\ Len(v) \in Nat /\ Len(v) <= TileMax /\ Len(v) <= Len(s) /\ \A k \in 1 .. Len(v) : v[k] = s[k]
      /\ Len(s) \in Nat /\ Len(z) = Len(s) + 1 /\ i \in 1 .. Len(z) /\ z[i] = x /\ \A k \in 1 .. Len(s) : z[Past(k, i)] = s[k]
  BY DEF Clips, Gets
<1>1. CASE i > TileMax \/ i > Len(v) + 1
  <2>1. G!Inserted(v, i, x) = v
    BY <1>1 DEF G!Inserted
  <2>2. Len(v) < i
    BY <1>0, <1>1
  <2>3. \A k \in 1 .. Len(v) : v[k] = z[k]
    <3> TAKE k \in 1 .. Len(v)
    <3>1. Past(k, i) = k /\ k \in 1 .. Len(s)
      BY <1>0, <2>2 DEF Past
    <3> QED BY <1>0, <3>1
  <2>4. Clips(v, z)
    BY <1>0, <2>3 DEF Clips
  <2>5. ASSUME v = G!First(s) PROVE v = G!First(z)
    <3>1. Len(v) = TileMax \/ Len(v) = Len(s)
      BY <2>5, ClipsFirst
    <3>2. Len(v) = TileMax
      BY <1>0, <1>1, <3>1
    <3> QED BY <2>4, <3>2, ClipsFirst
  <2> QED BY <2>1, <2>4, <2>5
<1>2. CASE ~(i > TileMax \/ i > Len(v) + 1)
  <2>0. i \in 1 .. (Len(v) + 1) /\ i <= TileMax
    BY <1>0, <1>2
  <2>1. w \in Seq(T) /\ Gets(v, w, i, x)
    BY <2>0, GetsInserted
  <2>2. G!Inserted(v, i, x) = f
    BY <1>2 DEF G!Inserted
  <2> HIDE DEF w
  <2>3. f \in Seq(T) /\ Clips(f, w) /\ (Len(f) = TileMax \/ Len(f) = Len(w))
    BY <2>1, ClipsFirst
  <2> HIDE DEF f
  <2>4. Len(w) = Len(v) + 1 /\ w[i] = x /\ \A k \in 1 .. Len(v) : w[Past(k, i)] = v[k]
    BY <2>1 DEF Gets
  <2>5. \A j \in 1 .. Len(w) : w[j] = z[j]
    <3> TAKE j \in 1 .. Len(w)
    <3>1. CASE j = i
      BY <1>0, <2>4, <3>1
    <3>2. CASE j # i
      <4> DEFINE n == Len(w)
      <4>1. n \in Nat /\ i \in 1 .. n /\ j \in 1 .. n /\ Len(v) = n - 1
        BY <1>0, <2>0, <2>4
      <4> HIDE DEF n
      <4>2. PICK k \in 1 .. (n - 1) : Past(k, i) = j
        BY <3>2, <4>1, PastReaches
      <4>3. k \in 1 .. Len(v) /\ k \in 1 .. Len(s)
        BY <1>0, <4>1
      <4> QED BY <1>0, <2>4, <4>2, <4>3
    <3> QED BY <3>1, <3>2
  <2>6. Len(f) \in Nat /\ Len(f) <= TileMax /\ Len(f) <= Len(w) /\ \A k \in 1 .. Len(f) : f[k] = w[k]
    BY <2>3 DEF Clips
  <2>7. Clips(f, z)
    <3>1. Len(f) <= Len(z)
      BY <1>0, <2>4, <2>6
    <3>2. \A k \in 1 .. Len(f) : f[k] = z[k]
      BY <1>0, <2>4, <2>5, <2>6
    <3> QED BY <2>6, <3>1, <3>2 DEF Clips
  <2>8. ASSUME v = G!First(s) PROVE f = G!First(z)
    <3>1. Len(v) = TileMax \/ Len(v) = Len(s)
      BY <2>8, ClipsFirst
    <3>2. Len(f) = TileMax \/ Len(f) = Len(z)
      BY <1>0, <2>3, <2>4, <2>6, <3>1
    <3> QED BY <2>3, <2>7, <3>2, ClipsFirst
  <2> QED BY <2>2, <2>3, <2>7, <2>8
<1> QED BY <1>1, <1>2

LEMMA ClipsRemoved ==
  ASSUME TileMax \in Nat, NEW T, NEW s \in Seq(T), NEW z \in Seq(T), NEW i, NEW x, Gets(z, s, i, x),
         NEW v \in Seq(T), Clips(v, s)
  PROVE  /\ G!Removed(v, i) \in Seq(T) /\ Clips(G!Removed(v, i), z)
         /\ v = G!First(s) /\ Len(z) < TileMax => G!Removed(v, i) = G!First(z)
<1> DEFINE w == G!RemoveAt(v, i)
<1>0. /\ Len(v) \in Nat /\ Len(v) <= TileMax /\ Len(v) <= Len(s) /\ \A k \in 1 .. Len(v) : v[k] = s[k]
      /\ Len(z) \in Nat /\ Len(s) = Len(z) + 1 /\ i \in 1 .. Len(s) /\ s[i] = x /\ \A k \in 1 .. Len(z) : s[Past(k, i)] = z[k]
  BY DEF Clips, Gets
<1>1. CASE i > Len(v)
  <2>1. G!Removed(v, i) = v
    BY <1>1 DEF G!Removed
  <2>2. \A k \in 1 .. Len(v) : v[k] = z[k]
    <3> TAKE k \in 1 .. Len(v)
    <3>1. Past(k, i) = k /\ k \in 1 .. Len(z)
      BY <1>0, <1>1 DEF Past
    <3> QED BY <1>0, <3>1
  <2>3. Clips(v, z)
    BY <1>0, <1>1, <2>2 DEF Clips
  <2>4. ASSUME v = G!First(s), Len(z) < TileMax PROVE v = G!First(z)
    <3>1. Len(v) = TileMax \/ Len(v) = Len(s)
      BY <2>4, ClipsFirst
    <3>2. Len(v) = TileMax \/ Len(v) = Len(z)
      BY <1>0, <1>1, <2>4, <3>1
    <3> QED BY <2>3, <3>2, ClipsFirst
  <2> QED BY <2>1, <2>3, <2>4
<1>2. CASE ~(i > Len(v))
  <2>0. i \in 1 .. Len(v)
    BY <1>0, <1>2
  <2>1. w \in Seq(T) /\ Gets(w, v, i, v[i])
    BY <2>0, GetsRemoved
  <2>2. G!Removed(v, i) = w
    BY <1>2 DEF G!Removed
  <2> HIDE DEF w
  <2>3. Len(w) \in Nat /\ Len(v) = Len(w) + 1 /\ \A k \in 1 .. Len(w) : v[Past(k, i)] = w[k]
    BY <2>1 DEF Gets
  <2>4. \A k \in 1 .. Len(w) : w[k] = z[k]
    <3> TAKE k \in 1 .. Len(w)
    <3>1. k \in 1 .. Len(z) /\ Past(k, i) \in 1 .. Len(v)
      BY <1>0, <2>0, <2>3 DEF Past
    <3> QED BY <1>0, <2>3, <3>1
  <2>5. Clips(w, z)
    BY <1>0, <2>3, <2>4 DEF Clips
  <2>6. ASSUME v = G!First(s), Len(z) < TileMax PROVE w = G!First(z)
    <3>1. Len(v) = TileMax \/ Len(v) = Len(s)
      BY <2>6, ClipsFirst
    <3>2. Len(w) = Len(z)
      BY <1>0, <2>3, <2>6, <3>1
    <3> QED BY <2>1, <2>5, <3>2, ClipsFirst
  <2> QED BY <2>1, <2>2, <2>5, <2>6
<1> QED BY <1>1, <1>2

LEMMA ClipsUpdated ==
  ASSUME TileMax \in Nat, NEW T, NEW s \in Seq(T), NEW z \in Seq(T), NEW i, NEW x \in T, Swaps(s, z, i, x),
         NEW v \in Seq(T), Clips(v, s)
  PROVE  /\ G!Updated(v, i, x) \in Seq(T) /\ Clips(G!Updated(v, i, x), z)
         /\ v = G!First(s) => G!Updated(v, i, x) = G!First(z)
<1> DEFINE w == [v EXCEPT ![i] = x]
           u == G!Updated(v, i, x)
<1>0. /\ Len(v) \in Nat /\ Len(v) <= TileMax /\ Len(v) <= Len(s) /\ \A k \in 1 .. Len(v) : v[k] = s[k]
      /\ Len(s) \in Nat /\ Len(z) = Len(s) /\ i \in 1 .. Len(s) /\ z[i] = x /\ \A k \in 1 .. Len(s) : k # i => z[k] = s[k]
  BY DEF Clips, Swaps
<1>1. u \in Seq(T) /\ Len(u) = Len(v) /\ \A k \in 1 .. Len(v) : u[k] = z[k]
  <2>1. CASE i > Len(v)
    <3>1. u = v
      BY <2>1 DEF G!Updated
    <3> HIDE DEF u
    <3> QED BY <1>0, <2>1, <3>1
  <2>2. CASE ~(i > Len(v))
    <3>0. i \in 1 .. Len(v)
      BY <1>0, <2>2
    <3>1. w \in Seq(T) /\ Swaps(v, w, i, x)
      BY <3>0, SwapsReplaced
    <3>2. u = w
      BY <2>2 DEF G!Updated
    <3> HIDE DEF w, u
    <3> QED BY <1>0, <3>0, <3>1, <3>2 DEF Swaps
  <2> QED BY <2>1, <2>2
<1> HIDE DEF u
<1>2. Clips(u, z)
  BY <1>0, <1>1 DEF Clips
<1>3. ASSUME v = G!First(s) PROVE u = G!First(z)
  <2>1. Len(v) = TileMax \/ Len(v) = Len(s)
    BY <1>3, ClipsFirst
  <2>2. Len(u) = TileMax \/ Len(u) = Len(z)
    BY <1>0, <1>1, <2>1
  <2> QED BY <1>1, <1>2, <2>2, ClipsFirst
<1> QED BY <1>1, <1>2, <1>3 DEF u

-----------------------------------------------------------------------------
(* The creatures that are seen.                                            *)

\* What is seen of the first n of the creatures cs, newest first.
With(cs, sees, n, s) == IF cs[n] \in sees THEN <<cs[n]>> \o s ELSE s
Sighted(cs, sees, N, h) == h = [n \in 0 .. N |-> IF n = 0 THEN <<>> ELSE With(cs, sees, n, h[n - 1])]
Sight(cs, sees, n) == (CHOOSE h : Sighted(cs, sees, Len(cs), h))[n]

LEMMA SightedExists ==
  ASSUME NEW cs, NEW sees, NEW N \in Nat PROVE \E h : Sighted(cs, sees, N, h)
<1> DEFINE P == {n \in Nat : \E h : Sighted(cs, sees, n, h)}
<1>1. 0 \in P
  <2> DEFINE h == [n \in 0 .. 0 |-> <<>>]
  <2>1. Sighted(cs, sees, 0, h)
    BY DEF Sighted
  <2> HIDE DEF h
  <2> QED BY <2>1
<1>2. ASSUME NEW m \in Nat, m \in P PROVE m + 1 \in P
  <2>1. PICK h : Sighted(cs, sees, m, h)
    BY <1>2
  <2> DEFINE k == [n \in 0 .. (m + 1) |-> IF n = m + 1 THEN With(cs, sees, n, h[m]) ELSE h[n]]
             G1(n) == IF n = 0 THEN <<>> ELSE With(cs, sees, n, k[n - 1])
  <2>2. h = [n \in 0 .. m |-> IF n = 0 THEN <<>> ELSE With(cs, sees, n, h[n - 1])]
    BY <2>1 DEF Sighted
  <2>3. \A n \in 0 .. m : h[n] = IF n = 0 THEN <<>> ELSE With(cs, sees, n, h[n - 1])
    BY <2>2
  <2>4. ASSUME NEW n \in 0 .. (m + 1) PROVE k[n] = G1(n)
    <3>1. CASE n = m + 1
      <4>1. n - 1 = m /\ n # 0 /\ m \in 0 .. (m + 1) /\ m # m + 1
        BY <3>1
      <4>2. k[n] = With(cs, sees, n, h[m]) /\ k[m] = h[m]
        BY <3>1, <4>1
      <4> HIDE DEF k
      <4> QED BY <4>1, <4>2
    <3>2. CASE n # m + 1
      <4>1. n \in 0 .. m /\ (n # 0 => n - 1 \in 0 .. (m + 1) /\ n - 1 # m + 1)
        BY <3>2
      <4>2. k[n] = h[n] /\ (n # 0 => k[n - 1] = h[n - 1])
        BY <3>2, <4>1
      <4> HIDE DEF k
      <4> QED BY <2>3, <4>1, <4>2
    <3> QED BY <3>1, <3>2
  <2>5. k = [n \in 0 .. (m + 1) |-> G1(n)]
    <3>1. k = [n \in 0 .. (m + 1) |-> k[n]]
      OBVIOUS
    <3> HIDE DEF k, G1
    <3> QED BY <2>4, <3>1
  <2>6. Sighted(cs, sees, m + 1, k)
    BY <2>5 DEF Sighted
  <2> HIDE DEF k
  <2> QED BY <2>6
<1> HIDE DEF P
<1>3. Nat \subseteq P
  BY <1>1, <1>2, AllNumbers
<1> QED BY <1>3 DEF P

LEMMA SightIs ==
  ASSUME NEW T, NEW cs \in Seq(T), NEW sees
  PROVE  /\ G!Visible(cs, sees) = Sight(cs, sees, Len(cs))
         /\ Sight(cs, sees, 0) = <<>>
         /\ \A n \in Nat : n + 1 \in 0 .. Len(cs) => Sight(cs, sees, n + 1) = With(cs, sees, n + 1, Sight(cs, sees, n))
<1> DEFINE h == CHOOSE h : Sighted(cs, sees, Len(cs), h)
<1>1. G!Visible(cs, sees) = h[Len(cs)]
  BY DEF G!Visible, Sighted, With
<1>2. \A n : Sight(cs, sees, n) = h[n]
  BY DEF Sight
<1>3. Len(cs) \in Nat
  OBVIOUS
<1>4. Sighted(cs, sees, Len(cs), h)
  BY <1>3, SightedExists
<1> HIDE DEF h
<1>5. \A n \in 0 .. Len(cs) : h[n] = IF n = 0 THEN <<>> ELSE With(cs, sees, n, h[n - 1])
  <2>1. h = [n \in 0 .. Len(cs) |-> IF n = 0 THEN <<>> ELSE With(cs, sees, n, h[n - 1])]
    BY <1>4 DEF Sighted
  <2> QED BY <2>1
<1>6. h[0] = <<>> /\ \A n \in Nat : n + 1 \in 0 .. Len(cs) => h[n + 1] = With(cs, sees, n + 1, h[n])
  <2>1. 0 \in 0 .. Len(cs) /\ \A n \in Nat : n + 1 # 0 /\ (n + 1) - 1 = n
    BY <1>3
  <2> QED BY <1>5, <2>1
<1> QED BY <1>1, <1>2, <1>6

LEMMA SightType ==
  ASSUME NEW T, NEW cs \in Seq(T), NEW sees
  PROVE  /\ G!Visible(cs, sees) \in Seq(T) /\ Len(G!Visible(cs, sees)) <= Len(cs)
         /\ Members(G!Visible(cs, sees)) \subseteq Members(cs) \cap sees
         /\ \A n \in 0 .. Len(cs) : Sight(cs, sees, n) \in Seq(T)
<1> DEFINE F(n) == Sight(cs, sees, n)
           P == {n \in Nat : n \in 0 .. Len(cs) => F(n) \in Seq(T) /\ Len(F(n)) <= n /\ Members(F(n)) \subseteq Members(cs) \cap sees}
<1>00. Len(cs) \in Nat
  OBVIOUS
<1>01. /\ G!Visible(cs, sees) = F(Len(cs)) /\ F(0) = <<>>
       /\ \A n \in Nat : n + 1 \in 0 .. Len(cs) => F(n + 1) = With(cs, sees, n + 1, F(n))
  BY SightIs
<1> HIDE DEF F
<1>0. /\ G!Visible(cs, sees) = F(Len(cs)) /\ F(0) = <<>> /\ Len(cs) \in Nat
      /\ \A n \in Nat : n + 1 \in 0 .. Len(cs) => F(n + 1) = With(cs, sees, n + 1, F(n))
  BY <1>00, <1>01
<1>1. 0 \in P
  <2>1. <<>> \in Seq(T) /\ Len(<<>>) = 0 /\ Members(<<>>) = {}
    BY DEF Members
  <2>2. F(0) = <<>>
    BY <1>0
  <2>3. F(0) \in Seq(T) /\ Len(F(0)) = 0 /\ Members(F(0)) = {}
    BY <2>1, <2>2, Zenon
  <2> QED BY <2>3
<1>2. ASSUME NEW n \in Nat, n \in P PROVE n + 1 \in P
  <2> SUFFICES ASSUME n + 1 \in 0 .. Len(cs)
               PROVE  F(n + 1) \in Seq(T) /\ Len(F(n + 1)) <= n + 1 /\ Members(F(n + 1)) \subseteq Members(cs) \cap sees
    OBVIOUS
  <2> DEFINE s == F(n)
             x == cs[n + 1]
  <2>1. s \in Seq(T) /\ Len(s) <= n /\ Members(s) \subseteq Members(cs) \cap sees /\ Len(s) \in Nat
    BY <1>0, <1>2
  <2>2. F(n + 1) = IF x \in sees THEN <<x>> \o s ELSE s
    BY <1>0 DEF With
  <2>3. x \in T /\ x \in Members(cs)
    BY <1>0 DEF Members
  <2> HIDE DEF s, x
  <2>4. <<x>> \o s \in Seq(T) /\ Len(<<x>> \o s) = Len(s) + 1 /\ Members(<<x>> \o s) = Members(s) \cup {x}
    BY <2>1, <2>3, FirstIs
  <2>5. CASE x \in sees
    <3> DEFINE z == <<x>> \o s
    <3>1. F(n + 1) = z /\ z \in Seq(T) /\ Len(z) = Len(s) + 1 /\ Members(z) = Members(s) \cup {x}
      BY <2>2, <2>4, <2>5
    <3> HIDE DEF z
    <3> QED BY <2>1, <2>3, <2>5, <3>1
  <2>6. CASE x \notin sees
    BY <2>1, <2>2, <2>6
  <2> QED BY <2>5, <2>6
<1> HIDE DEF P
<1>3. Nat \subseteq P
  BY <1>1, <1>2, AllNumbers
<1> QED BY <1>0, <1>3 DEF P, F

\* Sight depends on nothing but who is seen of them.
LEMMA SightSame ==
  ASSUME NEW T, NEW cs \in Seq(T), NEW ds \in Seq(T), NEW sees, NEW sees2, NEW m \in Nat, m <= Len(cs), m <= Len(ds),
         \A k \in 1 .. m : cs[k] = ds[k] /\ (cs[k] \in sees <=> ds[k] \in sees2)
  PROVE  Sight(cs, sees, m) = Sight(ds, sees2, m)
<1> DEFINE P == {n \in Nat : n <= m => Sight(cs, sees, n) = Sight(ds, sees2, n)}
<1>00. Len(cs) \in Nat /\ Len(ds) \in Nat
  OBVIOUS
<1>01. Sight(cs, sees, 0) = <<>> /\ \A n \in Nat : n + 1 \in 0 .. Len(cs) => Sight(cs, sees, n + 1) = With(cs, sees, n + 1, Sight(cs, sees, n))
  BY SightIs
<1>02. Sight(ds, sees2, 0) = <<>> /\ \A n \in Nat : n + 1 \in 0 .. Len(ds) => Sight(ds, sees2, n + 1) = With(ds, sees2, n + 1, Sight(ds, sees2, n))
  BY SightIs
<1>0. /\ Sight(cs, sees, 0) = <<>> /\ Sight(ds, sees2, 0) = <<>> /\ Len(cs) \in Nat /\ Len(ds) \in Nat
      /\ \A n \in Nat : n + 1 \in 0 .. Len(cs) => Sight(cs, sees, n + 1) = With(cs, sees, n + 1, Sight(cs, sees, n))
      /\ \A n \in Nat : n + 1 \in 0 .. Len(ds) => Sight(ds, sees2, n + 1) = With(ds, sees2, n + 1, Sight(ds, sees2, n))
  BY <1>00, <1>01, <1>02
<1>1. 0 \in P
  BY <1>0
<1>2. ASSUME NEW n \in Nat, n \in P PROVE n + 1 \in P
  <2> SUFFICES ASSUME n + 1 <= m PROVE Sight(cs, sees, n + 1) = Sight(ds, sees2, n + 1)
    OBVIOUS
  <2>1. n + 1 \in 0 .. Len(cs) /\ n + 1 \in 0 .. Len(ds) /\ n + 1 \in 1 .. m /\ n <= m
    BY <1>0
  <2>2. Sight(cs, sees, n) = Sight(ds, sees2, n)
    BY <1>2, <2>1
  <2> QED BY <1>0, <2>1, <2>2 DEF With
<1> HIDE DEF P
<1>3. Nat \subseteq P
  BY <1>1, <1>2, AllNumbers
<1> QED BY <1>3 DEF P

LEMMA VisibleSame ==
  ASSUME NEW T, NEW cs \in Seq(T), NEW sees, NEW sees2, \A x \in Members(cs) : x \in sees <=> x \in sees2
  PROVE  G!Visible(cs, sees) = G!Visible(cs, sees2)
<1>1. Len(cs) \in Nat /\ \A k \in 1 .. Len(cs) : cs[k] \in sees <=> cs[k] \in sees2
  BY DEF Members
<1>2. Sight(cs, sees, Len(cs)) = Sight(cs, sees2, Len(cs))
  BY <1>1, SightSame
<1> QED BY <1>2, SightIs

\* Who hides is out of sight, and the others are where they were.
LEMMA VisibleHides ==
  ASSUME NEW T, NEW cs \in Seq(T), Once(cs), NEW sees, NEW c \in Members(cs)
  PROVE  \E i : Gets(G!Visible(cs, sees \ {c}), G!Visible(cs, sees \cup {c}), i, c)
<1> DEFINE A(n) == Sight(cs, sees \ {c}, n)
           B(n) == Sight(cs, sees \cup {c}, n)
<1>00. Len(cs) \in Nat
  OBVIOUS
<1>01. /\ A(0) = <<>> /\ G!Visible(cs, sees \ {c}) = A(Len(cs))
       /\ \A n \in Nat : n + 1 \in 0 .. Len(cs) => A(n + 1) = With(cs, sees \ {c}, n + 1, A(n))
  BY SightIs
<1>02. /\ B(0) = <<>> /\ G!Visible(cs, sees \cup {c}) = B(Len(cs))
       /\ \A n \in Nat : n + 1 \in 0 .. Len(cs) => B(n + 1) = With(cs, sees \cup {c}, n + 1, B(n))
  BY SightIs
<1>0. /\ Len(cs) \in Nat /\ A(0) = <<>> /\ B(0) = <<>>
      /\ G!Visible(cs, sees \ {c}) = A(Len(cs)) /\ G!Visible(cs, sees \cup {c}) = B(Len(cs))
      /\ \A n \in Nat : n + 1 \in 0 .. Len(cs) => A(n + 1) = With(cs, sees \ {c}, n + 1, A(n))
      /\ \A n \in Nat : n + 1 \in 0 .. Len(cs) => B(n + 1) = With(cs, sees \cup {c}, n + 1, B(n))
  <2> HIDE DEF A, B
  <2> QED BY <1>00, <1>01, <1>02
<1>1. \A n \in 0 .. Len(cs) : A(n) \in Seq(T) /\ B(n) \in Seq(T)
  BY SightType
<1>2. PICK p \in 1 .. Len(cs) : cs[p] = c
  BY DEF Members
<1>3. \A k \in 1 .. Len(cs) : k # p => cs[k] # c
  BY <1>2 DEF Once
<1>4. A(p - 1) = B(p - 1)
  <2> DEFINE m == p - 1
  <2>1. m \in Nat /\ m <= Len(cs) /\ \A k \in 1 .. m : k \in 1 .. Len(cs) /\ k # p
    BY <1>0, <1>2
  <2> HIDE DEF m
  <2>2. \A k \in 1 .. m : cs[k] = cs[k] /\ (cs[k] \in sees \ {c} <=> cs[k] \in sees \cup {c})
    BY <1>3, <2>1
  <2>3. Sight(cs, sees \ {c}, m) = Sight(cs, sees \cup {c}, m)
    BY <2>1, <2>2, SightSame
  <2> QED BY <2>3 DEF m
<1> HIDE DEF A, B
<1> DEFINE P == {n \in Nat : n \in 0 .. Len(cs) /\ n >= p => \E i : Gets(A(n), B(n), i, c)}
<1>5. 0 \in P
  BY <1>2
<1>6. ASSUME NEW n \in Nat, n \in P PROVE n + 1 \in P
  <2> SUFFICES ASSUME n + 1 \in 0 .. Len(cs), n + 1 >= p PROVE \E i : Gets(A(n + 1), B(n + 1), i, c)
    OBVIOUS
  <2> DEFINE x == cs[n + 1]
             a == A(n)
             b == B(n)
  <2>0. n \in 0 .. Len(cs) /\ n + 1 \in 1 .. Len(cs)
    BY <1>0
  <2>1. A(n + 1) = (IF x \in sees \ {c} THEN <<x>> \o a ELSE a) /\ B(n + 1) = (IF x \in sees \cup {c} THEN <<x>> \o b ELSE b)
    BY <1>0 DEF With
  <2>2. a \in Seq(T) /\ b \in Seq(T) /\ x \in T
    BY <1>1, <2>0
  <2>3. CASE n + 1 = p
    <3>1. n = p - 1 /\ x = c /\ a = b
      BY <1>2, <1>4, <2>3
    <3> HIDE DEF x, a, b
    <3>2. Gets(a, <<x>> \o a, 1, x)
      BY <2>2, GetsFirst
    <3>3. A(n + 1) = a /\ B(n + 1) = <<x>> \o a
      BY <2>1, <3>1
    <3> QED BY <3>1, <3>2, <3>3
  <2>4. CASE n + 1 # p
    <3>1. n >= p /\ x # c
      BY <1>2, <1>3, <2>0, <2>4
    <3>2. PICK i : Gets(a, b, i, c)
      BY <1>6, <2>0, <3>1
    <3> HIDE DEF x, a, b
    <3>3. CASE x \in sees
      <4> DEFINE e == <<x>>
      <4>1. e \in Seq(T)
        BY <2>2
      <4>2. A(n + 1) = e \o a /\ B(n + 1) = e \o b
        BY <2>1, <3>1, <3>3
      <4> HIDE DEF e
      <4>3. Gets(e \o a, e \o b, Len(e) + i, c)
        BY <2>2, <3>2, <4>1, GetsAfter
      <4> QED BY <4>2, <4>3
    <3>4. CASE x \notin sees
      BY <2>1, <3>1, <3>2, <3>4
    <3> QED BY <3>3, <3>4
  <2> QED BY <2>3, <2>4
<1> HIDE DEF P
<1>7. Nat \subseteq P
  BY <1>5, <1>6, AllNumbers
<1>8. Len(cs) \in P /\ Len(cs) \in 0 .. Len(cs) /\ Len(cs) >= p
  BY <1>0, <1>2, <1>7
<1> QED BY <1>0, <1>8 DEF P

\* Who goes is not there to be seen.
LEMMA VisibleLeaves ==
  ASSUME NEW T, NEW cs \in Seq(T), NEW ds \in Seq(T), NEW p, NEW c, Gets(ds, cs, p, c), Once(cs), NEW sees
  PROVE  G!Visible(ds, sees) = G!Visible(cs, sees \ {c})
<1> DEFINE A(n) == Sight(ds, sees, n)
           B(n) == Sight(cs, sees \ {c}, n)
<1>00. Len(cs) \in Nat /\ Len(ds) \in Nat /\ Len(cs) = Len(ds) + 1
  BY DEF Gets
<1>01. /\ G!Visible(ds, sees) = A(Len(ds))
       /\ \A n \in Nat : n + 1 \in 0 .. Len(ds) => A(n + 1) = With(ds, sees, n + 1, A(n))
  BY SightIs
<1>02. /\ G!Visible(cs, sees \ {c}) = B(Len(cs))
       /\ \A n \in Nat : n + 1 \in 0 .. Len(cs) => B(n + 1) = With(cs, sees \ {c}, n + 1, B(n))
  BY SightIs
<1>0. /\ Len(cs) \in Nat /\ Len(ds) \in Nat /\ Len(cs) = Len(ds) + 1
      /\ G!Visible(ds, sees) = A(Len(ds)) /\ G!Visible(cs, sees \ {c}) = B(Len(cs))
      /\ \A n \in Nat : n + 1 \in 0 .. Len(ds) => A(n + 1) = With(ds, sees, n + 1, A(n))
      /\ \A n \in Nat : n + 1 \in 0 .. Len(cs) => B(n + 1) = With(cs, sees \ {c}, n + 1, B(n))
  <2> HIDE DEF A, B
  <2> QED BY <1>00, <1>01, <1>02
<1>1. p \in 1 .. Len(cs) /\ cs[p] = c /\ (\A k \in 1 .. Len(ds) : cs[Past(k, p)] = ds[k] /\ ds[k] # c)
  <2>1. c \notin Members(ds)
    BY GetsMembers
  <2> QED BY <2>1 DEF Gets, Members
<1>2. A(p - 1) = B(p - 1)
  <2> DEFINE m == p - 1
  <2>1. m \in Nat /\ m <= Len(cs) /\ m <= Len(ds) /\ \A k \in 1 .. m : k \in 1 .. Len(ds) /\ Past(k, p) = k
    BY <1>0, <1>1 DEF Past
  <2> HIDE DEF m
  <2>2. \A k \in 1 .. m : ds[k] = cs[k] /\ (ds[k] \in sees <=> cs[k] \in sees \ {c})
    BY <1>1, <2>1
  <2>3. Sight(ds, sees, m) = Sight(cs, sees \ {c}, m)
    BY <2>1, <2>2, SightSame
  <2> QED BY <2>3 DEF m
<1> HIDE DEF A, B
<1> DEFINE P == {n \in Nat : n \in 0 .. Len(ds) /\ n + 1 >= p => A(n) = B(n + 1)}
<1>3. B(p) = B(p - 1)
  <2>1. p - 1 \in Nat /\ (p - 1) + 1 = p /\ p \in 0 .. Len(cs)
    BY <1>1
  <2>2. B(p) = With(cs, sees \ {c}, p, B(p - 1))
    BY <1>0, <2>1
  <2> QED BY <1>1, <2>2 DEF With
<1>4. 0 \in P
  <2> SUFFICES ASSUME 1 >= p PROVE A(0) = B(1)
    BY <1>1
  <2>1. p = 1 /\ p - 1 = 0
    BY <1>1
  <2> QED BY <1>2, <1>3, <2>1
<1>5. ASSUME NEW n \in Nat, n \in P PROVE n + 1 \in P
  <2> SUFFICES ASSUME n + 1 \in 0 .. Len(ds), (n + 1) + 1 >= p PROVE A(n + 1) = B((n + 1) + 1)
    OBVIOUS
  <2>1. CASE (n + 1) + 1 = p
    <3>1. n + 1 = p - 1
      BY <1>1, <2>1
    <3> QED BY <1>2, <1>3, <2>1, <3>1
  <2>2. CASE (n + 1) + 1 # p
    <3>1. n + 1 >= p /\ n \in 0 .. Len(ds) /\ n + 1 \in Nat /\ (n + 1) + 1 \in 0 .. Len(cs) /\ n + 1 \in 1 .. Len(ds) /\ Past(n + 1, p) = (n + 1) + 1
      BY <1>0, <1>1, <2>2 DEF Past
    <3>2. A(n) = B(n + 1)
      BY <1>5, <3>1
    <3>3. cs[(n + 1) + 1] = ds[n + 1] /\ ds[n + 1] # c
      BY <1>1, <3>1
    <3>4. A(n + 1) = With(ds, sees, n + 1, A(n)) /\ B((n + 1) + 1) = With(cs, sees \ {c}, (n + 1) + 1, B(n + 1))
      BY <1>0, <3>1
    <3> QED BY <3>2, <3>3, <3>4 DEF With
  <2> QED BY <2>1, <2>2
<1> HIDE DEF P
<1>6. Nat \subseteq P
  BY <1>4, <1>5, AllNumbers
<1>7. Len(ds) \in P /\ Len(ds) \in 0 .. Len(ds) /\ Len(ds) + 1 >= p
  BY <1>0, <1>1, <1>6
<1> QED BY <1>0, <1>7 DEF P

LEMMA VisibleEnters ==
  ASSUME NEW T, NEW cs \in Seq(T), NEW c \in T, NEW sees, c \in sees
  PROVE  G!Visible(Append(cs, c), sees) = <<c>> \o G!Visible(cs, sees)
<1> DEFINE ds == Append(cs, c)
           n == Len(cs)
<1>1. ds \in Seq(T) /\ Len(ds) = n + 1 /\ ds[n + 1] = c /\ n \in Nat /\ \A k \in 1 .. n : ds[k] = cs[k]
  OBVIOUS
<1> HIDE DEF ds
<1>2. Sight(ds, sees, n) = Sight(cs, sees, n)
  BY <1>1, SightSame
<1>3. n + 1 \in 0 .. Len(ds) /\ n \in Nat
  BY <1>1
<1>4. Sight(ds, sees, n + 1) = With(ds, sees, n + 1, Sight(ds, sees, n))
  BY <1>1, <1>3, SightIs
<1>5. G!Visible(ds, sees) = Sight(ds, sees, n + 1) /\ G!Visible(cs, sees) = Sight(cs, sees, n)
  BY <1>1, SightIs
<1> QED BY <1>1, <1>2, <1>4, <1>5 DEF With, ds

-----------------------------------------------------------------------------
(* The whole stack, and the flags of its items.                            *)

Lying == Grounds \cup Tops \cup Downs \cup Walkers

\* A view of s that is all of it that fits, when full.
ViewGood(v, s, full) == v \in Seq(Lying) /\ Clips(v, s) /\ (full => v = G!First(s))

LEMMA ViewGets ==
  ASSUME TileMax \in Nat, NEW s \in Seq(Lying), NEW z \in Seq(Lying), NEW x \in Lying, x \notin Members(s),
         Grown(s, z, x), NEW v, NEW full, ViewGood(v, s, full)
  PROVE  ViewGood(G!Inserted(v, G!Position(x, z), x), z, full)
<1>1. PICK i : Gets(s, z, i, x)
  BY DEF Grown
<1>2. G!Position(x, z) = i
  BY <1>1, PositionOf
<1>3. v \in Seq(Lying) /\ Clips(v, s) /\ (full => v = G!First(s))
  BY DEF ViewGood
<1>4. /\ G!Inserted(v, i, x) \in Seq(Lying) /\ Clips(G!Inserted(v, i, x), z)
      /\ v = G!First(s) => G!Inserted(v, i, x) = G!First(z)
  BY <1>1, <1>3, ClipsInserted
<1> QED BY <1>2, <1>3, <1>4 DEF ViewGood

LEMMA ViewLoses ==
  ASSUME TileMax \in Nat, NEW s \in Seq(Lying), NEW z \in Seq(Lying), NEW x \in Lying, x \notin Members(z),
         Grown(z, s, x), NEW v, NEW full, ViewGood(v, s, full)
  PROVE  ViewGood(G!Removed(v, G!Position(x, s)), z, full /\ Len(z) < TileMax)
<1>1. PICK i : Gets(z, s, i, x)
  BY DEF Grown
<1>2. G!Position(x, s) = i
  BY <1>1, PositionOf
<1>3. v \in Seq(Lying) /\ Clips(v, s) /\ (full => v = G!First(s))
  BY DEF ViewGood
<1>4. /\ G!Removed(v, i) \in Seq(Lying) /\ Clips(G!Removed(v, i), z)
      /\ v = G!First(s) /\ Len(z) < TileMax => G!Removed(v, i) = G!First(z)
  BY <1>1, <1>3, ClipsRemoved
<1> QED BY <1>2, <1>3, <1>4 DEF ViewGood

LEMMA ViewSwaps ==
  ASSUME TileMax \in Nat, NEW s \in Seq(Lying), NEW z \in Seq(Lying), NEW x, NEW y \in Lying, y \notin Members(s),
         Swapped(s, z, x, y), NEW v, NEW full, ViewGood(v, s, full)
  PROVE  ViewGood(G!Updated(v, G!Position(y, z), y), z, full)
<1>1. PICK i : Swaps(s, z, i, y)
  BY DEF Swapped
<1>2. G!Position(y, z) = i
  BY <1>1, PositionOf
<1>3. v \in Seq(Lying) /\ Clips(v, s) /\ (full => v = G!First(s))
  BY DEF ViewGood
<1>4. /\ G!Updated(v, i, y) \in Seq(Lying) /\ Clips(G!Updated(v, i, y), z)
      /\ v = G!First(s) => G!Updated(v, i, y) = G!First(z)
  BY <1>1, <1>3, ClipsUpdated
<1> QED BY <1>2, <1>3, <1>4 DEF ViewGood

LEMMA ViewRefreshed ==
  ASSUME TileMax \in Nat, NEW s \in Seq(Lying), NEW n \in Nat, Len(s) <= n, NEW v, NEW full,
         ViewGood(v, s, full /\ Len(s) < TileMax)
  PROVE  ViewGood(G!Refresh(v, n, s), s, full)
<1>0. Len(s) \in Nat
  OBVIOUS
<1>1. CASE n > TileMax - 2
  <2>1. G!Refresh(v, n, s) = G!First(s)
    BY <1>1 DEF G!Refresh
  <2> QED BY <2>1, ClipsFirst DEF ViewGood
<1>2. CASE ~(n > TileMax - 2)
  <2>1. G!Refresh(v, n, s) = v
    BY <1>2 DEF G!Refresh
  <2>2. Len(s) < TileMax
    BY <1>0, <1>2
  <2> QED BY <2>1, <2>2 DEF ViewGood
<1> QED BY <1>1, <1>2

LEMMA ViewWhole ==
  ASSUME TileMax \in Nat, NEW s \in Seq(Lying), NEW full PROVE ViewGood(G!First(s), s, full)
BY ClipsFirst DEF ViewGood

\* What happens to one of four parts happens to the whole.
Joined(a, b, c, d) == a \o b \o c \o d

LEMMA JoinedIs ==
  ASSUME NEW T, NEW a \in Seq(T), NEW b \in Seq(T), NEW c \in Seq(T), NEW d \in Seq(T)
  PROVE  /\ Joined(a, b, c, d) \in Seq(T)
         /\ Len(Joined(a, b, c, d)) = Len(a) + Len(b) + Len(c) + Len(d)
         /\ Members(Joined(a, b, c, d)) = Members(a) \cup Members(b) \cup Members(c) \cup Members(d)
<1> DEFINE x == a \o b
           y == x \o c
           z == y \o d
<1>1. x \in Seq(T) /\ Len(x) = Len(a) + Len(b) /\ Members(x) = Members(a) \cup Members(b)
  BY JoinIs
<1> HIDE DEF x
<1>5. x \in Seq(T)
  BY <1>1
<1>2. y \in Seq(T) /\ Len(y) = Len(x) + Len(c) /\ Members(y) = Members(x) \cup Members(c)
  BY <1>5, JoinIs
<1> HIDE DEF y
<1>6. y \in Seq(T)
  BY <1>2
<1>3. z \in Seq(T) /\ Len(z) = Len(y) + Len(d) /\ Members(z) = Members(y) \cup Members(d)
  BY <1>6, JoinIs
<1>4. Joined(a, b, c, d) = z
  BY DEF Joined, x, y
<1> HIDE DEF z
<1> QED BY <1>1, <1>2, <1>3, <1>4

LEMMA JoinedGrows ==
  ASSUME NEW T, NEW a \in Seq(T), NEW b \in Seq(T), NEW c \in Seq(T), NEW d \in Seq(T), NEW x, NEW z \in Seq(T)
  PROVE  /\ Grown(a, z, x) => Grown(Joined(a, b, c, d), Joined(z, b, c, d), x)
         /\ Grown(b, z, x) => Grown(Joined(a, b, c, d), Joined(a, z, c, d), x)
         /\ Grown(c, z, x) => Grown(Joined(a, b, c, d), Joined(a, b, z, d), x)
         /\ Grown(d, z, x) => Grown(Joined(a, b, c, d), Joined(a, b, c, z), x)
<1>1. ASSUME NEW p \in Seq(T), NEW q \in Seq(T), NEW r \in Seq(T), Grown(p, q, x)
      PROVE  Grown(p \o r, q \o r, x) /\ Grown(r \o p, r \o q, x)
  <2>1. PICK i : Gets(p, q, i, x)
    BY <1>1 DEF Grown
  <2>2. Gets(p \o r, q \o r, i, x) /\ Gets(r \o p, r \o q, Len(r) + i, x)
    BY <2>1, GetsBefore, GetsAfter
  <2> QED BY <2>2 DEF Grown
<1>2. \A p, q \in Seq(T) : p \o q \in Seq(T)
  OBVIOUS
<1>3. Grown(a, z, x) => Grown(Joined(a, b, c, d), Joined(z, b, c, d), x)
  BY <1>1, <1>2 DEF Joined
<1>4. Grown(b, z, x) => Grown(Joined(a, b, c, d), Joined(a, z, c, d), x)
  BY <1>1, <1>2 DEF Joined
<1>5. Grown(c, z, x) => Grown(Joined(a, b, c, d), Joined(a, b, z, d), x)
  BY <1>1, <1>2 DEF Joined
<1>6. Grown(d, z, x) => Grown(Joined(a, b, c, d), Joined(a, b, c, z), x)
  BY <1>1, <1>2 DEF Joined
<1> QED BY <1>3, <1>4, <1>5, <1>6

LEMMA JoinedSwapsFirst ==
  ASSUME NEW T, NEW a \in Seq(T), NEW b \in Seq(T), NEW c \in Seq(T), NEW d \in Seq(T), NEW x, NEW z \in Seq(T), NEW i,
         Swaps(a, z, i, x)
  PROVE  Swaps(Joined(a, b, c, d), Joined(z, b, c, d), i, x)
<1>1. \A p, q \in Seq(T) : p \o q \in Seq(T)
  OBVIOUS
<1>2. ASSUME NEW p \in Seq(T), NEW q \in Seq(T), NEW r \in Seq(T), Swaps(p, q, i, x) PROVE Swaps(p \o r, q \o r, i, x)
  BY <1>2, SwapsBefore
<1>3. Swaps(a \o b, z \o b, i, x)
  BY <1>2
<1>4. Swaps((a \o b) \o c, (z \o b) \o c, i, x)
  BY <1>1, <1>2, <1>3
<1>5. Swaps(((a \o b) \o c) \o d, ((z \o b) \o c) \o d, i, x)
  BY <1>1, <1>2, <1>4
<1> QED BY <1>5 DEF Joined

LEMMA JoinedSwaps ==
  ASSUME NEW T, NEW a \in Seq(T), NEW b \in Seq(T), NEW c \in Seq(T), NEW d \in Seq(T), NEW x, NEW y, NEW z \in Seq(T)
  PROVE  /\ Swapped(a, z, x, y) => Swapped(Joined(a, b, c, d), Joined(z, b, c, d), x, y)
         /\ Swapped(b, z, x, y) => Swapped(Joined(a, b, c, d), Joined(a, z, c, d), x, y)
         /\ Swapped(d, z, x, y) => Swapped(Joined(a, b, c, d), Joined(a, b, c, z), x, y)
<1>1. ASSUME NEW p \in Seq(T), NEW q \in Seq(T), NEW r \in Seq(T), Swapped(p, q, x, y)
      PROVE  Swapped(p \o r, q \o r, x, y) /\ Swapped(r \o p, r \o q, x, y)
  <2>1. PICK i : Swaps(p, q, i, y) /\ p[i] = x
    BY <1>1 DEF Swapped
  <2>0. Swaps(p, q, i, y)
    BY <2>1
  <2>2. Swapped(p \o r, q \o r, p[i], y)
    BY <2>0, SwapsBefore
  <2>3. Swapped(r \o p, r \o q, p[i], y)
    BY <2>0, SwapsAfter
  <2> QED BY <2>1, <2>2, <2>3
<1>2. \A p, q \in Seq(T) : p \o q \in Seq(T)
  OBVIOUS
<1>3. Swapped(a, z, x, y) => Swapped(Joined(a, b, c, d), Joined(z, b, c, d), x, y)
  BY <1>1, <1>2 DEF Joined
<1>4. Swapped(b, z, x, y) => Swapped(Joined(a, b, c, d), Joined(a, z, c, d), x, y)
  BY <1>1, <1>2 DEF Joined
<1>5. Swapped(d, z, x, y) => Swapped(Joined(a, b, c, d), Joined(a, b, c, z), x, y)
  BY <1>1, <1>2 DEF Joined
<1> QED BY <1>3, <1>4, <1>5

-----------------------------------------------------------------------------
(* What is kept of the items. *)

FlagsGood(H, fl, q) ==
  /\ fl \subseteq {"block", "field"}
  /\ "block" \in fl => H \cap (Blocking \cup Quest) # {}
  /\ ~q /\ H \cap Blocking # {} => "block" \in fl
  /\ "field" \in fl => H \cap Fields # {}
  /\ H \cap Quest # {} => q

LEMMA FlagsAdd ==
  ASSUME NEW H, NEW fl, NEW q \in BOOLEAN, FlagsGood(H, fl, q), NEW i, NEW r \in BOOLEAN, q \/ i \in Quest => r
  PROVE  FlagsGood(H \cup {i}, G!Flagged(fl, i), r)
BY DEF FlagsGood, G!Flagged

LEMMA FlagsRemove ==
  ASSUME NEW H, NEW fl, NEW q \in BOOLEAN, FlagsGood(H, fl, q), NEW i \in H
  PROVE  FlagsGood(H \ {i}, G!Unflagged(fl, i, H \ {i}), q)
BY DEF FlagsGood, G!Unflagged

LEMMA FlagsSwap ==
  ASSUME NEW H, NEW fl, NEW q \in BOOLEAN, FlagsGood(H, fl, q), NEW i \in H, NEW j, NEW r \in BOOLEAN, q \/ j \in Quest => r
  PROVE  FlagsGood((H \ {i}) \cup {j}, G!Flagged(G!Unflagged(fl, i, (H \ {i}) \cup {j}), j), r)
<1> DEFINE KK == (H \ {i}) \cup {j}
           fa == G!Unflagged(fl, i, KK)
           fb == G!Flagged(fa, j)
<1>1. fb \subseteq {"block", "field"}
  BY DEF FlagsGood, G!Flagged, G!Unflagged
<1>2. ASSUME "block" \in fb PROVE KK \cap (Blocking \cup Quest) # {}
  BY <1>2 DEF FlagsGood, G!Flagged, G!Unflagged
<1>3. ASSUME ~r, KK \cap Blocking # {} PROVE "block" \in fb
  BY <1>3 DEF FlagsGood, G!Flagged, G!Unflagged
<1>4. ASSUME "field" \in fb PROVE KK \cap Fields # {}
  BY <1>4 DEF FlagsGood, G!Flagged, G!Unflagged
<1>5. KK \cap Quest # {} => r
  BY DEF FlagsGood
<1> HIDE DEF KK, fb
<1>6. FlagsGood(KK, fb, r)
  BY <1>1, <1>2, <1>3, <1>4, <1>5 DEF FlagsGood
<1> QED BY <1>6 DEF KK, fb

-----------------------------------------------------------------------------
(* One tile, and an item that leaves it.                                   *)

Laids == [g : Grounds \cup {None}, t : Seq(Tops), d : Seq(Downs), fl : SUBSET {"block", "field"}, v : Seq(Lying)]
Laid(g, ts, ds, fl, v) == [g |-> g, t |-> ts, d |-> ds, fl |-> fl, v |-> v]
Held(t) == Members(G!Base(t.g)) \cup Members(t.t) \cup Members(t.d)
OneWet(s) == \A x, y \in Members(s) \cap Splashes : x = y
Rest(t) == t \in Laids /\ Once(t.t) /\ Once(t.d) /\ OneWet(t.t)
Walked == u3 \in Seq(Walkers) /\ Once(u3) /\ u6 \subseteq Walkers

TileGood(t, q, full) ==
  Rest(t) /\ FlagsGood(Held(t), t.fl, q) /\ ViewGood(t.v, G!StackOf(t), full)

LEMMA LaidIs ==
  ASSUME NEW t \in Laids
  PROVE  /\ t = Laid(t.g, t.t, t.d, t.fl, t.v)
         /\ t.g \in Grounds \cup {None} /\ t.t \in Seq(Tops) /\ t.d \in Seq(Downs)
         /\ t.fl \in SUBSET {"block", "field"} /\ t.v \in Seq(Lying)
BY DEF Laids, Laid

LEMMA LaidFields ==
  ASSUME NEW g, NEW ts, NEW ds, NEW fl, NEW v
  PROVE  LET t == Laid(g, ts, ds, fl, v)
         IN /\ t.g = g /\ t.t = ts /\ t.d = ds /\ t.fl = fl /\ t.v = v
            /\ \A x : [t EXCEPT !.g = x] = Laid(x, ts, ds, fl, v)
            /\ \A x : [t EXCEPT !.t = x] = Laid(g, x, ds, fl, v)
            /\ \A x : [t EXCEPT !.d = x] = Laid(g, ts, x, fl, v)
            /\ \A x : [t EXCEPT !.fl = x] = Laid(g, ts, ds, x, v)
            /\ \A x : [t EXCEPT !.v = x] = Laid(g, ts, ds, fl, x)
            /\ g \in Grounds \cup {None} /\ ts \in Seq(Tops) /\ ds \in Seq(Downs)
                 /\ fl \in SUBSET {"block", "field"} /\ v \in Seq(Lying) => t \in Laids
BY DEF Laids, Laid

LEMMA BaseIs ==
  ASSUME G!TileAssumption
  PROVE  /\ None \notin Grounds /\ G!Base(None) = <<>> /\ Members(G!Base(None)) = {}
         /\ \A g \in Grounds : /\ G!Base(g) = <<g>> /\ Members(G!Base(g)) = {g}
                               /\ Grown(G!Base(None), G!Base(g), g)
                               /\ \A h \in Grounds : Swapped(G!Base(g), G!Base(h), g, h)
         /\ \A g \in Grounds \cup {None} : G!Base(g) \in Seq(Lying) /\ Len(G!Base(g)) \in Nat
<1>0. None \notin Grounds
  BY DEF G!TileAssumption, G!Items
<1>1. G!Base(None) = <<>> /\ Members(<<>>) = {} /\ <<>> \in Seq(Lying) /\ Len(<<>>) = 0
  BY DEF G!Base, Members
<1>2. ASSUME NEW g \in Grounds
      PROVE  G!Base(g) = <<g>> /\ <<g>> \in Seq(Lying) /\ Len(<<g>>) = 1 /\ <<g>>[1] = g /\ Members(<<g>>) = {g}
  BY <1>0 DEF G!Base, Lying, Members
<1>3. ASSUME NEW g \in Grounds PROVE Gets(<<>>, <<g>>, 1, g)
  BY DEF Gets
<1>4. ASSUME NEW g \in Grounds, NEW h \in Grounds PROVE Swaps(<<g>>, <<h>>, 1, h)
  BY DEF Swaps
<1>5. ASSUME NEW g \in Grounds PROVE Grown(G!Base(None), G!Base(g), g)
  BY <1>1, <1>2, <1>3 DEF Grown
<1>6. ASSUME NEW g \in Grounds, NEW h \in Grounds PROVE Swapped(G!Base(g), G!Base(h), g, h)
  <2> DEFINE a == <<g>>
             b == <<h>>
  <2>1. G!Base(g) = a /\ G!Base(h) = b /\ Swaps(a, b, 1, h) /\ a[1] = g
    BY <1>2, <1>4
  <2> HIDE DEF a, b
  <2> QED BY <2>1 DEF Swapped
<1>7. ASSUME NEW g \in Grounds \cup {None} PROVE G!Base(g) \in Seq(Lying)
  BY <1>1, <1>2
<1>8. ASSUME NEW g \in Grounds \cup {None} PROVE Len(G!Base(g)) \in Nat
  BY <1>7
<1>9. ASSUME NEW g \in Grounds PROVE G!Base(g) = <<g>> /\ Members(G!Base(g)) = {g}
  BY <1>2
<1>10. Members(G!Base(None)) = {}
  BY <1>1
<1> QED BY <1>0, <1>1, <1>5, <1>6, <1>7, <1>8, <1>9, <1>10

LEMMA StackIs ==
  ASSUME G!TileAssumption, Walked, NEW t \in Laids
  PROVE  /\ G!StackOf(t) \in Seq(Lying)
         /\ G!StackOf(t) = Joined(G!Base(t.g), t.t, G!Visible(u3, u6), t.d)
         /\ Members(G!StackOf(t)) = Held(t) \cup Members(G!Visible(u3, u6))
         /\ \A i \in G!Items \ Held(t) : i \notin Members(G!StackOf(t))
         /\ G!ThingCount(t.g, t.t, u3, t.d) \in Nat /\ Len(G!StackOf(t)) <= G!ThingCount(t.g, t.t, u3, t.d)
         /\ G!ItemsOf(t) = Held(t)
         /\ G!Base(t.g) \in Seq(Lying) /\ t.t \in Seq(Lying) /\ G!Visible(u3, u6) \in Seq(Lying) /\ t.d \in Seq(Lying)
<1> DEFINE a == G!Base(t.g)
           c == G!Visible(u3, u6)
<1>1. a \in Seq(Lying) /\ Len(a) \in Nat
  BY BaseIs, LaidIs
<1>2. t.t \in Seq(Tops) /\ t.d \in Seq(Downs) /\ t.t \in Seq(Lying) /\ t.d \in Seq(Lying)
  <2>1. t.t \in Seq(Tops) /\ t.d \in Seq(Downs) /\ Tops \subseteq Lying /\ Downs \subseteq Lying
    BY LaidIs DEF Lying
  <2> QED BY <2>1
<1>3. u3 \in Seq(Walkers)
  BY DEF Walked
<1>4. c \in Seq(Walkers) /\ Len(c) <= Len(u3) /\ Members(c) \subseteq Members(u3) \cap u6
  BY <1>3, SightType
<1>5. c \in Seq(Lying)
  BY <1>4 DEF Lying
<1>6. G!StackOf(t) = Joined(a, t.t, c, t.d)
  BY DEF G!StackOf, G!Stack, Joined
<1> HIDE DEF a, c
<1>7. /\ Joined(a, t.t, c, t.d) \in Seq(Lying) /\ Len(Joined(a, t.t, c, t.d)) = Len(a) + Len(t.t) + Len(c) + Len(t.d)
      /\ Members(Joined(a, t.t, c, t.d)) = Members(a) \cup Members(t.t) \cup Members(c) \cup Members(t.d)
  <2> DEFINE b == t.t
             d == t.d
  <2>1. a \in Seq(Lying) /\ b \in Seq(Lying) /\ d \in Seq(Lying)
    BY <1>1, <1>2
  <2>2. a \in Seq(Lying)
    BY <2>1
  <2>3. b \in Seq(Lying)
    BY <2>1
  <2>4. d \in Seq(Lying)
    BY <2>1
  <2> HIDE DEF b, d
  <2>5. /\ Joined(a, b, c, d) \in Seq(Lying) /\ Len(Joined(a, b, c, d)) = Len(a) + Len(b) + Len(c) + Len(d)
        /\ Members(Joined(a, b, c, d)) = Members(a) \cup Members(b) \cup Members(c) \cup Members(d)
    BY <1>5, <2>2, <2>3, <2>4, JoinedIs
  <2> QED BY <2>5 DEF b, d
<1>8. Members(Joined(a, t.t, c, t.d)) = Held(t) \cup Members(c)
  BY <1>7 DEF Held, a
<1>9. \A i \in G!Items \ Held(t) : i \notin Held(t) \cup Members(c)
  <2>1. Members(c) \subseteq Walkers
    BY <1>4 DEF Walked
  <2> QED BY <2>1 DEF G!TileAssumption
<1>10. G!ThingCount(t.g, t.t, u3, t.d) \in Nat /\ Len(G!StackOf(t)) <= G!ThingCount(t.g, t.t, u3, t.d)
  <2>1. G!ThingCount(t.g, t.t, u3, t.d) = Len(a) + Len(t.t) + Len(u3) + Len(t.d)
    BY DEF G!ThingCount, a
  <2>2. Len(a) \in Nat /\ Len(t.t) \in Nat /\ Len(u3) \in Nat /\ Len(t.d) \in Nat /\ Len(c) \in Nat
    BY <1>1, <1>2, <1>3, <1>4
  <2>3. Len(G!StackOf(t)) = Len(a) + Len(t.t) + Len(c) + Len(t.d) /\ Len(c) <= Len(u3)
    BY <1>4, <1>6, <1>7
  <2> DEFINE n1 == Len(a)
             n2 == Len(t.t)
             n3 == Len(u3)
             n4 == Len(t.d)
             n5 == Len(c)
  <2>4. n1 \in Nat /\ n2 \in Nat /\ n3 \in Nat /\ n4 \in Nat /\ n5 \in Nat /\ n5 <= n3
    BY <2>2, <2>3
  <2> HIDE DEF n1, n2, n3, n4, n5
  <2>5. n1 + n2 + n3 + n4 \in Nat /\ n1 + n2 + n5 + n4 <= n1 + n2 + n3 + n4
    BY <2>4
  <2>6. G!ThingCount(t.g, t.t, u3, t.d) = n1 + n2 + n3 + n4 /\ Len(G!StackOf(t)) = n1 + n2 + n5 + n4
    BY <2>1, <2>3 DEF n1, n2, n3, n4, n5
  <2> QED BY <2>5, <2>6
<1>11. G!ItemsOf(t) = Held(t)
  <2>1. G!Range(a) = Members(a) /\ G!Range(t.t) = Members(t.t) /\ G!Range(t.d) = Members(t.d)
    BY <1>1, <1>2, AtIs
  <2> QED BY <2>1 DEF G!ItemsOf, Held, a
<1> QED BY <1>1, <1>2, <1>5, <1>6, <1>7, <1>8, <1>9, <1>10, <1>11 DEF a, c

\* Taken out of the item lists; what is told of it, and what is kept.
LEMMA TakeOutIs ==
  ASSUME NEW t \in Laids, NEW i
  PROVE  LET r == Laid(IF t.g = i THEN None ELSE t.g, G!Without(t.t, i), G!Without(t.d, i), t.fl, t.v)
         IN G!TakeOut(t, i) = Laid(r.g, r.t, r.d, G!Unflagged(t.fl, i, G!ItemsOf(r)), G!Removed(t.v, G!Position(i, G!StackOf(t))))
<1> DEFINE g == IF t.g = i THEN None ELSE t.g
           ts == G!Without(t.t, i)
           ds == G!Without(t.d, i)
           r == Laid(g, ts, ds, t.fl, t.v)
           rest == [t EXCEPT !.g = IF @ = i THEN None ELSE @, !.t = G!Without(@, i), !.d = G!Without(@, i)]
           v == G!Removed(t.v, G!Position(i, G!StackOf(t)))
           f == G!Unflagged(t.fl, i, G!ItemsOf(r))
<1>1. t = Laid(t.g, t.t, t.d, t.fl, t.v)
  BY LaidIs
<1>2. rest = r
  <2>1. rest = [[[t EXCEPT !.g = g] EXCEPT !.t = ts] EXCEPT !.d = ds]
    OBVIOUS
  <2> HIDE DEF g, ts, ds, rest
  <2>2. [t EXCEPT !.g = g] = Laid(g, t.t, t.d, t.fl, t.v)
    BY <1>1 DEF Laid
  <2>3. [Laid(g, t.t, t.d, t.fl, t.v) EXCEPT !.t = ts] = Laid(g, ts, t.d, t.fl, t.v)
    BY LaidFields
  <2>4. [Laid(g, ts, t.d, t.fl, t.v) EXCEPT !.d = ds] = Laid(g, ts, ds, t.fl, t.v)
    BY LaidFields
  <2> QED BY <2>1, <2>2, <2>3, <2>4
<1>3. G!TakeOut(t, i) = [rest EXCEPT !.fl = G!Unflagged(@, i, G!ItemsOf(rest)), !.v = G!Removed(@, G!Position(i, G!StackOf(t)))]
  BY DEF G!TakeOut
<1>4. r.fl = t.fl /\ r.v = t.v /\ r.g = g /\ r.t = ts /\ r.d = ds
  BY DEF Laid
<1>5. G!TakeOut(t, i) = [[r EXCEPT !.fl = f] EXCEPT !.v = v]
  <2>1. G!TakeOut(t, i) = [[r EXCEPT !.fl = G!Unflagged(r.fl, i, G!ItemsOf(r))] EXCEPT !.v = G!Removed(r.v, G!Position(i, G!StackOf(t)))]
    <3> HIDE DEF rest, r
    <3> QED BY <1>2, <1>3
  <2> HIDE DEF r, rest
  <2> QED BY <1>4, <2>1
<1> HIDE DEF g, ts, ds, f, v, rest
<1>6. [[r EXCEPT !.fl = f] EXCEPT !.v = v] = Laid(g, ts, ds, f, v)
  <2>1. [Laid(g, ts, ds, t.fl, t.v) EXCEPT !.fl = f] = Laid(g, ts, ds, f, t.v)
    BY LaidFields
  <2>2. [Laid(g, ts, ds, f, t.v) EXCEPT !.v = v] = Laid(g, ts, ds, f, v)
    BY LaidFields
  <2> QED BY <2>1, <2>2
<1> QED BY <1>4, <1>5, <1>6 DEF f, v, g, ts, ds

LEMMA RefreshedGood ==
  ASSUME G!TileAssumption, Walked, NEW t \in Laids, NEW q, NEW full, Rest(t), FlagsGood(Held(t), t.fl, q),
         ViewGood(t.v, G!StackOf(t), full /\ Len(G!StackOf(t)) < TileMax)
  PROVE  /\ TileGood(G!Refreshed(t), q, full) /\ G!Refreshed(t).g = t.g /\ G!Refreshed(t).t = t.t
         /\ Held(G!Refreshed(t)) = Held(t)
<1> DEFINE n == G!ThingCount(t.g, t.t, u3, t.d)
           s == G!StackOf(t)
           v == G!Refresh(t.v, n, s)
           z == Laid(t.g, t.t, t.d, t.fl, v)
<1>1. s \in Seq(Lying) /\ n \in Nat /\ Len(s) <= n
  BY StackIs
<1>2. TileMax \in Nat
  BY DEF G!TileAssumption
<1>3. G!Refreshed(t) = z
  <2>1. G!Refreshed(t) = [t EXCEPT !.v = v]
    BY DEF G!Refreshed
  <2>2. t = Laid(t.g, t.t, t.d, t.fl, t.v)
    BY LaidIs
  <2> HIDE DEF v
  <2> QED BY <2>1, <2>2, LaidFields
<1>4. ViewGood(v, s, full)
  <2> HIDE DEF n, s
  <2>1. ViewGood(t.v, s, full /\ Len(s) < TileMax)
    BY DEF s
  <2> QED BY <1>1, <1>2, <2>1, ViewRefreshed
<1>5. z \in Laids /\ z.g = t.g /\ z.t = t.t /\ z.d = t.d /\ z.fl = t.fl /\ z.v = v
  <2>1. v \in Seq(Lying)
    BY <1>4 DEF ViewGood
  <2> HIDE DEF v
  <2> QED BY <2>1, LaidIs, LaidFields
<1> HIDE DEF z, v
<1>6. G!StackOf(z) = s
  BY <1>5 DEF G!StackOf, s
<1>7. Held(z) = Held(t) /\ Rest(z)
  BY <1>5 DEF Held, Rest
<1> HIDE DEF s
<1>8. TileGood(z, q, full)
  BY <1>4, <1>5, <1>6, <1>7 DEF TileGood
<1> QED BY <1>3, <1>5, <1>7, <1>8

LEMMA TakenOutGood ==
  ASSUME G!TileAssumption, Walked, NEW t, NEW q \in BOOLEAN, NEW full, TileGood(t, q, full), NEW i \in Held(t)
  PROVE  /\ TileGood(G!TakenOut(t, i), q, full)
         /\ Held(G!TakenOut(t, i)) = Held(t) \ {i} /\ Members(G!TakenOut(t, i).t) = Members(t.t) \ {i}
<1> DEFINE r == Laid(IF t.g = i THEN None ELSE t.g, G!Without(t.t, i), G!Without(t.d, i), t.fl, t.v)
           f == G!Unflagged(t.fl, i, G!ItemsOf(r))
           v == G!Removed(t.v, G!Position(i, G!StackOf(t)))
           z == Laid(r.g, r.t, r.d, f, v)
           c == G!Visible(u3, u6)
<1>0. Rest(t) /\ t \in Laids /\ FlagsGood(Held(t), t.fl, q) /\ ViewGood(t.v, G!StackOf(t), full) /\ Once(t.t) /\ Once(t.d) /\ OneWet(t.t)
  BY DEF TileGood, Rest
<1>1. G!TakeOut(t, i) = z
  BY <1>0, TakeOutIs
<1>2. /\ t.g \in Grounds \cup {None} /\ t.t \in Seq(Tops) /\ t.d \in Seq(Downs) /\ t.fl \in SUBSET {"block", "field"} /\ t.v \in Seq(Lying)
      /\ t = Laid(t.g, t.t, t.d, t.fl, t.v)
  BY <1>0, LaidIs
<1>3. Members(t.t) \subseteq Tops /\ Members(t.d) \subseteq Downs
  BY <1>2 DEF Members
<1>4. /\ G!Without(t.t, i) \in Seq(Tops)
      /\ i \in Members(t.t) => \E k : Gets(G!Without(t.t, i), t.t, k, i)
      /\ i \notin Members(t.t) => G!Without(t.t, i) = t.t
  BY <1>2, WithoutGets
<1>5. /\ G!Without(t.d, i) \in Seq(Downs)
      /\ i \in Members(t.d) => \E k : Gets(G!Without(t.d, i), t.d, k, i)
      /\ i \notin Members(t.d) => G!Without(t.d, i) = t.d
  BY <1>2, WithoutGets
<1>6. Members(r.t) = Members(t.t) \ {i} /\ Once(r.t) /\ r.t = G!Without(t.t, i) /\ r.t \in Seq(Tops)
  <2>1. r.t = G!Without(t.t, i)
    BY LaidFields
  <2> HIDE DEF r
  <2> QED BY <1>0, <1>2, <1>4, <2>1, GetsMembers
<1>7. Members(r.d) = Members(t.d) \ {i} /\ Once(r.d) /\ r.d = G!Without(t.d, i) /\ r.d \in Seq(Downs)
  <2>1. r.d = G!Without(t.d, i)
    BY LaidFields
  <2> HIDE DEF r
  <2> QED BY <1>0, <1>2, <1>5, <2>1, GetsMembers
<1>8. r.g = (IF t.g = i THEN None ELSE t.g) /\ r.g \in Grounds \cup {None} /\ r.v = t.v /\ r.fl = t.fl
  BY <1>2, LaidFields
<1>9. r \in Laids
  BY <1>2, <1>6, <1>7, <1>8, LaidFields
<1> HIDE DEF r
<1>10. i # None /\ i \in G!Items
  BY <1>2, <1>3, BaseIs DEF Held, G!Items, G!TileAssumption
<1>11. Members(G!Base(r.g)) = Members(G!Base(t.g)) \ {i}
  BY <1>2, <1>8, <1>10, BaseIs
<1>12. Held(r) = Held(t) \ {i}
  BY <1>6, <1>7, <1>11 DEF Held
<1>13. Grown(G!StackOf(r), G!StackOf(t), i)
  <2>1. /\ G!StackOf(r) = Joined(G!Base(r.g), r.t, c, r.d) /\ G!StackOf(t) = Joined(G!Base(t.g), t.t, c, t.d)
        /\ G!Base(r.g) \in Seq(Lying) /\ r.t \in Seq(Lying) /\ r.d \in Seq(Lying) /\ c \in Seq(Lying)
        /\ G!Base(t.g) \in Seq(Lying) /\ t.t \in Seq(Lying) /\ t.d \in Seq(Lying)
    BY <1>0, <1>9, StackIs
  <2> HIDE DEF c
  <2>2. CASE i = t.g
    <3>1. i \in Grounds /\ i \notin Members(t.t) /\ i \notin Members(t.d)
      BY <1>2, <1>3, <1>10, <2>2 DEF G!TileAssumption
    <3>2. r.t = t.t /\ r.d = t.d /\ r.g = None
      BY <1>4, <1>5, <1>6, <1>7, <1>8, <2>2, <3>1
    <3>3. Grown(G!Base(r.g), G!Base(t.g), i)
      BY <2>2, <3>1, <3>2, BaseIs
    <3>4. Grown(Joined(G!Base(r.g), r.t, c, r.d), Joined(G!Base(t.g), r.t, c, r.d), i)
      BY <2>1, <3>3, JoinedGrows
    <3> QED BY <2>1, <3>2, <3>4
  <2>3. CASE i \in Members(t.t)
    <3>1. i \notin Grounds /\ i \notin Members(t.d) /\ t.g # i
      BY <1>2, <1>3, <1>10, <2>3 DEF G!TileAssumption
    <3>2. r.d = t.d /\ r.g = t.g
      BY <1>5, <1>7, <1>8, <3>1
    <3>3. Grown(r.t, t.t, i)
      BY <1>4, <1>6, <2>3 DEF Grown
    <3>4. Grown(Joined(G!Base(r.g), r.t, c, r.d), Joined(G!Base(r.g), t.t, c, r.d), i)
      BY <2>1, <3>3, JoinedGrows
    <3> QED BY <2>1, <3>2, <3>4
  <2>4. CASE i \in Members(t.d)
    <3>1. i \notin Grounds /\ i \notin Members(t.t) /\ t.g # i
      BY <1>2, <1>3, <1>10, <2>4 DEF G!TileAssumption
    <3>2. r.t = t.t /\ r.g = t.g
      BY <1>4, <1>6, <1>8, <3>1
    <3>3. Grown(r.d, t.d, i)
      BY <1>5, <1>7, <2>4 DEF Grown
    <3>4. Grown(Joined(G!Base(r.g), r.t, c, r.d), Joined(G!Base(r.g), r.t, c, t.d), i)
      BY <2>1, <3>3, JoinedGrows
    <3> QED BY <2>1, <3>2, <3>4
  <2> QED BY <1>2, <2>2, <2>3, <2>4, BaseIs DEF Held
<1>14. ViewGood(v, G!StackOf(r), full /\ Len(G!StackOf(r)) < TileMax)
  <2>1. G!StackOf(r) \in Seq(Lying) /\ G!StackOf(t) \in Seq(Lying) /\ i \notin Members(G!StackOf(r))
    BY <1>0, <1>9, <1>10, <1>12, StackIs
  <2>2. TileMax \in Nat /\ i \in Lying
    BY <1>10 DEF G!TileAssumption, Lying, G!Items
  <2> QED BY <1>0, <1>13, <2>1, <2>2, ViewLoses
<1>15. FlagsGood(Held(r), f, q) /\ f \in SUBSET {"block", "field"}
  <2>1. G!ItemsOf(r) = Held(t) \ {i}
    BY <1>9, <1>12, StackIs
  <2>2. FlagsGood(Held(t) \ {i}, f, q)
    BY <1>0, <2>1, FlagsRemove
  <2> QED BY <1>12, <2>2 DEF FlagsGood
<1>16. z \in Laids /\ z.g = r.g /\ z.t = r.t /\ z.d = r.d /\ z.fl = f /\ z.v = v
  <2>1. v \in Seq(Lying)
    BY <1>14 DEF ViewGood
  <2> HIDE DEF v, f
  <2> QED BY <1>6, <1>7, <1>8, <1>15, <2>1, LaidFields
<1> HIDE DEF z, v, f
<1>17. Held(z) = Held(r) /\ G!StackOf(z) = G!StackOf(r)
  BY <1>16 DEF Held, G!StackOf
<1>18. Rest(z)
  BY <1>0, <1>6, <1>7, <1>16 DEF Rest, OneWet
<1>19. TileGood(G!Refreshed(z), q, full) /\ G!Refreshed(z).t = z.t /\ Held(G!Refreshed(z)) = Held(z)
  BY <1>14, <1>15, <1>16, <1>17, <1>18, RefreshedGood
<1>20. G!TakenOut(t, i) = G!Refreshed(z)
  BY <1>1 DEF G!TakenOut
<1> QED BY <1>6, <1>12, <1>16, <1>17, <1>19, <1>20

-----------------------------------------------------------------------------
(* Items that come.                                                        *)

LEMMA LaidEdited ==
  ASSUME NEW t \in Laids, NEW x
  PROVE  /\ [t EXCEPT !.g = x] = Laid(x, t.t, t.d, t.fl, t.v)
         /\ [t EXCEPT !.t = x] = Laid(t.g, x, t.d, t.fl, t.v)
         /\ [t EXCEPT !.d = x] = Laid(t.g, t.t, x, t.fl, t.v)
<1> DEFINE g == t.g
           ts == t.t
           ds == t.d
           fl == t.fl
           v == t.v
<1>1. t = Laid(g, ts, ds, fl, v)
  BY LaidIs
<1> HIDE DEF g, ts, ds, fl, v
<1>2. [t EXCEPT !.g = x] = Laid(x, ts, ds, fl, v)
  BY <1>1 DEF Laid
<1>3. [t EXCEPT !.t = x] = Laid(g, x, ds, fl, v)
  BY <1>1 DEF Laid
<1>4. [t EXCEPT !.d = x] = Laid(g, ts, x, fl, v)
  BY <1>1 DEF Laid
<1> QED BY <1>2, <1>3, <1>4 DEF g, ts, ds, fl, v

LEMMA StackMoves ==
  ASSUME G!TileAssumption, Walked, NEW t \in Laids, NEW z \in Laids, NEW x, NEW y
  PROVE  /\ \/ Grown(G!Base(t.g), G!Base(z.g), x) /\ z.t = t.t /\ z.d = t.d
            \/ z.g = t.g /\ Grown(t.t, z.t, x) /\ z.d = t.d
            \/ z.g = t.g /\ z.t = t.t /\ Grown(t.d, z.d, x)
            => Grown(G!StackOf(t), G!StackOf(z), x)
         /\ \/ Swapped(G!Base(t.g), G!Base(z.g), x, y) /\ z.t = t.t /\ z.d = t.d
            \/ z.g = t.g /\ Swapped(t.t, z.t, x, y) /\ z.d = t.d
            \/ z.g = t.g /\ z.t = t.t /\ Swapped(t.d, z.d, x, y)
            => Swapped(G!StackOf(t), G!StackOf(z), x, y)
         /\ \A i : Swaps(G!Base(t.g), G!Base(z.g), i, y) /\ z.t = t.t /\ z.d = t.d => Swaps(G!StackOf(t), G!StackOf(z), i, y)
<1> DEFINE a == G!Base(t.g)
           b == t.t
           c == G!Visible(u3, u6)
           d == t.d
           a2 == G!Base(z.g)
           b2 == z.t
           d2 == z.d
<1>1. /\ G!StackOf(t) = Joined(a, b, c, d) /\ a \in Seq(Lying) /\ b \in Seq(Lying) /\ c \in Seq(Lying) /\ d \in Seq(Lying)
      /\ G!StackOf(z) = Joined(a2, b2, c, d2) /\ a2 \in Seq(Lying) /\ b2 \in Seq(Lying) /\ d2 \in Seq(Lying)
  BY StackIs
<1>2. z.g = t.g => a2 = a
  OBVIOUS
<1> HIDE DEF a, b, c, d, a2, b2, d2
<1>3. Grown(a, a2, x) /\ b2 = b /\ d2 = d => Grown(G!StackOf(t), G!StackOf(z), x)
  <2> SUFFICES ASSUME Grown(a, a2, x), b2 = b, d2 = d PROVE Grown(Joined(a, b, c, d), Joined(a2, b, c, d), x)
    BY <1>1
  <2> QED BY <1>1, JoinedGrows
<1>4. a2 = a /\ Grown(b, b2, x) /\ d2 = d => Grown(G!StackOf(t), G!StackOf(z), x)
  <2> SUFFICES ASSUME Grown(b, b2, x), a2 = a, d2 = d PROVE Grown(Joined(a, b, c, d), Joined(a, b2, c, d), x)
    BY <1>1
  <2> QED BY <1>1, JoinedGrows
<1>5. a2 = a /\ b2 = b /\ Grown(d, d2, x) => Grown(G!StackOf(t), G!StackOf(z), x)
  <2> SUFFICES ASSUME Grown(d, d2, x), a2 = a, b2 = b PROVE Grown(Joined(a, b, c, d), Joined(a, b, c, d2), x)
    BY <1>1
  <2> QED BY <1>1, JoinedGrows
<1>6. Swapped(a, a2, x, y) /\ b2 = b /\ d2 = d => Swapped(G!StackOf(t), G!StackOf(z), x, y)
  <2> SUFFICES ASSUME Swapped(a, a2, x, y), b2 = b, d2 = d PROVE Swapped(Joined(a, b, c, d), Joined(a2, b, c, d), x, y)
    BY <1>1
  <2> QED BY <1>1, JoinedSwaps
<1>7. a2 = a /\ Swapped(b, b2, x, y) /\ d2 = d => Swapped(G!StackOf(t), G!StackOf(z), x, y)
  <2> SUFFICES ASSUME Swapped(b, b2, x, y), a2 = a, d2 = d PROVE Swapped(Joined(a, b, c, d), Joined(a, b2, c, d), x, y)
    BY <1>1
  <2> QED BY <1>1, JoinedSwaps
<1>8. a2 = a /\ b2 = b /\ Swapped(d, d2, x, y) => Swapped(G!StackOf(t), G!StackOf(z), x, y)
  <2> SUFFICES ASSUME Swapped(d, d2, x, y), a2 = a, b2 = b PROVE Swapped(Joined(a, b, c, d), Joined(a, b, c, d2), x, y)
    BY <1>1
  <2> QED BY <1>1, JoinedSwaps
<1>9. \A i : Swaps(a, a2, i, y) /\ b2 = b /\ d2 = d => Swaps(G!StackOf(t), G!StackOf(z), i, y)
  <2> SUFFICES ASSUME NEW i, Swaps(a, a2, i, y), b2 = b, d2 = d PROVE Swaps(Joined(a, b, c, d), Joined(a2, b, c, d), i, y)
    BY <1>1
  <2> QED BY <1>1, JoinedSwapsFirst
<1> QED BY <1>2, <1>3, <1>4, <1>5, <1>6, <1>7, <1>8, <1>9 DEF a, b, d, a2, b2, d2

LEMMA FlagsLast ==
  ASSUME NEW H, NEW fl, NEW q \in BOOLEAN, FlagsGood(H, fl, q), NEW r \in BOOLEAN, q => r
  PROVE  FlagsGood(H, fl, r)
BY DEF FlagsGood

LEMMA GoodLasts ==
  ASSUME NEW t, NEW q \in BOOLEAN, NEW full, TileGood(t, q, full), NEW r \in BOOLEAN, q => r
  PROVE  TileGood(t, r, full)
BY FlagsLast DEF TileGood

\* z is t with i, and nobody was told yet; or with j in place of i.
More(t, z, i) ==
  /\ z \in Laids /\ z.fl = t.fl /\ z.v = t.v /\ Rest(z) /\ Held(z) = Held(t) \cup {i}
  /\ Grown(G!StackOf(t), G!StackOf(z), i)
Other(t, z, i, j) ==
  /\ z \in Laids /\ z.fl = t.fl /\ z.v = t.v /\ Rest(z) /\ Held(z) = (Held(t) \ {i}) \cup {j}
  /\ Swapped(G!StackOf(t), G!StackOf(z), i, j)

Retold(z, f, v) == [z EXCEPT !.fl = f, !.v = v]

LEMMA RetoldIs ==
  ASSUME G!TileAssumption, Walked, NEW z \in Laids, Rest(z), NEW f, NEW v, NEW q, NEW full,
         FlagsGood(Held(z), f, q), ViewGood(v, G!StackOf(z), full)
  PROVE  /\ Retold(z, f, v) \in Laids /\ Retold(z, f, v).fl = f /\ Retold(z, f, v).v = v /\ Rest(Retold(z, f, v))
         /\ Held(Retold(z, f, v)) = Held(z) /\ G!StackOf(Retold(z, f, v)) = G!StackOf(z)
<1> DEFINE y == Laid(z.g, z.t, z.d, f, v)
<1>1. Retold(z, f, v) = y
  <2>1. z = Laid(z.g, z.t, z.d, z.fl, z.v)
    BY LaidIs
  <2>2. [z EXCEPT !.fl = f] = Laid(z.g, z.t, z.d, f, z.v)
    BY <2>1 DEF Laid
  <2>3. [Laid(z.g, z.t, z.d, f, z.v) EXCEPT !.v = v] = y
    BY LaidFields
  <2> HIDE DEF y
  <2> QED BY <2>2, <2>3 DEF Retold
<1>2. f \in SUBSET {"block", "field"} /\ v \in Seq(Lying)
  BY DEF FlagsGood, ViewGood
<1>3. y \in Laids /\ y.g = z.g /\ y.t = z.t /\ y.d = z.d /\ y.fl = f /\ y.v = v
  BY <1>2, LaidIs, LaidFields
<1> HIDE DEF y
<1>4. Held(y) = Held(z) /\ G!StackOf(y) = G!StackOf(z) /\ Rest(y)
  BY <1>3 DEF Held, G!StackOf, Rest
<1> QED BY <1>1, <1>3, <1>4

LEMMA AnnounceGood ==
  ASSUME G!TileAssumption, Walked, NEW t, NEW q \in BOOLEAN, NEW r \in BOOLEAN, NEW full, TileGood(t, q, full),
         NEW i \in G!Items \ Held(t), q \/ i \in Quest => r, NEW z, More(t, z, i)
  PROVE  TileGood(G!Announce(z, i), r, full)
<1> DEFINE f == G!Flagged(z.fl, i)
           v == G!Inserted(z.v, G!Position(i, G!StackOf(z)), i)
           y == Retold(z, f, v)
<1>0. /\ z \in Laids /\ z.fl = t.fl /\ z.v = t.v /\ Rest(z) /\ Held(z) = Held(t) \cup {i}
      /\ Grown(G!StackOf(t), G!StackOf(z), i)
      /\ t \in Laids /\ FlagsGood(Held(t), t.fl, q) /\ ViewGood(t.v, G!StackOf(t), full)
  BY DEF More, TileGood, Rest
<1>1. G!Announce(z, i) = y
  BY DEF G!Announce, Retold
<1>2. FlagsGood(Held(z), f, r)
  BY <1>0, FlagsAdd
<1>3. ViewGood(v, G!StackOf(z), full)
  <2>1. G!StackOf(z) \in Seq(Lying) /\ G!StackOf(t) \in Seq(Lying) /\ i \notin Members(G!StackOf(t))
    BY <1>0, StackIs
  <2>2. TileMax \in Nat /\ i \in Lying
    BY DEF G!TileAssumption, Lying, G!Items
  <2> QED BY <1>0, <2>1, <2>2, ViewGets
<1> HIDE DEF f, v
<1>4. y \in Laids /\ y.fl = f /\ y.v = v /\ Rest(y) /\ Held(y) = Held(z) /\ G!StackOf(y) = G!StackOf(z)
  <2>1. z \in Laids /\ Rest(z)
    BY <1>0
  <2> QED BY <1>2, <1>3, <2>1, RetoldIs
<1> HIDE DEF y
<1> QED BY <1>1, <1>2, <1>3, <1>4 DEF TileGood

Exchanged(z, i, j) ==
  G!Refreshed(Retold(z, G!Flagged(G!Unflagged(z.fl, i, G!ItemsOf(z)), j), G!Updated(z.v, G!Position(j, G!StackOf(z)), j)))

LEMMA SwapGood ==
  ASSUME G!TileAssumption, Walked, NEW t, NEW q \in BOOLEAN, NEW r \in BOOLEAN, NEW full, TileGood(t, q, full),
         NEW i \in Held(t), NEW j \in G!Items \ Held(t), q \/ j \in Quest => r, NEW z, Other(t, z, i, j)
  PROVE  TileGood(Exchanged(z, i, j), r, full)
<1> DEFINE f == G!Flagged(G!Unflagged(z.fl, i, G!ItemsOf(z)), j)
           v == G!Updated(z.v, G!Position(j, G!StackOf(z)), j)
           y == Retold(z, f, v)
<1>0. /\ z \in Laids /\ z.fl = t.fl /\ z.v = t.v /\ Rest(z) /\ Held(z) = (Held(t) \ {i}) \cup {j}
      /\ Swapped(G!StackOf(t), G!StackOf(z), i, j)
      /\ t \in Laids /\ FlagsGood(Held(t), t.fl, q) /\ ViewGood(t.v, G!StackOf(t), full)
  BY DEF Other, TileGood, Rest
<1>1. G!ItemsOf(z) = (Held(t) \ {i}) \cup {j}
  BY <1>0, StackIs
<1>2. FlagsGood(Held(z), f, r)
  BY <1>0, <1>1, FlagsSwap
<1>3. ViewGood(v, G!StackOf(z), full)
  <2>1. G!StackOf(z) \in Seq(Lying) /\ G!StackOf(t) \in Seq(Lying) /\ j \notin Members(G!StackOf(t))
    BY <1>0, StackIs
  <2>2. TileMax \in Nat /\ j \in Lying
    BY DEF G!TileAssumption, Lying, G!Items
  <2> QED BY <1>0, <2>1, <2>2, ViewSwaps
<1>4. y \in Laids /\ y.fl = f /\ y.v = v /\ Rest(y) /\ Held(y) = Held(z) /\ G!StackOf(y) = G!StackOf(z)
  <2>1. z \in Laids /\ Rest(z)
    BY <1>0
  <2> QED BY <1>2, <1>3, <2>1, RetoldIs
<1> HIDE DEF y
<1>5. ViewGood(y.v, G!StackOf(y), full /\ Len(G!StackOf(y)) < TileMax) /\ FlagsGood(Held(y), y.fl, r)
  BY <1>2, <1>3, <1>4 DEF ViewGood
<1>6. TileGood(G!Refreshed(y), r, full)
  BY <1>4, <1>5, RefreshedGood
<1> QED BY <1>6 DEF y, f, v, Exchanged

-----------------------------------------------------------------------------
LEMMA InOrderIs ==
  ASSUME NEW s \in Seq(Tops), NEW i \in Tops
  PROVE  G!InOrder(s, i) \in Seq(Tops) /\ Grown(s, G!InOrder(s, i), i)
<1> DEFINE after == {j \in 1 .. Len(s) : Order[i] <= Order[s[j]]}
           m == CHOOSE j \in after : \A k \in after : j <= k
<1>1. CASE after = {}
  <2>1. G!InOrder(s, i) = Append(s, i)
    BY <1>1 DEF G!InOrder
  <2> QED BY <2>1, GetsLast DEF Grown
<1>2. CASE after # {}
  <2>1. G!InOrder(s, i) = G!InsertAt(s, m, i)
    BY <1>2 DEF G!InOrder
  <2>2. m \in after
    <3>1. after \in SUBSET Nat
      OBVIOUS
    <3> HIDE DEF after
    <3>2. \E j \in after : \A k \in after : j <= k
      BY <1>2, <3>1, LeastExists
    <3> QED BY <3>2
  <2>3. m \in 1 .. (Len(s) + 1)
    <3>1. m \in 1 .. Len(s) /\ Len(s) \in Nat
      BY <2>2
    <3> HIDE DEF m
    <3> QED BY <3>1
  <2> HIDE DEF m
  <2>4. G!InsertAt(s, m, i) \in Seq(Tops) /\ Gets(s, G!InsertAt(s, m, i), m, i)
    BY <2>3, GetsInserted
  <2> QED BY <2>1, <2>4 DEF Grown
<1> QED BY <1>1, <1>2

LEMMA GrownMembers ==
  ASSUME NEW T, NEW s \in Seq(T), NEW z \in Seq(T), NEW x, Grown(s, z, x)
  PROVE  Members(z) = Members(s) \cup {x} /\ (Once(s) /\ x \notin Members(s) => Once(z))
<1>1. PICK i : Gets(s, z, i, x)
  BY DEF Grown
<1> QED BY <1>1, GetsMembers

LEMMA AddGroundGood ==
  ASSUME G!TileAssumption, Walked, NEW t, NEW q \in BOOLEAN, NEW r \in BOOLEAN, NEW full, TileGood(t, q, full),
         NEW i \in Grounds \ Held(t), q \/ i \in Quest => r
  PROVE  TileGood(G!AddGround(t, i), r, full)
<1> DEFINE z == [t EXCEPT !.g = i]
<1>0. t \in Laids /\ i \in G!Items \ Held(t) /\ Rest(t) /\ t.g \in Grounds \cup {None}
  BY LaidIs DEF TileGood, Rest, G!Items
<1>1. z \in Laids /\ z.g = i /\ z.t = t.t /\ z.d = t.d /\ z.fl = t.fl /\ z.v = t.v
  <2>1. z = Laid(i, t.t, t.d, t.fl, t.v)
    BY <1>0, LaidEdited
  <2> HIDE DEF z
  <2>2. z.g = i /\ z.t = t.t /\ z.d = t.d /\ z.fl = t.fl /\ z.v = t.v
    BY <2>1 DEF Laid
  <2>3. Laid(i, t.t, t.d, t.fl, t.v) \in Laids
    BY <1>0 DEF Laids, Laid
  <2> QED BY <2>1, <2>2, <2>3
<1> HIDE DEF z
<1>2. Rest(z)
  BY <1>0, <1>1 DEF Rest
<1>3. Members(G!Base(i)) = {i}
  BY BaseIs
<1>5. CASE t.g = None
  <2>1. Held(z) = Held(t) \cup {i}
    BY <1>1, <1>3, <1>5, BaseIs DEF Held
  <2>2. Grown(G!Base(t.g), G!Base(i), i)
    BY <1>5, BaseIs
  <2>3. Grown(G!StackOf(t), G!StackOf(z), i)
    BY <1>0, <1>1, <2>2, StackMoves
  <2>4. More(t, z, i)
    BY <1>1, <1>2, <2>1, <2>3 DEF More
  <2>5. TileGood(G!Announce(z, i), r, full)
    BY <1>0, <2>4, AnnounceGood
  <2> QED BY <1>5, <2>5 DEF G!AddGround, z
<1>6. CASE t.g # None
  <2> DEFINE h == t.g
             f == G!Flagged(G!Unflagged(z.fl, h, G!ItemsOf(z)), i)
             v == G!Updated(z.v, 1, i)
  <2>1. h \in Grounds /\ h \in Held(t) /\ Members(G!Base(h)) = {h}
    BY <1>0, <1>6, BaseIs DEF Held
  <2>2. h \notin Members(t.t) /\ h \notin Members(t.d)
    <3>1. Members(t.t) \subseteq Tops /\ Members(t.d) \subseteq Downs
      <4>1. t.t \in Seq(Tops) /\ t.d \in Seq(Downs)
        BY <1>0, LaidIs
      <4> QED BY <4>1 DEF Members
    <3> QED BY <2>1, <3>1 DEF G!TileAssumption
  <2>3. Held(z) = (Held(t) \ {h}) \cup {i}
    BY <1>1, <1>3, <2>1, <2>2 DEF Held
  <2>4. Swapped(G!Base(h), G!Base(i), h, i) /\ Swaps(G!Base(h), G!Base(i), 1, i)
    <3>1. G!Base(h) = <<h>> /\ G!Base(i) = <<i>>
      BY <2>1, BaseIs
    <3>2. Swaps(<<h>>, <<i>>, 1, i)
      BY DEF Swaps
    <3>3. Swapped(G!Base(h), G!Base(i), h, i)
      BY <2>1, BaseIs
    <3> HIDE DEF h
    <3> QED BY <3>1, <3>2, <3>3
  <2>5. Swapped(G!StackOf(t), G!StackOf(z), h, i)
    BY <1>0, <1>1, <2>4, StackMoves
  <2>6. Swaps(G!StackOf(t), G!StackOf(z), 1, i)
    BY <1>0, <1>1, <2>4, StackMoves
  <2>7. G!Position(i, G!StackOf(z)) = 1
    <3>1. G!StackOf(z) \in Seq(Lying) /\ G!StackOf(t) \in Seq(Lying) /\ i \notin Members(G!StackOf(t))
      BY <1>0, <1>1, StackIs
    <3> QED BY <2>6, <3>1, PositionOf
  <2>8. Other(t, z, h, i)
    BY <1>1, <1>2, <2>3, <2>5 DEF Other
  <2>9. TileGood(Exchanged(z, h, i), r, full)
    <3> HIDE DEF h
    <3> QED BY <1>0, <2>1, <2>8, SwapGood
  <2>10. G!AddGround(t, i) = Exchanged(z, h, i)
    <3>1. G!AddGround(t, i) = G!Refreshed([t EXCEPT !.g = i, !.v = v, !.fl = f])
      BY <1>1, <1>6 DEF G!AddGround, z
    <3>2. [t EXCEPT !.g = i, !.v = v, !.fl = f] = Laid(i, t.t, t.d, f, v)
      <4>1. [t EXCEPT !.g = i] = Laid(i, t.t, t.d, t.fl, t.v)
        BY <1>0, LaidEdited
      <4>2. [Laid(i, t.t, t.d, t.fl, t.v) EXCEPT !.v = v] = Laid(i, t.t, t.d, t.fl, v)
        BY LaidFields
      <4>3. [Laid(i, t.t, t.d, t.fl, v) EXCEPT !.fl = f] = Laid(i, t.t, t.d, f, v)
        BY LaidFields
      <4> HIDE DEF f, v
      <4> QED BY <4>1, <4>2, <4>3
    <3>3. Retold(z, f, v) = Laid(i, t.t, t.d, f, v)
      <4>1. z = Laid(i, t.t, t.d, t.fl, t.v)
        BY <1>0, LaidEdited DEF z
      <4> HIDE DEF f, v
      <4>2. [Laid(i, t.t, t.d, t.fl, t.v) EXCEPT !.fl = f] = Laid(i, t.t, t.d, f, t.v)
        BY LaidFields
      <4>3. [Laid(i, t.t, t.d, f, t.v) EXCEPT !.v = v] = Laid(i, t.t, t.d, f, v)
        BY LaidFields
      <4> QED BY <4>1, <4>2, <4>3 DEF Retold
    <3>4. Exchanged(z, h, i) = G!Refreshed(Retold(z, f, v))
      BY <2>7 DEF Exchanged
    <3> HIDE DEF f, v
    <3> QED BY <3>1, <3>2, <3>3, <3>4
  <2> QED BY <2>9, <2>10
<1> QED BY <1>5, <1>6

LEMMA HeldItems ==
  ASSUME G!TileAssumption, NEW t \in Laids
  PROVE  /\ Members(t.t) \subseteq Tops /\ Members(t.d) \subseteq Downs /\ Held(t) \subseteq G!Items
         /\ Members(G!Base(t.g)) \subseteq Grounds
<1>1. t.t \in Seq(Tops) /\ t.d \in Seq(Downs) /\ t.g \in Grounds \cup {None}
  BY LaidIs
<1>2. Members(t.t) \subseteq Tops /\ Members(t.d) \subseteq Downs
  BY <1>1 DEF Members
<1>3. Members(G!Base(t.g)) \subseteq Grounds
  BY <1>1, BaseIs
<1> QED BY <1>2, <1>3 DEF Held, G!Items

LEMMA AddTopGood ==
  ASSUME G!TileAssumption, Walked, NEW t, NEW q \in BOOLEAN, NEW r \in BOOLEAN, NEW full, TileGood(t, q, full),
         NEW i \in Tops \ Held(t), q \/ i \in Quest => r
  PROVE  TileGood(G!AddTop(t, i), r, full)
<1> DEFINE old == {s \in G!Range(t.t) : i \in Splashes /\ s \in Splashes}
           x == CHOOSE s \in old : TRUE
           dry == IF old = {} THEN t ELSE G!TakenOut(t, x)
           refused == i \in Splashes /\ \E s \in G!Range(dry.t) : Order[s] = Order[i]
           z == [dry EXCEPT !.t = G!InOrder(@, i)]
<1>0. t \in Laids /\ Rest(t) /\ OneWet(t.t)
  BY DEF TileGood, Rest
<1>1. old = {s \in Members(t.t) : i \in Splashes /\ s \in Splashes}
  <2>1. t.t \in Seq(Tops)
    BY <1>0, LaidIs
  <2>2. G!Range(t.t) = Members(t.t)
    BY <2>1, AtIs
  <2> QED BY <2>2
<1>2. G!AddTop(t, i) = IF refused THEN dry ELSE G!Announce(z, i)
  BY DEF G!AddTop
<1> HIDE DEF old, refused
<1>3. /\ TileGood(dry, q, full) /\ i \notin Held(dry)
      /\ i \in Splashes => Members(dry.t) \cap Splashes = {}
  <2>1. CASE old = {}
    BY <1>1, <2>1
  <2>2. CASE old # {}
    <3>1. x \in Members(t.t) /\ x \in Splashes /\ x \in Held(t) /\ i \in Splashes
      BY <1>1, <2>2 DEF Held
    <3> HIDE DEF x
    <3>2. /\ TileGood(G!TakenOut(t, x), q, full) /\ Held(G!TakenOut(t, x)) = Held(t) \ {x}
          /\ Members(G!TakenOut(t, x).t) = Members(t.t) \ {x}
      BY <3>1, TakenOutGood
    <3>3. dry = G!TakenOut(t, x)
      BY <2>2
    <3>4. (Members(t.t) \ {x}) \cap Splashes = {}
      BY <1>0, <3>1 DEF OneWet
    <3> HIDE DEF dry
    <3> QED BY <3>2, <3>3, <3>4
  <2> QED BY <2>1, <2>2
<1> HIDE DEF dry
<1>4. CASE refused
  BY <1>2, <1>3, <1>4, GoodLasts
<1>5. CASE ~refused
  <2>0. dry \in Laids /\ Once(dry.t) /\ Once(dry.d) /\ OneWet(dry.t) /\ i \in G!Items
    BY <1>3 DEF TileGood, Rest, G!Items
  <2> DEFINE s == dry.t
             w == G!InOrder(s, i)
  <2>1. s \in Seq(Tops)
    BY <2>0, LaidIs
  <2>2. w \in Seq(Tops) /\ Grown(s, w, i)
    <3> HIDE DEF s
    <3> QED BY <2>1, InOrderIs
  <2> HIDE DEF w
  <2>3. z = Laid(dry.g, w, dry.d, dry.fl, dry.v)
    BY <2>0, LaidEdited DEF w
  <2> HIDE DEF z
  <2>4. z.g = dry.g /\ z.t = w /\ z.d = dry.d /\ z.fl = dry.fl /\ z.v = dry.v
    BY <2>3 DEF Laid
  <2>5. z \in Laids
    <3>1. Laid(dry.g, w, dry.d, dry.fl, dry.v) \in Laids
      BY <2>0, <2>2 DEF Laids, Laid
    <3> QED BY <2>3, <3>1
  <2>6. Members(w) = Members(s) \cup {i} /\ Once(w)
    <3>1. i \notin Members(s) /\ Once(s)
      BY <1>3, <2>0 DEF Held
    <3> HIDE DEF s
    <3> QED BY <2>1, <2>2, <3>1, GrownMembers
  <2>7. OneWet(w)
    BY <1>3, <2>0, <2>6 DEF OneWet
  <2>8. Rest(z) /\ Held(z) = Held(dry) \cup {i}
    BY <2>0, <2>4, <2>5, <2>6, <2>7 DEF Rest, Held
  <2>9. Grown(G!StackOf(dry), G!StackOf(z), i)
    <3>1. z.g = dry.g /\ Grown(dry.t, z.t, i) /\ z.d = dry.d
      BY <2>2, <2>4
    <3> QED BY <2>0, <2>5, <3>1, StackMoves
  <2>10. More(dry, z, i)
    BY <2>4, <2>5, <2>8, <2>9 DEF More
  <2>11. TileGood(G!Announce(z, i), r, full)
    BY <1>3, <2>0, <2>10, AnnounceGood
  <2> QED BY <1>2, <1>5, <2>11
<1> QED BY <1>4, <1>5

LEMMA PutGood ==
  ASSUME G!TileAssumption, Walked, NEW t, NEW q \in BOOLEAN, NEW r \in BOOLEAN, NEW full, TileGood(t, q, full),
         NEW i \in Downs \ Held(t), q \/ i \in Quest => r
  PROVE  TileGood(G!Announce([t EXCEPT !.d = <<i>> \o @], i), r, full)
<1>0. t \in Laids /\ Once(t.t) /\ Once(t.d) /\ OneWet(t.t) /\ i \in G!Items
  BY DEF TileGood, Rest, G!Items
<1> DEFINE s == t.d
           w == <<i>> \o s
           z == [t EXCEPT !.d = w]
<1>1. s \in Seq(Downs)
  BY <1>0, LaidIs
<1>2. w \in Seq(Downs) /\ Grown(s, w, i)
  <2> HIDE DEF s
  <2> QED BY <1>1, GetsFirst DEF Grown
<1>3. [t EXCEPT !.d = <<i>> \o @] = z
  OBVIOUS
<1> HIDE DEF w
<1>4. z = Laid(t.g, t.t, w, t.fl, t.v)
  BY <1>0, LaidEdited
<1> HIDE DEF z
<1>5. z.g = t.g /\ z.t = t.t /\ z.d = w /\ z.fl = t.fl /\ z.v = t.v
  BY <1>4 DEF Laid
<1>6. z \in Laids
  <2>1. Laid(t.g, t.t, w, t.fl, t.v) \in Laids
    BY <1>0, <1>2 DEF Laids, Laid
  <2> QED BY <1>4, <2>1
<1>7. Members(w) = Members(s) \cup {i} /\ Once(w)
  <2>1. i \notin Members(s) /\ Once(s)
    BY <1>0 DEF Held
  <2> HIDE DEF s
  <2> QED BY <1>1, <1>2, <2>1, GrownMembers
<1>8. Rest(z) /\ Held(z) = Held(t) \cup {i}
  BY <1>0, <1>5, <1>6, <1>7 DEF Rest, Held
<1>9. Grown(G!StackOf(t), G!StackOf(z), i)
  <2>1. z.g = t.g /\ z.t = t.t /\ Grown(t.d, z.d, i)
    BY <1>2, <1>5
  <2> QED BY <1>0, <1>6, <2>1, StackMoves
<1>10. More(t, z, i)
  BY <1>5, <1>6, <1>8, <1>9 DEF More
<1>11. TileGood(G!Announce(z, i), r, full)
  BY <1>0, <1>10, AnnounceGood
<1> QED BY <1>3, <1>11

LEMMA AddDownGood ==
  ASSUME G!TileAssumption, Walked, NEW t, NEW q \in BOOLEAN, NEW r \in BOOLEAN, NEW full, TileGood(t, q, full),
         NEW i \in Downs \ Held(t), q \/ i \in Quest => r
  PROVE  TileGood(G!AddDown(t, i), r, full)
<1> DEFINE Passed(f) == f \notin Fields \/ (f \notin Decaying /\ (f \notin Harmful \/ f \in Replaceable \/ i \in Dropped))
           met == {j \in 1 .. Len(t.d) : i \in Clearing /\ ~Passed(t.d[j])}
           m == CHOOSE j \in met : \A k \in met : j <= k
           f == t.d[m]
<1>0. t \in Laids
  BY DEF TileGood, Rest
<1>1. t.d \in Seq(Downs)
  BY <1>0, LaidIs
<1>2. G!AddDown(t, i) = IF met = {} THEN G!Announce([t EXCEPT !.d = <<i>> \o @], i)
                        ELSE IF f \in Decaying /\ f \in Replaceable THEN G!Announce([G!TakenOut(t, f) EXCEPT !.d = <<i>> \o @], i)
                        ELSE t
  BY DEF G!AddDown
<1>3. CASE met = {}
  <2>1. TileGood(G!Announce([t EXCEPT !.d = <<i>> \o @], i), r, full)
    BY PutGood
  <2> HIDE DEF met, f
  <2> QED BY <1>2, <1>3, <2>1
<1>4. CASE met # {}
  <2>1. f \in Held(t)
    <3>1. met \in SUBSET Nat /\ met \subseteq 1 .. Len(t.d)
      OBVIOUS
    <3> HIDE DEF met
    <3>2. m \in met
      <4>1. \E j \in met : \A k \in met : j <= k
        BY <1>4, <3>1, LeastExists
      <4> QED BY <4>1
    <3> HIDE DEF m
    <3> QED BY <3>1, <3>2 DEF Held, Members
  <2> HIDE DEF f, met
  <2>2. TileGood(G!TakenOut(t, f), q, full) /\ Held(G!TakenOut(t, f)) = Held(t) \ {f}
    BY <2>1, TakenOutGood
  <2>3. TileGood(G!Announce([G!TakenOut(t, f) EXCEPT !.d = <<i>> \o @], i), r, full)
    <3> DEFINE y == G!TakenOut(t, f)
    <3>1. TileGood(y, q, full) /\ i \in Downs \ Held(y)
      BY <2>2
    <3> HIDE DEF y
    <3>2. TileGood(G!Announce([y EXCEPT !.d = <<i>> \o @], i), r, full)
      BY <3>1, PutGood
    <3> QED BY <3>2 DEF y
  <2>4. TileGood(t, r, full)
    BY GoodLasts
  <2> QED BY <1>2, <1>4, <2>3, <2>4
<1> QED BY <1>3, <1>4

-----------------------------------------------------------------------------
LEMMA MapSwaps ==
  ASSUME NEW T, NEW s \in Seq(T), Once(s), NEW i, NEW j \in T
  PROVE  LET z == [k \in DOMAIN s |-> IF s[k] = i THEN j ELSE s[k]]
         IN /\ z \in Seq(T)
            /\ i \in Members(s) => Swapped(s, z, i, j)
            /\ i \notin Members(s) => z = s
<1> DEFINE z == [k \in DOMAIN s |-> IF s[k] = i THEN j ELSE s[k]]
<1>0. DOMAIN s = 1 .. Len(s) /\ Len(s) \in Nat /\ s = [k \in 1 .. Len(s) |-> s[k]] /\ \A k \in 1 .. Len(s) : s[k] \in T
  OBVIOUS
<1>1. z = [k \in 1 .. Len(s) |-> IF s[k] = i THEN j ELSE s[k]]
  BY <1>0
<1>2. z \in Seq(T) /\ Len(z) = Len(s) /\ \A k \in 1 .. Len(s) : z[k] = IF s[k] = i THEN j ELSE s[k]
  <2>1. z \in [1 .. Len(s) -> T]
    BY <1>0, <1>1
  <2>2. \A k \in 1 .. Len(s) : z[k] = IF s[k] = i THEN j ELSE s[k]
    BY <1>1
  <2> HIDE DEF z
  <2>3. z \in Seq(T) /\ Len(z) = Len(s)
    BY <1>0, <2>1
  <2> QED BY <2>2, <2>3
<1> HIDE DEF z
<1>3. ASSUME i \in Members(s) PROVE Swapped(s, z, i, j)
  <2>1. PICK p \in 1 .. Len(s) : s[p] = i
    BY <1>3 DEF Members
  <2>2. \A k \in 1 .. Len(s) : k # p => s[k] # i
    BY <2>1 DEF Once
  <2>3. Swaps(s, z, p, j)
    BY <1>2, <2>1, <2>2 DEF Swaps
  <2> QED BY <2>1, <2>3 DEF Swapped
<1>4. ASSUME i \notin Members(s) PROVE z = s
  <2>1. \A k \in 1 .. Len(s) : s[k] # i
    BY <1>4 DEF Members
  <2> QED BY <1>2, <2>1, SeqEqual
<1> QED BY <1>2, <1>3, <1>4 DEF z

LEMMA SwappedMembers ==
  ASSUME NEW T, NEW s \in Seq(T), NEW z \in Seq(T), NEW x, NEW y, Swapped(s, z, x, y), Once(s), y \notin Members(s)
  PROVE  Members(z) = (Members(s) \ {x}) \cup {y} /\ Once(z) /\ x \in Members(s)
<1>1. PICK i : Swaps(s, z, i, y) /\ s[i] = x
  BY DEF Swapped
<1>2. Members(z) = (Members(s) \ {s[i]}) \cup {y} /\ Once(z)
  BY <1>1, SwapsMembers
<1>3. s[i] \in Members(s)
  BY <1>1 DEF Swaps, Members
<1> QED BY <1>1, <1>2, <1>3

-----------------------------------------------------------------------------
(* What happens to the items of a tile keeps it good.                      *)

TileIInv == Walked /\ u8 \in BOOLEAN /\ u9 \in BOOLEAN /\ TileGood(G!Tile, u9, ~u8)

LEMMA TileIs ==
  /\ G!Tile = Laid(u1, u2, u4, u5, u7)
  /\ G!Tile.g = u1 /\ G!Tile.t = u2 /\ G!Tile.d = u4 /\ G!Tile.fl = u5 /\ G!Tile.v = u7
BY DEF G!Tile, Laid

LEMMA HereIs ==
  ASSUME G!TileAssumption, TileIInv PROVE G!Here = Held(G!Tile) /\ G!Tile \in Laids
<1>1. G!Tile \in Laids
  BY DEF TileIInv, TileGood, Rest
<1>2. G!ItemsOf(G!Tile) = Held(G!Tile)
  BY <1>1, StackIs DEF TileIInv
<1> QED BY <1>1, <1>2, TileIs DEF G!Here, G!ItemsOf

LEMMA BecomesGood ==
  ASSUME TileIInv, NEW t, u9' \in BOOLEAN, TileGood(t, u9', ~u8), G!Becomes(t)
  PROVE  TileIInv'
<1>1. /\ u1' = t.g /\ u2' = t.t /\ u4' = t.d /\ u5' = t.fl /\ u7' = t.v /\ u3' = u3 /\ u6' = u6
      /\ u8' = (u8 /\ t.v # G!First(G!StackOf(t)))
  BY DEF G!Becomes, G!StackOf
<1>2. t \in Laids /\ Rest(t) /\ FlagsGood(Held(t), t.fl, u9') /\ ViewGood(t.v, G!StackOf(t), ~u8)
  BY DEF TileGood, Rest
<1>3. G!Tile' = t
  <2>1. t = Laid(t.g, t.t, t.d, t.fl, t.v)
    BY <1>2, LaidIs
  <2>2. G!Tile' = Laid(u1', u2', u4', u5', u7')
    BY DEF G!Tile, Laid
  <2> QED BY <1>1, <2>1, <2>2
<1>4. Walked' /\ u8' \in BOOLEAN
  BY <1>1 DEF TileIInv, Walked
<1>5. G!StackOf(G!Tile)' = G!StackOf(t)
  BY <1>1, <1>3 DEF G!StackOf
<1>6. ViewGood(t.v, G!StackOf(t), ~u8')
  BY <1>1, <1>2 DEF ViewGood
<1>7. TileGood(G!Tile, u9, ~u8)'
  BY <1>2, <1>3, <1>5, <1>6 DEF TileGood, Rest, Held
<1> QED BY <1>4, <1>7 DEF TileIInv

LEMMA AddItemKeeps ==
  ASSUME G!TileAssumption, TileIInv, NEW i \in G!Items, G!AddItem(i) PROVE TileIInv'
<1>1. /\ i \notin G!Here
      /\ G!Becomes(IF i \in Grounds THEN G!AddGround(G!Tile, i)
                   ELSE IF i \in Tops THEN G!AddTop(G!Tile, i) ELSE G!AddDown(G!Tile, i))
      /\ u9' = (u9 \/ i \in Quest)
  BY DEF G!AddItem
<1>2. i \notin Held(G!Tile)
  BY <1>1, HereIs
<1>3. u9' \in BOOLEAN /\ u9 \in BOOLEAN /\ (u9 \/ i \in Quest => u9')
  BY <1>1 DEF TileIInv
<1>4. Walked /\ TileGood(G!Tile, u9, ~u8)
  BY DEF TileIInv
<1>5. CASE i \in Grounds
  <2>1. TileGood(G!AddGround(G!Tile, i), u9', ~u8)
    BY <1>2, <1>3, <1>4, <1>5, AddGroundGood
  <2> QED BY <1>1, <1>3, <1>5, <2>1, BecomesGood
<1>6. CASE i \notin Grounds /\ i \in Tops
  <2>1. TileGood(G!AddTop(G!Tile, i), u9', ~u8)
    BY <1>2, <1>3, <1>4, <1>6, AddTopGood
  <2> QED BY <1>1, <1>3, <1>6, <2>1, BecomesGood
<1>7. CASE i \notin Grounds /\ i \notin Tops
  <2>1. i \in Downs
    BY <1>7 DEF G!Items
  <2>2. TileGood(G!AddDown(G!Tile, i), u9', ~u8)
    BY <1>2, <1>3, <1>4, <2>1, AddDownGood
  <2> QED BY <1>1, <1>3, <1>7, <2>2, BecomesGood
<1> QED BY <1>5, <1>6, <1>7

LEMMA RemoveItemKeeps ==
  ASSUME G!TileAssumption, TileIInv, NEW i \in G!Items, G!RemoveItem(i) PROVE TileIInv'
<1>1. i \in G!Here /\ G!Becomes(G!TakenOut(G!Tile, i)) /\ u9' = u9
  BY DEF G!RemoveItem
<1>2. i \in Held(G!Tile)
  BY <1>1, HereIs
<1>3. u9' \in BOOLEAN /\ u9 \in BOOLEAN /\ Walked /\ TileGood(G!Tile, u9, ~u8)
  BY <1>1 DEF TileIInv
<1>4. TileGood(G!TakenOut(G!Tile, i), u9, ~u8)
  BY <1>2, <1>3, TakenOutGood
<1>5. TileGood(G!TakenOut(G!Tile, i), u9', ~u8)
  BY <1>1, <1>4
<1> QED BY <1>1, <1>3, <1>5, BecomesGood

LEMMA TransformAcrossKeeps ==
  ASSUME G!TileAssumption, TileIInv, NEW i \in G!Items, NEW j \in G!Items, G!TransformAcross(i, j) PROVE TileIInv'
<1> DEFINE t == G!TakenOut(G!Tile, i)
<1>1. /\ i \in G!Here /\ j \notin G!Here /\ j \notin Grounds
      /\ G!Becomes(IF j \in Tops THEN G!AddTop(t, j) ELSE G!AddDown(t, j))
      /\ u9' = (u9 \/ j \in Quest)
  BY DEF G!TransformAcross
<1>2. i \in Held(G!Tile) /\ j \notin Held(G!Tile)
  BY <1>1, HereIs
<1>3. u9' \in BOOLEAN /\ u9 \in BOOLEAN /\ (u9 \/ j \in Quest => u9')
  BY <1>1 DEF TileIInv
<1>4. Walked /\ TileGood(G!Tile, u9, ~u8)
  BY DEF TileIInv
<1>5. TileGood(t, u9, ~u8) /\ j \notin Held(t)
  BY <1>2, <1>3, <1>4, TakenOutGood
<1> HIDE DEF t
<1>6. CASE j \in Tops
  <2>1. TileGood(G!AddTop(t, j), u9', ~u8)
    BY <1>3, <1>4, <1>5, <1>6, AddTopGood
  <2> QED BY <1>1, <1>3, <1>6, <2>1, BecomesGood
<1>7. CASE j \notin Tops
  <2>1. j \in Downs
    BY <1>1, <1>7 DEF G!Items
  <2>2. TileGood(G!AddDown(t, j), u9', ~u8)
    BY <1>3, <1>4, <1>5, <2>1, AddDownGood
  <2> QED BY <1>1, <1>3, <1>7, <2>2, BecomesGood
<1> QED BY <1>6, <1>7

LEMMA TransformKeeps ==
  ASSUME G!TileAssumption, TileIInv, NEW i \in G!Items, NEW j \in G!Items, G!Transform(i, j) PROVE TileIInv'
<1> DEFINE Swap(x) == IF x = i THEN j ELSE x
           t == G!Tile
           ts == [k \in DOMAIN u2 |-> IF u2[k] = i THEN j ELSE u2[k]]
           ds == [k \in DOMAIN u4 |-> IF u4[k] = i THEN j ELSE u4[k]]
           g == IF u1 = i THEN j ELSE u1
           z == Laid(g, ts, ds, u5, u7)
<1>0. Walked /\ TileGood(t, u9, ~u8) /\ t \in Laids /\ Rest(t) /\ Once(u2) /\ Once(u4) /\ OneWet(u2) /\ u9 \in BOOLEAN
  BY TileIs DEF TileIInv, TileGood, Rest
<1>1. /\ i \in G!Here /\ j \notin G!Here
      /\ \E class \in {Grounds, Splashes, Tops \ Splashes, Downs} : i \in class /\ j \in class
      /\ u9' = (u9 \/ j \in Quest)
  BY DEF G!Transform
<1>2. G!Becomes(Exchanged(z, i, j))
  <2> DEFINE y == [t EXCEPT !.g = Swap(@), !.t = [k \in DOMAIN @ |-> Swap(@[k])], !.d = [k \in DOMAIN @ |-> Swap(@[k])]]
  <2>1. y = [[[t EXCEPT !.g = g] EXCEPT !.t = ts] EXCEPT !.d = ds]
    BY TileIs
  <2>2. y = z
    <3>0. t = Laid(u1, u2, u4, u5, u7)
      BY TileIs
    <3> HIDE DEF g, ts, ds, y, t
    <3>1. [t EXCEPT !.g = g] = Laid(g, u2, u4, u5, u7)
      BY <3>0, LaidFields
    <3>2. [Laid(g, u2, u4, u5, u7) EXCEPT !.t = ts] = Laid(g, ts, u4, u5, u7)
      BY LaidFields
    <3>3. [Laid(g, ts, u4, u5, u7) EXCEPT !.d = ds] = Laid(g, ts, ds, u5, u7)
      BY LaidFields
    <3> QED BY <2>1, <3>1, <3>2, <3>3
  <2>3. G!Becomes(G!Refreshed([y EXCEPT !.fl = G!Flagged(G!Unflagged(@, i, G!ItemsOf(y)), j),
                                       !.v = G!Updated(@, G!Position(j, G!StackOf(y)), j)]))
    BY DEF G!Transform
  <2> HIDE DEF y, z
  <2>4. G!Becomes(G!Refreshed([y EXCEPT !.fl = G!Flagged(G!Unflagged(y.fl, i, G!ItemsOf(y)), j),
                                       !.v = G!Updated(y.v, G!Position(j, G!StackOf(y)), j)]))
    BY <2>3
  <2> QED BY <2>2, <2>4 DEF Exchanged, Retold
<1>3. i \in Held(t) /\ j \notin Held(t)
  BY <1>1, HereIs
<1>4. u1 \in Grounds \cup {None} /\ u2 \in Seq(Tops) /\ u4 \in Seq(Downs) /\ u5 \in SUBSET {"block", "field"} /\ u7 \in Seq(Lying)
  BY <1>0, LaidIs, TileIs
<1>5. Held(t) = Members(G!Base(u1)) \cup Members(u2) \cup Members(u4)
  BY TileIs DEF Held
<1>6. Members(u2) \subseteq Tops /\ Members(u4) \subseteq Downs /\ Members(G!Base(u1)) \subseteq Grounds
  BY <1>0, HeldItems, TileIs
<1> HIDE DEF t
<1>7. (j \in Tops => ts \in Seq(Tops)) /\ (i \in Members(u2) /\ j \in Tops => Swapped(u2, ts, i, j)) /\ (i \notin Members(u2) => ts = u2)
  <2>1. j \in Tops => ts \in Seq(Tops) /\ (i \in Members(u2) => Swapped(u2, ts, i, j))
    BY <1>0, <1>4, MapSwaps
  <2>2. ASSUME i \notin Members(u2) PROVE ts = u2
    <3>1. \A k \in 1 .. Len(u2) : u2[k] # i
      BY <2>2 DEF Members
    <3>2. DOMAIN u2 = 1 .. Len(u2) /\ u2 = [k \in 1 .. Len(u2) |-> u2[k]]
      BY <1>4
    <3> QED BY <3>1, <3>2
  <2> HIDE DEF ts
  <2> QED BY <2>1, <2>2
<1>8. (j \in Downs => ds \in Seq(Downs)) /\ (i \in Members(u4) /\ j \in Downs => Swapped(u4, ds, i, j)) /\ (i \notin Members(u4) => ds = u4)
  <2>1. j \in Downs => ds \in Seq(Downs) /\ (i \in Members(u4) => Swapped(u4, ds, i, j))
    BY <1>0, <1>4, MapSwaps
  <2>2. ASSUME i \notin Members(u4) PROVE ds = u4
    <3>1. \A k \in 1 .. Len(u4) : u4[k] # i
      BY <2>2 DEF Members
    <3>2. DOMAIN u4 = 1 .. Len(u4) /\ u4 = [k \in 1 .. Len(u4) |-> u4[k]]
      BY <1>4
    <3> QED BY <3>1, <3>2
  <2> HIDE DEF ds
  <2> QED BY <2>1, <2>2
<1> HIDE DEF ts, ds
<1>9. z.g = g /\ z.t = ts /\ z.d = ds /\ z.fl = u5 /\ z.v = u7
  BY DEF Laid
<1>10. i # None /\ j # None /\ Splashes \subseteq Tops /\ Grounds \cap (Tops \cup Downs) = {} /\ Tops \cap Downs = {}
  BY DEF G!TileAssumption
<1>11. t.g = u1 /\ t.t = u2 /\ t.d = u4 /\ t.fl = u5 /\ t.v = u7
  BY TileIs DEF t
<1> HIDE DEF z
<1>12. Other(t, z, i, j)
  <2>1. CASE i \in Grounds /\ j \in Grounds
    <3>1. i \notin Members(u2) /\ i \notin Members(u4) /\ i \in Members(G!Base(u1))
      BY <1>3, <1>5, <1>6, <1>10, <2>1
    <3>2. u1 = i
      <4>1. u1 \in Grounds
        BY <1>4, <3>1, BaseIs
      <4> QED BY <3>1, <4>1, BaseIs
    <3>3. z.g = j /\ z.t = u2 /\ z.d = u4
      BY <1>7, <1>8, <1>9, <3>1, <3>2
    <3>4. z \in Laids
      <4>1. Laid(j, u2, u4, u5, u7) \in Laids
        BY <1>4, <2>1 DEF Laids, Laid
      <4> QED BY <1>7, <1>8, <3>1, <3>2, <4>1 DEF z
    <3>5. Members(G!Base(i)) = {i} /\ Members(G!Base(j)) = {j} /\ Swapped(G!Base(i), G!Base(j), i, j)
      BY <2>1, BaseIs
    <3>6. Held(z) = (Held(t) \ {i}) \cup {j}
      BY <1>5, <3>1, <3>2, <3>3, <3>5 DEF Held
    <3>7. Swapped(G!Base(t.g), G!Base(z.g), i, j) /\ z.t = t.t /\ z.d = t.d
      BY <1>11, <3>2, <3>3, <3>5
    <3>8. Swapped(G!StackOf(t), G!StackOf(z), i, j)
      BY <1>0, <3>4, <3>7, StackMoves
    <3>9. Rest(z)
      BY <1>0, <3>3, <3>4 DEF Rest
    <3> QED BY <1>9, <1>11, <3>4, <3>6, <3>8, <3>9 DEF Other
  <2>2. CASE i \in Tops /\ j \in Tops /\ (i \in Splashes <=> j \in Splashes)
    <3>1. i \in Members(u2) /\ i \notin Members(u4) /\ i \notin Members(G!Base(u1))
      BY <1>3, <1>5, <1>6, <1>10, <2>2
    <3>2. u1 # i
      BY <1>4, <1>10, <2>2
    <3>3. z.g = u1 /\ z.d = u4 /\ ts \in Seq(Tops) /\ Swapped(u2, ts, i, j)
      BY <1>7, <1>8, <1>9, <2>2, <3>1, <3>2
    <3>4. z \in Laids
      <4>1. Laid(u1, ts, u4, u5, u7) \in Laids
        BY <1>4, <3>3 DEF Laids, Laid
      <4> QED BY <1>8, <3>1, <3>2, <4>1 DEF z
    <3>5. Members(ts) = (Members(u2) \ {i}) \cup {j} /\ Once(ts)
      <4>1. j \notin Members(u2)
        BY <1>3, <1>5
      <4> QED BY <1>0, <1>4, <3>3, <4>1, SwappedMembers
    <3>6. Held(z) = (Held(t) \ {i}) \cup {j}
      BY <1>5, <1>9, <3>1, <3>3, <3>5 DEF Held
    <3>7. z.g = t.g /\ Swapped(t.t, z.t, i, j) /\ z.d = t.d
      BY <1>9, <1>11, <3>3
    <3>8. Swapped(G!StackOf(t), G!StackOf(z), i, j)
      BY <1>0, <3>4, <3>7, StackMoves
    <3>9. OneWet(ts)
      BY <1>0, <2>2, <3>1, <3>5 DEF OneWet
    <3>10. Rest(z)
      BY <1>0, <1>9, <3>3, <3>4, <3>5, <3>9 DEF Rest
    <3> QED BY <1>9, <1>11, <3>4, <3>6, <3>8, <3>10 DEF Other
  <2>3. CASE i \in Downs /\ j \in Downs
    <3>1. i \in Members(u4) /\ i \notin Members(u2) /\ i \notin Members(G!Base(u1))
      BY <1>3, <1>5, <1>6, <1>10, <2>3
    <3>2. u1 # i
      BY <1>4, <1>10, <2>3
    <3>3. z.g = u1 /\ z.t = u2 /\ ds \in Seq(Downs) /\ Swapped(u4, ds, i, j)
      BY <1>7, <1>8, <1>9, <2>3, <3>1, <3>2
    <3>4. z \in Laids
      <4>1. Laid(u1, u2, ds, u5, u7) \in Laids
        BY <1>4, <3>3 DEF Laids, Laid
      <4> QED BY <1>7, <3>1, <3>2, <4>1 DEF z
    <3>5. Members(ds) = (Members(u4) \ {i}) \cup {j} /\ Once(ds)
      <4>1. j \notin Members(u4)
        BY <1>3, <1>5
      <4> QED BY <1>0, <1>4, <3>3, <4>1, SwappedMembers
    <3>6. Held(z) = (Held(t) \ {i}) \cup {j}
      BY <1>5, <1>9, <3>1, <3>3, <3>5 DEF Held
    <3>7. z.g = t.g /\ z.t = t.t /\ Swapped(t.d, z.d, i, j)
      BY <1>9, <1>11, <3>3
    <3>8. Swapped(G!StackOf(t), G!StackOf(z), i, j)
      BY <1>0, <3>4, <3>7, StackMoves
    <3>9. Rest(z)
      BY <1>0, <1>9, <3>3, <3>4, <3>5 DEF Rest
    <3> QED BY <1>9, <1>11, <3>4, <3>6, <3>8, <3>9 DEF Other
  <2> QED BY <1>1, <1>10, <2>1, <2>2, <2>3
<1>13. u9' \in BOOLEAN /\ (u9 \/ j \in Quest => u9')
  BY <1>0, <1>1
<1>14. TileGood(Exchanged(z, i, j), u9', ~u8)
  BY <1>0, <1>3, <1>12, <1>13, SwapGood
<1> QED BY <1>2, <1>13, <1>14, BecomesGood

-----------------------------------------------------------------------------
(* Creatures that come, go and hide.                                       *)

Placed == u1 \in Grounds \cup {None} /\ u2 \in Seq(Tops) /\ u4 \in Seq(Downs)
CSight(cs, sees) == Joined(G!Base(u1), u2, G!Visible(cs, sees), u4)

LEMMA CSightIs ==
  ASSUME G!TileAssumption, Placed, NEW cs \in Seq(Walkers), NEW sees
  PROVE  /\ G!Stack(u1, u2, cs, u4, sees) = CSight(cs, sees)
         /\ G!Whole(cs, sees) = G!First(CSight(cs, sees))
         /\ CSight(cs, sees) \in Seq(Lying)
         /\ \A c \in Walkers : c \notin Members(G!Visible(cs, sees)) => c \notin Members(CSight(cs, sees))
         /\ G!ThingCount(u1, u2, cs, u4) \in Nat /\ Len(CSight(cs, sees)) <= G!ThingCount(u1, u2, cs, u4)
         /\ G!Base(u1) \in Seq(Lying) /\ u2 \in Seq(Lying) /\ G!Visible(cs, sees) \in Seq(Lying) /\ u4 \in Seq(Lying)
<1> DEFINE a == G!Base(u1)
           c == G!Visible(cs, sees)
           s == CSight(cs, sees)
<1>1. a \in Seq(Lying) /\ Len(a) \in Nat /\ Members(a) \subseteq Grounds
  BY BaseIs DEF Placed
<1>2. u2 \in Seq(Tops) /\ u4 \in Seq(Downs) /\ u2 \in Seq(Lying) /\ u4 \in Seq(Lying) /\ Members(u2) \subseteq Tops /\ Members(u4) \subseteq Downs
  <2>1. u2 \in Seq(Tops) /\ u4 \in Seq(Downs) /\ Tops \subseteq Lying /\ Downs \subseteq Lying
    BY DEF Lying, Placed
  <2> QED BY <2>1 DEF Members
<1>3. c \in Seq(Walkers) /\ Len(c) <= Len(cs)
  BY SightType
<1>4. c \in Seq(Lying)
  BY <1>3 DEF Lying
<1>5. G!Stack(u1, u2, cs, u4, sees) = s /\ G!Whole(cs, sees) = G!First(s)
  BY DEF G!Stack, G!Whole, G!Description, CSight, Joined
<1> HIDE DEF a, c
<1>6. s = Joined(a, u2, c, u4)
  BY DEF CSight, a, c
<1>7. a \in Seq(Lying)
  BY <1>1
<1>8. u2 \in Seq(Lying)
  BY <1>2
<1>9. u4 \in Seq(Lying)
  BY <1>2
<1> HIDE DEF s
<1>15. /\ Joined(a, u2, c, u4) \in Seq(Lying) /\ Len(Joined(a, u2, c, u4)) = Len(a) + Len(u2) + Len(c) + Len(u4)
       /\ Members(Joined(a, u2, c, u4)) = Members(a) \cup Members(u2) \cup Members(c) \cup Members(u4)
  BY <1>4, <1>7, <1>8, <1>9, JoinedIs
<1>10. s \in Seq(Lying) /\ Len(s) = Len(a) + Len(u2) + Len(c) + Len(u4) /\ Members(s) = Members(a) \cup Members(u2) \cup Members(c) \cup Members(u4)
  BY <1>6, <1>15
<1>11. \A x \in Walkers : x \notin Members(c) => x \notin Members(s)
  BY <1>1, <1>2, <1>10 DEF G!TileAssumption, G!Items
<1>12. G!ThingCount(u1, u2, cs, u4) = Len(a) + Len(u2) + Len(cs) + Len(u4)
  BY DEF G!ThingCount, a
<1>13. Len(u2) \in Nat /\ Len(cs) \in Nat /\ Len(u4) \in Nat /\ Len(c) \in Nat
  BY <1>2, <1>3
<1> HIDE DEF s
<1>14. G!ThingCount(u1, u2, cs, u4) \in Nat /\ Len(s) <= G!ThingCount(u1, u2, cs, u4)
  BY <1>1, <1>3, <1>10, <1>12, <1>13
<1> QED BY <1>4, <1>5, <1>7, <1>8, <1>9, <1>10, <1>11, <1>14 DEF a, c, s

LEMMA CSightGrows ==
  ASSUME G!TileAssumption, Placed, NEW cs \in Seq(Walkers), NEW sees, NEW ds \in Seq(Walkers), NEW sees2, NEW c,
         Grown(G!Visible(cs, sees), G!Visible(ds, sees2), c)
  PROVE  Grown(CSight(cs, sees), CSight(ds, sees2), c)
<1> DEFINE a == G!Base(u1)
           v == G!Visible(cs, sees)
           w == G!Visible(ds, sees2)
<1>1. a \in Seq(Lying)
  BY CSightIs
<1>2. u2 \in Seq(Lying)
  BY CSightIs
<1>3. u4 \in Seq(Lying)
  BY CSightIs
<1>4. v \in Seq(Lying)
  BY CSightIs
<1>5. w \in Seq(Lying)
  BY CSightIs
<1>6. Grown(v, w, c)
  OBVIOUS
<1>7. CSight(cs, sees) = Joined(a, u2, v, u4) /\ CSight(ds, sees2) = Joined(a, u2, w, u4)
  BY DEF CSight
<1> HIDE DEF a, v, w
<1>8. Grown(Joined(a, u2, v, u4), Joined(a, u2, w, u4), c)
  BY <1>1, <1>2, <1>3, <1>4, <1>5, <1>6, JoinedGrows
<1> QED BY <1>7, <1>8

LEMMA CreaturesMove ==
  ASSUME G!TileAssumption, TileIInv, NEW cs \in Seq(Walkers), Once(cs), NEW sees \in SUBSET Walkers, NEW v, NEW full,
         ViewGood(v, CSight(cs, sees), full), G!WithCreatures(cs, sees, v), u8' \in BOOLEAN,
         ~u8' => full \/ v = G!First(CSight(cs, sees))
  PROVE  TileIInv'
<1>1. u3' = cs /\ u6' = sees /\ u7' = v /\ u1' = u1 /\ u2' = u2 /\ u4' = u4 /\ u5' = u5 /\ u9' = u9
  BY DEF G!WithCreatures
<1>2. Walked' /\ u9' \in BOOLEAN
  BY <1>1 DEF Walked, TileIInv
<1>3. G!Tile \in Laids /\ Rest(G!Tile) /\ FlagsGood(Held(G!Tile), u5, u9)
  BY TileIs DEF TileIInv, TileGood, Rest
<1>4. G!Tile' = Laid(u1, u2, u4, u5, v)
  BY <1>1 DEF G!Tile, Laid
<1>5. v \in Seq(Lying) /\ Clips(v, CSight(cs, sees)) /\ (full => v = G!First(CSight(cs, sees)))
  BY DEF ViewGood
<1>6. Placed /\ u5 \in SUBSET {"block", "field"} /\ Once(u2) /\ Once(u4) /\ OneWet(u2)
  BY <1>3, LaidIs, TileIs DEF Rest, Placed
<1> DEFINE z == Laid(u1, u2, u4, u5, v)
<1>7. z \in Laids /\ z.g = u1 /\ z.t = u2 /\ z.d = u4 /\ z.fl = u5 /\ z.v = v
  BY <1>5, <1>6, LaidFields DEF Placed
<1> HIDE DEF z
<1>8. Rest(z) /\ Held(z) = Held(G!Tile)
  BY <1>6, <1>7, TileIs DEF Rest, Held
<1>9. G!StackOf(G!Tile)' = CSight(cs, sees)
  <2>1. G!StackOf(G!Tile)' = G!Stack(u1', u2', u3', u4', u6')
    BY DEF G!StackOf, G!Tile
  <2> QED BY <1>1, <1>6, <2>1, CSightIs
<1>10. G!Tile' = z
  BY <1>4 DEF z
<1>11. ViewGood(v, CSight(cs, sees), ~u8')
  BY <1>5 DEF ViewGood
<1>12. TileGood(G!Tile, u9, ~u8)'
  <2>1. Rest(G!Tile)'
    BY <1>8, <1>10 DEF Rest
  <2>2. FlagsGood(Held(G!Tile), G!Tile.fl, u9)'
    BY <1>1, <1>3, <1>7, <1>8, <1>10 DEF FlagsGood, Held
  <2>3. ViewGood(G!Tile.v, G!StackOf(G!Tile), ~u8)'
    BY <1>7, <1>9, <1>10, <1>11 DEF ViewGood
  <2> QED BY <2>1, <2>2, <2>3 DEF TileGood
<1> QED BY <1>2, <1>12 DEF TileIInv

\* The stack of now.
LEMMA NowIs ==
  ASSUME G!TileAssumption, TileIInv
  PROVE  /\ Placed /\ Walked /\ u7 \in Seq(Lying) /\ u8 \in BOOLEAN /\ TileMax \in Nat
         /\ u3 \in Seq(Walkers) /\ Once(u3) /\ u6 \in SUBSET Walkers
         /\ ViewGood(u7, CSight(u3, u6), ~u8) /\ Walkers \subseteq Lying
<1>1. Walked /\ G!Tile \in Laids /\ ViewGood(u7, G!StackOf(G!Tile), ~u8) /\ u8 \in BOOLEAN
  BY TileIs DEF TileIInv, TileGood, Rest
<1>2. Placed
  BY <1>1, LaidIs, TileIs DEF Placed
<1>3. G!StackOf(G!Tile) = G!Stack(u1, u2, u3, u4, u6)
  BY TileIs DEF G!StackOf
<1>4. u3 \in Seq(Walkers) /\ Once(u3) /\ u6 \in SUBSET Walkers
  BY <1>1 DEF Walked
<1>5. G!Stack(u1, u2, u3, u4, u6) = CSight(u3, u6)
  BY <1>2, <1>4, CSightIs
<1>6. TileMax \in Nat /\ Walkers \subseteq Lying
  BY DEF G!TileAssumption, Lying
<1>7. u7 \in Seq(Lying)
  BY <1>1 DEF ViewGood
<1> QED BY <1>1, <1>2, <1>3, <1>4, <1>5, <1>6, <1>7

\* Who comes into sight is shown.
LEMMA AppearGood ==
  ASSUME G!TileAssumption, TileIInv, NEW cs \in Seq(Walkers), NEW sees, NEW c \in Walkers,
         Grown(G!Visible(u3, u6), G!Visible(cs, sees), c), c \notin Members(G!Visible(u3, u6))
  PROVE  ViewGood(G!Appear(cs, sees, c), CSight(cs, sees), ~u8)
<1> DEFINE s == CSight(u3, u6)
           z == CSight(cs, sees)
           i == G!Position(c, G!Stack(u1, u2, cs, u4, sees))
<1>1. Placed /\ u3 \in Seq(Walkers) /\ TileMax \in Nat /\ ViewGood(u7, s, ~u8) /\ c \in Lying
  BY NowIs
<1>2. s \in Seq(Lying) /\ z \in Seq(Lying) /\ c \notin Members(s) /\ G!Whole(cs, sees) = G!First(z)
  BY <1>1, CSightIs
<1>3. Grown(s, z, c)
  BY <1>1, CSightGrows
<1>4. i = G!Position(c, z)
  BY <1>1, CSightIs
<1>5. G!Appear(cs, sees, c) = IF i > TileMax THEN G!Whole(cs, sees) ELSE G!Inserted(u7, i, c)
  BY DEF G!Appear
<1> HIDE DEF s, z, i
<1>6. ViewGood(G!Inserted(u7, i, c), z, ~u8)
  BY <1>1, <1>2, <1>3, <1>4, ViewGets
<1>7. ViewGood(G!First(z), z, ~u8)
  BY <1>1, <1>2, ViewWhole
<1> QED BY <1>2, <1>5, <1>6, <1>7 DEF z

LEMMA EnterKeeps ==
  ASSUME G!TileAssumption, TileIInv, NEW c \in Walkers, G!Enter(c) PROVE TileIInv'
<1> DEFINE cs == Append(u3, c)
           v == G!Appear(cs, u6, c)
<1>1. c \in u6 /\ ~G!IsIn(c, u3) /\ G!WithCreatures(cs, u6, v) /\ u8' = (u8 /\ u7' # G!Whole(u3', u6))
  BY DEF G!Enter
<1>2. /\ Placed /\ u3 \in Seq(Walkers) /\ Once(u3) /\ u6 \in SUBSET Walkers /\ u8 \in BOOLEAN
  BY NowIs
<1>3. c \notin Members(u3)
  BY <1>1, <1>2, AtIs
<1>4. cs \in Seq(Walkers) /\ Gets(u3, cs, Len(u3) + 1, c)
  BY <1>2, GetsLast
<1>5. G!Visible(cs, u6) = <<c>> \o G!Visible(u3, u6)
  BY <1>1, <1>2, VisibleEnters
<1> HIDE DEF cs
<1>6. Once(cs)
  BY <1>2, <1>3, <1>4, GetsMembers
<1>7. G!Visible(u3, u6) \in Seq(Walkers) /\ c \notin Members(G!Visible(u3, u6))
  BY <1>2, <1>3, SightType
<1>8. Gets(G!Visible(u3, u6), <<c>> \o G!Visible(u3, u6), 1, c)
  BY <1>7, GetsFirst
<1>9. Grown(G!Visible(u3, u6), G!Visible(cs, u6), c)
  BY <1>5, <1>8 DEF Grown
<1>10. ViewGood(v, CSight(cs, u6), ~u8)
  BY <1>4, <1>7, <1>9, AppearGood
<1>11. u7' = v /\ u3' = cs /\ G!Whole(cs, u6) = G!First(CSight(cs, u6))
  BY <1>1, <1>2, <1>4, CSightIs DEF G!WithCreatures
<1> HIDE DEF v
<1>12. u8' \in BOOLEAN /\ (~u8' => ~u8 \/ v = G!First(CSight(cs, u6)))
  BY <1>1, <1>2, <1>11
<1> QED BY <1>1, <1>2, <1>4, <1>6, <1>10, <1>12, CreaturesMove

\* Out of sight, whoever went.
LEMMA LosesSight ==
  ASSUME G!TileAssumption, TileIInv, NEW c \in Walkers, c \in Members(u3), c \in u6,
         NEW cs \in Seq(Walkers), NEW sees, G!Visible(cs, sees) = G!Visible(u3, u6 \ {c})
  PROVE  ViewGood(G!Removed(u7, G!ClientIndex(c)), CSight(cs, sees), ~u8 /\ Len(CSight(cs, sees)) < TileMax)
<1> DEFINE s == CSight(u3, u6)
           z == CSight(cs, sees)
<1>1. /\ Placed /\ u3 \in Seq(Walkers) /\ Once(u3) /\ TileMax \in Nat /\ ViewGood(u7, s, ~u8) /\ c \in Lying
  BY NowIs
<1>2. G!ClientIndex(c) = G!Position(c, s)
  <2>1. u6 \cup {c} = u6
    OBVIOUS
  <2> QED BY <1>1, <2>1, CSightIs DEF G!ClientIndex
<1>3. Grown(G!Visible(cs, sees), G!Visible(u3, u6), c)
  <2>1. Grown(G!Visible(u3, u6 \ {c}), G!Visible(u3, u6 \cup {c}), c)
    BY <1>1, VisibleHides DEF Grown
  <2>2. u6 \cup {c} = u6
    OBVIOUS
  <2> QED BY <2>1, <2>2
<1>4. Grown(z, s, c)
  BY <1>1, <1>3, CSightGrows
<1>5. c \notin Members(G!Visible(cs, sees))
  <2>1. Members(G!Visible(u3, u6 \ {c})) \subseteq Members(u3) \cap (u6 \ {c})
    BY <1>1, SightType
  <2> QED BY <2>1
<1>6. s \in Seq(Lying) /\ z \in Seq(Lying) /\ c \notin Members(z)
  BY <1>1, <1>5, CSightIs
<1> HIDE DEF s, z
<1>7. ViewGood(G!Removed(u7, G!Position(c, s)), z, ~u8 /\ Len(z) < TileMax)
  BY <1>1, <1>4, <1>6, ViewLoses
<1> QED BY <1>2, <1>7 DEF z

LEMMA LeaveKeeps ==
  ASSUME G!TileAssumption, TileIInv, NEW c \in Walkers, G!Leave(c) PROVE TileIInv'
<1> DEFINE cs == G!Without(u3, c)
           old == IF c \in u6 THEN G!Removed(u7, G!ClientIndex(c)) ELSE u7
           n == G!ThingCount(u1, u2, cs, u4)
           s == CSight(cs, u6)
           v == G!Refresh(old, n, G!Stack(u1, u2, cs, u4, u6))
<1>1. G!IsIn(c, u3) /\ G!WithCreatures(cs, u6, v) /\ u8' = (u8 /\ u7' # G!Whole(u3', u6))
  BY DEF G!Leave
<1>2. Placed /\ u3 \in Seq(Walkers) /\ Once(u3) /\ u6 \in SUBSET Walkers /\ u8 \in BOOLEAN /\ TileMax \in Nat
  BY NowIs
<1>3. c \in Members(u3)
  BY <1>1, <1>2, AtIs
<1>4. cs \in Seq(Walkers) /\ \E p : Gets(cs, u3, p, c)
  BY <1>2, <1>3, WithoutGets
<1> HIDE DEF cs
<1>5. Once(cs)
  BY <1>2, <1>4, GetsMembers
<1>6. G!Visible(cs, u6) = G!Visible(u3, u6 \ {c})
  BY <1>2, <1>4, VisibleLeaves
<1>7. s \in Seq(Lying) /\ n \in Nat /\ Len(s) <= n /\ G!Stack(u1, u2, cs, u4, u6) = s /\ G!Whole(cs, u6) = G!First(s)
  BY <1>2, <1>4, CSightIs
<1>8. ViewGood(old, s, ~u8 /\ Len(s) < TileMax)
  <2>1. CASE c \in u6
    BY <1>3, <1>4, <1>6, <2>1, LosesSight
  <2>2. CASE c \notin u6
    <3>1. u6 \ {c} = u6
      BY <2>2
    <3>2. s = CSight(u3, u6)
      BY <1>6, <3>1 DEF CSight
    <3>3. ViewGood(u7, s, ~u8)
      BY <3>2, NowIs
    <3> QED BY <2>2, <3>3 DEF ViewGood
  <2> QED BY <2>1, <2>2
<1>9. v = G!Refresh(old, n, s)
  BY <1>7
<1> HIDE DEF old, n, s, v
<1>10. ViewGood(v, s, ~u8)
  BY <1>2, <1>7, <1>8, <1>9, ViewRefreshed
<1>11. u7' = v /\ u3' = cs
  BY <1>1 DEF G!WithCreatures
<1>12. u8' \in BOOLEAN /\ (~u8' => ~u8 \/ v = G!First(s))
  BY <1>1, <1>2, <1>7, <1>11
<1> QED BY <1>1, <1>2, <1>4, <1>5, <1>10, <1>12, CreaturesMove DEF s

LEMMA HideKeeps ==
  ASSUME G!TileAssumption, TileIInv, NEW c \in Walkers, G!Hide(c) PROVE TileIInv'
<1> DEFINE v == G!Removed(u7, G!ClientIndex(c))
           sees == u6 \ {c}
           s == CSight(u3, sees)
<1>1. G!IsIn(c, u3) /\ c \in u6 /\ G!WithCreatures(u3, sees, v) /\ u8' = (u7' # G!Whole(u3, u6'))
  BY DEF G!Hide
<1>2. Placed /\ u3 \in Seq(Walkers) /\ Once(u3) /\ sees \in SUBSET Walkers
  BY NowIs
<1>3. c \in Members(u3)
  BY <1>1, <1>2, AtIs
<1>4. ViewGood(v, s, ~u8 /\ Len(s) < TileMax)
  BY <1>1, <1>2, <1>3, LosesSight
<1>5. G!Whole(u3, sees) = G!First(s)
  BY <1>2, CSightIs
<1>6. u7' = v /\ u6' = sees
  BY <1>1 DEF G!WithCreatures
<1> HIDE DEF v, sees
<1>7. ViewGood(v, CSight(u3, sees), ~u8 /\ Len(s) < TileMax) /\ u8' \in BOOLEAN /\ (~u8' => v = G!First(CSight(u3, sees)))
  BY <1>1, <1>4, <1>5, <1>6
<1> HIDE DEF s
<1> QED BY <1>1, <1>2, <1>7, CreaturesMove

LEMMA ComesInSightKeeps ==
  ASSUME G!TileAssumption, TileIInv, NEW c \in Walkers, G!Show(c) PROVE TileIInv'
<1> DEFINE sees == u6 \cup {c}
           v == G!Appear(u3, sees, c)
           s == CSight(u3, sees)
<1>1. G!IsIn(c, u3) /\ c \notin u6 /\ G!WithCreatures(u3, sees, v) /\ u8' = (u8 /\ u7' # G!Whole(u3, u6'))
  BY DEF G!Show
<1>2. Placed /\ u3 \in Seq(Walkers) /\ Once(u3) /\ sees \in SUBSET Walkers /\ u8 \in BOOLEAN
  BY NowIs
<1>3. c \in Members(u3)
  BY <1>1, <1>2, AtIs
<1>4. Grown(G!Visible(u3, u6), G!Visible(u3, sees), c)
  <2>1. Grown(G!Visible(u3, u6 \ {c}), G!Visible(u3, u6 \cup {c}), c)
    BY <1>2, <1>3, VisibleHides DEF Grown
  <2>2. u6 \ {c} = u6
    BY <1>1
  <2> QED BY <2>1, <2>2
<1>5. c \notin Members(G!Visible(u3, u6))
  BY <1>1, <1>2, SightType
<1>6. ViewGood(v, s, ~u8)
  BY <1>2, <1>4, <1>5, AppearGood
<1>7. G!Whole(u3, sees) = G!First(s)
  BY <1>2, CSightIs
<1>8. u7' = v /\ u6' = sees
  BY <1>1 DEF G!WithCreatures
<1> HIDE DEF v, sees
<1>9. ViewGood(v, CSight(u3, sees), ~u8) /\ u8' \in BOOLEAN /\ (~u8' => ~u8 \/ v = G!First(CSight(u3, sees)))
  BY <1>1, <1>2, <1>6, <1>7, <1>8
<1> HIDE DEF s
<1> QED BY <1>1, <1>2, <1>9, CreaturesMove

LEMMA RevealKeeps ==
  ASSUME G!TileAssumption, TileIInv, NEW c \in Walkers, G!Reveal(c) PROVE TileIInv'
<1> DEFINE sees == u6 \cup {c}
<1>1. ~G!IsIn(c, u3) /\ G!WithCreatures(u3, sees, u7) /\ u8' = u8
  BY DEF G!Reveal
<1>2. u3 \in Seq(Walkers) /\ Once(u3) /\ sees \in SUBSET Walkers /\ u8 \in BOOLEAN /\ ViewGood(u7, CSight(u3, u6), ~u8)
  BY NowIs
<1>3. c \notin Members(u3)
  BY <1>1, <1>2, AtIs
<1>4. G!Visible(u3, sees) = G!Visible(u3, u6)
  BY <1>2, <1>3, VisibleSame
<1>5. CSight(u3, sees) = CSight(u3, u6)
  BY <1>4 DEF CSight
<1> HIDE DEF sees
<1>6. ViewGood(u7, CSight(u3, sees), ~u8) /\ u8' \in BOOLEAN /\ (~u8' => ~u8)
  BY <1>1, <1>2, <1>5
<1> QED BY <1>1, <1>2, <1>6, CreaturesMove

LEMMA TileInit ==
  ASSUME G!TileAssumption, G!Init PROVE TileIInv
<1>1. u1 = None /\ u2 = <<>> /\ u3 = <<>> /\ u4 = <<>> /\ u5 = {} /\ u6 = Walkers /\ u7 = <<>> /\ u8 = FALSE /\ u9 = FALSE
  BY DEF G!Init
<1>2. \A T : <<>> \in Seq(T) /\ Len(<<>>) = 0
  OBVIOUS
<1>3. Members(<<>>) = {} /\ Once(<<>>)
  BY DEF Members, Once
<1>4. Walked
  BY <1>1, <1>2, <1>3 DEF Walked
<1>5. G!Tile = Laid(None, <<>>, <<>>, {}, <<>>)
  BY <1>1, TileIs
<1>6. G!Tile \in Laids
  BY <1>2, <1>5, LaidFields
<1>7. Rest(G!Tile) /\ Held(G!Tile) = {}
  BY <1>1, <1>3, <1>6, BaseIs, TileIs DEF Rest, OneWet, Held
<1>8. FlagsGood(Held(G!Tile), G!Tile.fl, u9)
  BY <1>1, <1>7, TileIs DEF FlagsGood
<1>9. G!StackOf(G!Tile) = <<>>
  <2>1. G!Visible(u3, u6) \in Seq(Walkers) /\ Len(G!Visible(u3, u6)) <= 0
    BY <1>1, <1>2, SightType
  <2>2. G!Visible(u3, u6) = <<>>
    BY <2>1, EmptySeq
  <2>3. G!StackOf(G!Tile) = Joined(<<>>, <<>>, <<>>, <<>>)
    BY <1>1, <1>4, <1>6, <2>2, StackIs, BaseIs, TileIs
  <2> QED BY <2>3 DEF Joined
<1>10. ViewGood(<<>>, <<>>, ~u8)
  <2>1. TileMax \in Nat
    BY DEF G!TileAssumption
  <2>2. G!First(<<>>) = <<>>
    BY <2>1 DEF G!First
  <2>3. <<>> \in Seq(Lying)
    OBVIOUS
  <2>4. ViewGood(G!First(<<>>), <<>>, ~u8)
    BY <2>1, <2>3, ViewWhole
  <2> QED BY <2>2, <2>4
<1> QED BY <1>1, <1>4, <1>7, <1>8, <1>9, <1>10, TileIs DEF TileIInv, TileGood

LEMMA TileStep ==
  ASSUME G!TileAssumption, TileIInv, G!Next PROVE TileIInv'
<1>1. ASSUME NEW i \in G!Items, G!AddItem(i) \/ G!RemoveItem(i) PROVE TileIInv'
  BY <1>1, AddItemKeeps, RemoveItemKeeps
<1>2. ASSUME NEW i \in G!Items, NEW j \in G!Items, G!Transform(i, j) \/ G!TransformAcross(i, j) PROVE TileIInv'
  BY <1>2, TransformKeeps, TransformAcrossKeeps
<1>3. ASSUME NEW c \in Walkers, G!Enter(c) \/ G!Leave(c) \/ G!Hide(c) \/ G!Show(c) \/ G!Reveal(c) PROVE TileIInv'
  BY <1>3, EnterKeeps, LeaveKeeps, HideKeeps, ComesInSightKeeps, RevealKeeps
<1> QED BY <1>1, <1>2, <1>3 DEF G!Next

LEMMA TileInvHolds ==
  ASSUME G!TileAssumption, TileIInv PROVE G!TileInv
<1>1. /\ Placed /\ u3 \in Seq(Walkers) /\ Once(u3) /\ u6 \in SUBSET Walkers /\ ViewGood(u7, CSight(u3, u6), ~u8)
  BY NowIs
<1>2. Once(u2) /\ Once(u4) /\ OneWet(u2) /\ FlagsGood(Held(G!Tile), u5, u9)
  BY TileIs DEF TileIInv, TileGood, Rest
<1>3. u1 \in Grounds \cup {None} /\ u2 \in Seq(Tops) /\ u4 \in Seq(Downs)
  BY <1>1 DEF Placed
<1>4. G!Range(u2) = Members(u2) /\ G!Range(u3) = Members(u3) /\ G!Range(u4) = Members(u4)
  BY <1>1, <1>3, AtIs
<1>5. \A s \in {u2, u4, u3} : G!IsInjective(s)
  <2>1. ASSUME NEW T, NEW s \in Seq(T), Once(s) PROVE G!IsInjective(s)
    BY <2>1 DEF Once, G!IsInjective
  <2> QED BY <1>1, <1>2, <1>3, <2>1
<1>6. G!TileTypeOK
  <2>1. Members(u2) \subseteq Tops /\ Members(u4) \subseteq Downs /\ Members(u3) \subseteq Walkers
    BY <1>1, <1>3 DEF Members
  <2>2. u5 \subseteq {"block", "field"}
    BY <1>2 DEF FlagsGood
  <2> QED BY <1>1, <1>3, <1>4, <1>5, <2>1, <2>2 DEF G!TileTypeOK
<1>7. G!ClientAgrees
  <2> DEFINE s == CSight(u3, u6)
  <2>1. G!Stack(u1, u2, u3, u4, u6) = s /\ G!Whole(u3, u6) = G!First(s) /\ s \in Seq(Lying)
    BY <1>1, CSightIs
  <2>2. u7 \in Seq(Lying) /\ Clips(u7, s) /\ (~u8 => u7 = G!First(s))
    BY <1>1 DEF ViewGood
  <2> HIDE DEF s
  <2>3. G!IsPrefix(u7, s)
    BY <2>1, <2>2 DEF Clips, G!IsPrefix
  <2> QED BY <2>1, <2>2, <2>3 DEF G!ClientAgrees
<1>8. G!OneSplash
  <2> DEFINE X == Members(u2) \cap Splashes
  <2>1. \A x, y \in X : x = y
    BY <1>2 DEF OneWet
  <2>2. G!Cardinality(X) = Cardinality(X)
    BY DEF G!Cardinality, Cardinality
  <2>3. Cardinality(X) <= 1
    <3>1. CASE X = {}
      BY <3>1, FS_EmptySet
    <3>2. CASE X # {}
      <4>1. PICK x \in X : TRUE
        BY <3>2
      <4>2. X = {x}
        BY <2>1
      <4>3. Cardinality({x}) = 1
        BY FS_Singleton
      <4> QED BY <4>2, <4>3
    <3> QED BY <3>1, <3>2
  <2> HIDE DEF X
  <2> QED BY <1>4, <2>2, <2>3 DEF G!OneSplash, X
<1>9. G!FlagsTrue
  <2>1. G!Here = Held(G!Tile)
    BY HereIs
  <2>2. u9 \in BOOLEAN
    BY DEF TileIInv
  <2> QED BY <1>2, <2>1, <2>2 DEF FlagsGood, G!FlagsTrue
<1> QED BY <1>6, <1>7, <1>8, <1>9 DEF G!TileInv

-----------------------------------------------------------------------------
(* Containers: which bags are around them.                                 *)

\* What is around c: c, where f says that it lies, if it is one of B, and so on.
Outward(f, B, c) ==
  LET up[n \in 0 .. Cardinality(B)] ==
        IF n = 0 THEN {c} ELSE up[n - 1] \cup {f[x] : x \in up[n - 1] \cap B}
  IN up[Cardinality(B)]
Wider(f, B, A) == A \cup {f[x] : x \in A \cap B}
Widens(f, B, c, N, h) == h = [n \in 0 .. N |-> IF n = 0 THEN {c} ELSE Wider(f, B, h[n - 1])]

LEMMA WideningExists ==
  ASSUME NEW f, NEW B, NEW c, NEW N \in Nat PROVE \E h : Widens(f, B, c, N, h)
<1> DEFINE P == {n \in Nat : \E h : Widens(f, B, c, n, h)}
<1>1. 0 \in P
  <2> DEFINE h == [n \in 0 .. 0 |-> {c}]
  <2>1. Widens(f, B, c, 0, h)
    BY DEF Widens
  <2> HIDE DEF h
  <2> QED BY <2>1
<1>2. ASSUME NEW m \in Nat, m \in P PROVE m + 1 \in P
  <2>1. PICK h : Widens(f, B, c, m, h)
    BY <1>2
  <2> DEFINE k == [n \in 0 .. (m + 1) |-> IF n = m + 1 THEN Wider(f, B, h[m]) ELSE h[n]]
             G1(n) == IF n = 0 THEN {c} ELSE Wider(f, B, k[n - 1])
  <2>2. h = [n \in 0 .. m |-> IF n = 0 THEN {c} ELSE Wider(f, B, h[n - 1])]
    BY <2>1 DEF Widens
  <2>3. \A n \in 0 .. m : h[n] = IF n = 0 THEN {c} ELSE Wider(f, B, h[n - 1])
    BY <2>2
  <2>4. ASSUME NEW n \in 0 .. (m + 1) PROVE k[n] = G1(n)
    <3>1. CASE n = m + 1
      <4>1. n - 1 = m /\ n # 0 /\ m \in 0 .. (m + 1) /\ m # m + 1
        BY <3>1
      <4>2. k[n] = Wider(f, B, h[m]) /\ k[m] = h[m]
        BY <3>1, <4>1
      <4> HIDE DEF k
      <4> QED BY <4>1, <4>2
    <3>2. CASE n # m + 1
      <4>1. n \in 0 .. m /\ (n # 0 => n - 1 \in 0 .. (m + 1) /\ n - 1 # m + 1)
        BY <3>2
      <4>2. k[n] = h[n] /\ (n # 0 => k[n - 1] = h[n - 1])
        BY <3>2, <4>1
      <4> HIDE DEF k
      <4> QED BY <2>3, <4>1, <4>2
    <3> QED BY <3>1, <3>2
  <2>5. k = [n \in 0 .. (m + 1) |-> G1(n)]
    <3>1. k = [n \in 0 .. (m + 1) |-> k[n]]
      OBVIOUS
    <3> HIDE DEF k, G1
    <3> QED BY <2>4, <3>1
  <2>6. Widens(f, B, c, m + 1, k)
    BY <2>5 DEF Widens
  <2> HIDE DEF k
  <2> QED BY <2>6
<1> HIDE DEF P
<1>3. Nat \subseteq P
  BY <1>1, <1>2, AllNumbers
<1> QED BY <1>3 DEF P

\* After as many steps as there are containers nothing more is added.
Closed(f, B, A) == \A x \in A \cap B : f[x] \in A

LEMMA OutwardIs ==
  ASSUME NEW f, NEW B, IsFiniteSet(B), NEW c
  PROVE  /\ c \in Outward(f, B, c) /\ Closed(f, B, Outward(f, B, c))
         /\ \A A : c \in A /\ Closed(f, B, A) => Outward(f, B, c) \subseteq A
<1> DEFINE N == Cardinality(B)
<1>0. N \in Nat
  BY FS_CardinalityType
<1>1. PICK h : Widens(f, B, c, N, h) /\ Outward(f, B, c) = h[N]
  <2> DEFINE g == CHOOSE u : Widens(f, B, c, N, u)
  <2>1. Outward(f, B, c) = g[N]
    BY DEF Outward, Widens, Wider
  <2>2. Widens(f, B, c, N, g)
    BY <1>0, WideningExists
  <2> QED BY <2>1, <2>2
<1> HIDE DEF N
<1>2. \A n \in 0 .. N : h[n] = IF n = 0 THEN {c} ELSE Wider(f, B, h[n - 1])
  <2>1. h = [n \in 0 .. N |-> IF n = 0 THEN {c} ELSE Wider(f, B, h[n - 1])]
    BY <1>1 DEF Widens
  <2> QED BY <2>1
<1>3. h[0] = {c} /\ \A n \in 0 .. N : n + 1 \in 0 .. N => h[n + 1] = Wider(f, B, h[n])
  <2>1. 0 \in 0 .. N /\ \A n \in 0 .. N : n + 1 # 0 /\ (n + 1) - 1 = n
    BY <1>0
  <2> QED BY <1>2, <2>1
<1> DEFINE Front(n, z) ==
             /\ z \in h[n] /\ \A x \in (h[n] \cap B) \ {z} : f[x] \in h[n]
             /\ z \notin B \/ f[z] \in h[n] \/ Cardinality(h[n] \cap B) >= n + 1
           P == {n \in Nat : n \in 0 .. N => c \in h[n] /\ \E z : Front(n, z)}
<1>4. 0 \in P
  <2>1. CASE c \in B
    <3>1. h[0] \cap B = {c} /\ Cardinality({c}) = 1
      BY <1>3, <2>1, FS_Singleton
    <3>2. Front(0, c)
      BY <1>3, <3>1
    <3> QED BY <1>3, <3>2
  <2>2. CASE c \notin B
    <3>1. Front(0, c)
      BY <1>3, <2>2
    <3> QED BY <1>3, <3>1
  <2> QED BY <2>1, <2>2
<1>5. ASSUME NEW n \in Nat, n \in P PROVE n + 1 \in P
  <2> SUFFICES ASSUME n + 1 \in 0 .. N PROVE c \in h[n + 1] /\ \E z : Front(n + 1, z)
    OBVIOUS
  <2>1. n \in 0 .. N
    BY <1>0
  <2>2. c \in h[n] /\ \E z : Front(n, z)
    BY <1>5, <2>1
  <2>3. PICK z : Front(n, z)
    BY <2>2
  <2> DEFINE A == h[n]
             m == n + 1
  <2>4. h[m] = Wider(f, B, A) /\ A \subseteq h[m] /\ \A x \in A \cap B : f[x] \in h[m]
    BY <1>3, <2>1 DEF Wider
  <2>5. /\ z \in A /\ \A x \in (A \cap B) \ {z} : f[x] \in A
        /\ z \notin B \/ f[z] \in A \/ Cardinality(A \cap B) >= n + 1
        /\ m \in Nat /\ m = n + 1
    BY <2>3
  <2> HIDE DEF A, m
  <2>6. CASE z \notin B \/ f[z] \in A
    <3>1. h[m] = A
      BY <2>4, <2>5, <2>6 DEF Wider
    <3>2. z \in h[m] /\ (\A x \in (h[m] \cap B) \ {z} : f[x] \in h[m]) /\ (z \notin B \/ f[z] \in h[m])
      BY <2>5, <2>6, <3>1
    <3>3. Front(m, z)
      BY <3>2
    <3> QED BY <2>2, <2>4, <3>3 DEF A, m
  <2>7. CASE z \in B /\ f[z] \notin A /\ Cardinality(A \cap B) >= n + 1
    <3>1. h[m] = A \cup {f[z]}
      BY <2>4, <2>5, <2>7 DEF Wider
    <3>2. f[z] \in h[m] /\ \A x \in (h[m] \cap B) \ {f[z]} : f[x] \in h[m]
      BY <2>4, <3>1
    <3>3. f[z] \notin B \/ f[f[z]] \in h[m] \/ Cardinality(h[m] \cap B) >= m + 1
      <4> SUFFICES ASSUME f[z] \in B PROVE Cardinality(h[m] \cap B) >= m + 1
        OBVIOUS
      <4>1. h[m] \cap B = (A \cap B) \cup {f[z]} /\ f[z] \notin A \cap B
        BY <2>7, <3>1
      <4>2. IsFiniteSet(A \cap B) /\ Cardinality(A \cap B) \in Nat
        BY FS_Subset, FS_CardinalityType
      <4>3. Cardinality((A \cap B) \cup {f[z]}) = Cardinality(A \cap B) + 1
        BY <4>1, <4>2, FS_AddElement
      <4> QED BY <2>5, <2>7, <4>1, <4>2, <4>3
    <3>4. Front(m, f[z])
      BY <3>2, <3>3
    <3> QED BY <2>2, <2>4, <3>4 DEF A, m
  <2> QED BY <2>5, <2>6, <2>7
<1> HIDE DEF P
<1>6. Nat \subseteq P
  BY <1>4, <1>5, AllNumbers
<1> DEFINE O1 == h[N]
<1>7. c \in O1 /\ Closed(f, B, O1)
  <2>1. N \in 0 .. N /\ N \in P
    BY <1>0, <1>6
  <2>2. c \in h[N] /\ \E z : Front(N, z)
    BY <2>1 DEF P
  <2>3. PICK z : Front(N, z)
    BY <2>2
  <2>4. IsFiniteSet(h[N] \cap B) /\ Cardinality(h[N] \cap B) <= N /\ Cardinality(h[N] \cap B) \in Nat
    BY FS_Subset, FS_CardinalityType DEF N
  <2>5. z \notin B \/ f[z] \in h[N]
    BY <1>0, <2>3, <2>4
  <2> QED BY <2>2, <2>3, <2>5 DEF Closed
<1>8. ASSUME NEW A, c \in A, Closed(f, B, A) PROVE O1 \subseteq A
  <2> DEFINE Q == {n \in Nat : n \in 0 .. N => h[n] \subseteq A}
  <2>1. 0 \in Q
    BY <1>3, <1>8
  <2>2. ASSUME NEW n \in Nat, n \in Q PROVE n + 1 \in Q
    <3> SUFFICES ASSUME n + 1 \in 0 .. N PROVE h[n + 1] \subseteq A
      OBVIOUS
    <3>1. n \in 0 .. N
      BY <1>0
    <3>2. h[n] \subseteq A /\ h[n + 1] = Wider(f, B, h[n])
      BY <1>3, <2>2, <3>1
    <3> QED BY <1>8, <3>2 DEF Wider, Closed
  <2> HIDE DEF Q
  <2>3. Nat \subseteq Q
    BY <2>1, <2>2, AllNumbers
  <2>4. N \in 0 .. N /\ N \in Q
    BY <1>0, <2>3
  <2> QED BY <2>4 DEF Q
<1> HIDE DEF O1
<1> QED BY <1>1, <1>7, <1>8 DEF O1

LEMMA OutNext ==
  ASSUME NEW f, NEW B, IsFiniteSet(B), NEW c
  PROVE  Outward(f, B, c) = IF c \in B THEN {c} \cup Outward(f, B, f[c]) ELSE {c}
<1>1. CASE c \in B
  <2> DEFINE A == {c} \cup Outward(f, B, f[c])
  <2>1. c \in A /\ Closed(f, B, A)
    BY OutwardIs DEF Closed
  <2>2. c \in Outward(f, B, c) /\ f[c] \in Outward(f, B, c) /\ Closed(f, B, Outward(f, B, c))
    BY <1>1, OutwardIs DEF Closed
  <2>3. Outward(f, B, f[c]) \subseteq Outward(f, B, c)
    BY <2>2, OutwardIs
  <2> HIDE DEF A
  <2>4. Outward(f, B, c) \subseteq A
    BY <2>1, OutwardIs
  <2> QED BY <1>1, <2>2, <2>3, <2>4 DEF A
<1>2. CASE c \notin B
  <2> DEFINE A == {c}
  <2>1. c \in A /\ Closed(f, B, A)
    BY <1>2 DEF Closed
  <2> HIDE DEF A
  <2>2. Outward(f, B, c) \subseteq A /\ c \in Outward(f, B, c)
    BY <2>1, OutwardIs
  <2> QED BY <1>2, <2>2 DEF A
<1> QED BY <1>1, <1>2

LEMMA OutGoesOn ==
  ASSUME NEW f, NEW B, IsFiniteSet(B), NEW c, NEW y \in Outward(f, B, c)
  PROVE  Outward(f, B, y) \subseteq Outward(f, B, c)
BY OutwardIs

LEMMA OutSame ==
  ASSUME NEW f, NEW g, NEW B, IsFiniteSet(B), NEW c, \A y \in Outward(f, B, c) \cap B : g[y] = f[y]
  PROVE  Outward(g, B, c) = Outward(f, B, c)
<1> DEFINE A == Outward(f, B, c)
           C == Outward(g, B, c)
<1>1. c \in A /\ Closed(f, B, A) /\ c \in C /\ Closed(g, B, C)
  BY OutwardIs
<1>2. Closed(g, B, A)
  BY <1>1 DEF Closed
<1>3. C \subseteq A
  BY <1>1, <1>2, OutwardIs
<1>4. Closed(f, B, C)
  BY <1>1, <1>3 DEF Closed
<1>5. A \subseteq C
  BY <1>1, <1>4, OutwardIs
<1> QED BY <1>3, <1>5

\* At the end of the way there is one thing that is no container.
LEMMA OneTop ==
  ASSUME NEW f, NEW B, IsFiniteSet(B), NEW c, NEW s \in Outward(f, B, c) \ B, NEW t \in Outward(f, B, c) \ B
  PROVE  s = t
<1> DEFINE A == {x \in Outward(f, B, c) : t \in Outward(f, B, x)}
<1>1. c \in A
  BY OutwardIs
<1>2. Closed(f, B, A)
  <2> SUFFICES ASSUME NEW x \in A \cap B PROVE f[x] \in A
    BY DEF Closed
  <2>1. f[x] \in Outward(f, B, c)
    BY OutwardIs DEF Closed
  <2>2. t \in Outward(f, B, f[x])
    <3>1. Outward(f, B, x) = {x} \cup Outward(f, B, f[x])
      BY OutNext
    <3> QED BY <3>1
  <2> QED BY <2>1, <2>2
<1> HIDE DEF A
<1>3. Outward(f, B, c) \subseteq A
  BY <1>1, <1>2, OutwardIs
<1>4. t \in Outward(f, B, s)
  BY <1>3 DEF A
<1>5. Outward(f, B, s) = {s}
  BY OutNext
<1> QED BY <1>4, <1>5

\* No container lies in itself.
NoLoop(f, B) == \A x \in B : x \notin Outward(f, B, f[x])

LEMMA TopExists ==
  ASSUME NEW f, NEW B, IsFiniteSet(B), NEW c, NoLoop(f, B)
  PROVE  \E t \in Outward(f, B, c) : t \notin B
<1> SUFFICES ASSUME \A t \in Outward(f, B, c) : t \in B PROVE FALSE
  OBVIOUS
<1> DEFINE O1(t) == Outward(f, B, t)
           S1 == {Cardinality(O1(t)) : t \in O1(c)}
           Less == {ss \in Nat \X Nat : ss[1] < ss[2]}
<1>0. \A t \in O1(c) : t \in B /\ O1(t) \subseteq O1(c)
  BY OutGoesOn
<1>1. \A t \in O1(c) : IsFiniteSet(O1(t)) /\ Cardinality(O1(t)) \in Nat
  <2>1. O1(c) \subseteq B
    BY <1>0
  <2> HIDE DEF O1
  <2> QED BY <1>0, <2>1, FS_Subset, FS_CardinalityType
<1>2. S1 \subseteq Nat /\ S1 # {}
  BY <1>1, OutwardIs
<1>3. PICK k \in S1 : \A j \in S1 : ~(<<j, k>> \in Less)
  <2>1. IsWellFoundedOn(Less, Nat)
    BY NatLessThanWellFounded DEF OpToRel
  <2> HIDE DEF Less, S1
  <2> QED BY <1>2, <2>1, WFMin
<1>4. PICK t \in O1(c) : k = Cardinality(O1(t))
  BY <1>3
<1>5. t \in B /\ O1(t) = {t} \cup O1(f[t]) /\ t \notin O1(f[t])
  BY <1>0, OutNext DEF NoLoop
<1>6. f[t] \in O1(c)
  BY <1>5, OutwardIs DEF Closed
<1>7. Cardinality(O1(t)) = Cardinality(O1(f[t])) + 1
  <2> DEFINE A == O1(f[t])
  <2>1. IsFiniteSet(A) /\ t \notin A /\ O1(t) = A \cup {t}
    BY <1>1, <1>5, <1>6
  <2> HIDE DEF A
  <2>2. Cardinality(A \cup {t}) = Cardinality(A) + 1
    BY <2>1, FS_AddElement
  <2> QED BY <2>1, <2>2 DEF A
<1>8. Cardinality(O1(f[t])) \in S1 /\ Cardinality(O1(f[t])) \in Nat /\ k = Cardinality(O1(f[t])) + 1
  BY <1>1, <1>4, <1>6, <1>7
<1>9. <<Cardinality(O1(f[t])), k>> \in Less
  BY <1>8
<1> HIDE DEF Less, S1
<1> QED BY <1>3, <1>8, <1>9

\* When m is put where it does not lie in itself, what m was around has m around still, and
\* then what is around the new place.
Put(f, g, B, m, to) ==
  m \in B /\ g[m] = to /\ (\A y \in B \ {m} : g[y] = f[y]) /\ m \notin Outward(f, B, to)

LEMMA OutMoved ==
  ASSUME NEW f, NEW g, NEW B, IsFiniteSet(B), NEW m, NEW to, Put(f, g, B, m, to)
  PROVE  /\ Outward(g, B, to) = Outward(f, B, to)
         /\ \A c : m \notin Outward(f, B, c) => Outward(g, B, c) = Outward(f, B, c)
         /\ \A c : m \in Outward(f, B, c) =>
              /\ m \in Outward(g, B, c) /\ Outward(f, B, to) \subseteq Outward(g, B, c)
              /\ Outward(g, B, c) \subseteq Outward(f, B, c) \cup Outward(f, B, to)
         /\ NoLoop(f, B) => NoLoop(g, B)
<1>0. m \in B /\ g[m] = to /\ (\A y \in B \ {m} : g[y] = f[y]) /\ m \notin Outward(f, B, to)
  BY DEF Put
<1>1. ASSUME NEW c, m \notin Outward(f, B, c) PROVE Outward(g, B, c) = Outward(f, B, c)
  BY <1>0, <1>1, OutSame
<1>2. Outward(g, B, to) = Outward(f, B, to)
  BY <1>0, <1>1
<1>3. ASSUME NEW c, m \in Outward(f, B, c)
      PROVE  /\ m \in Outward(g, B, c) /\ Outward(f, B, to) \subseteq Outward(g, B, c)
             /\ Outward(g, B, c) \subseteq Outward(f, B, c) \cup Outward(f, B, to)
  <2>1. m \in Outward(g, B, c)
    <3> SUFFICES ASSUME m \notin Outward(g, B, c) PROVE FALSE
      OBVIOUS
    <3>1. \A y \in Outward(g, B, c) \cap B : f[y] = g[y]
      BY <1>0
    <3>2. Outward(f, B, c) = Outward(g, B, c)
      BY <3>1, OutSame
    <3> QED BY <1>3, <3>2
  <2>2. Outward(g, B, m) \subseteq Outward(g, B, c) /\ Outward(g, B, m) = {m} \cup Outward(g, B, to)
    BY <1>0, <2>1, OutGoesOn, OutNext
  <2> DEFINE A == Outward(f, B, c) \cup Outward(f, B, to)
  <2>3. c \in A /\ Closed(g, B, A)
    BY <1>0, OutwardIs DEF Closed
  <2> HIDE DEF A
  <2>4. Outward(g, B, c) \subseteq A
    BY <2>3, OutwardIs
  <2> QED BY <1>2, <2>1, <2>2, <2>4 DEF A
<1>4. ASSUME NoLoop(f, B), NEW x \in B, x \in Outward(g, B, g[x]) PROVE FALSE
  <2>1. x # m
    BY <1>0, <1>2, <1>4
  <2>2. g[x] = f[x] /\ x \notin Outward(f, B, f[x])
    BY <1>0, <1>4, <2>1 DEF NoLoop
  <2>3. m \in Outward(f, B, f[x])
    BY <1>1, <1>4, <2>2
  <2>4. x \in Outward(f, B, to)
    BY <1>3, <1>4, <2>2, <2>3
  <2>5. Outward(f, B, f[x]) \subseteq Outward(f, B, to)
    BY <2>4, OutwardIs, OutGoesOn DEF Closed
  <2> QED BY <1>0, <2>3, <2>5
<1>5. NoLoop(f, B) => NoLoop(g, B)
  BY <1>4 DEF NoLoop
<1> QED BY <1>0, <1>1, <1>2, <1>3, <1>5

\* What is taken out of all containers lies in less.
LEMMA OutLess ==
  ASSUME NEW f, NEW g, NEW B, IsFiniteSet(B), NEW n, n \notin B, \A y \in B : g[y] \in {f[y], n}, NoLoop(f, B)
  PROVE  NoLoop(g, B)
<1> SUFFICES ASSUME NEW x \in B, x \in Outward(g, B, g[x]) PROVE FALSE
  BY DEF NoLoop
<1>1. Outward(g, B, n) = {n}
  BY OutNext
<1>2. g[x] = f[x]
  BY <1>1
<1> DEFINE A == Outward(f, B, f[x]) \cup {n}
<1>3. f[x] \in A /\ Closed(g, B, A)
  BY OutwardIs DEF Closed
<1> HIDE DEF A
<1>4. Outward(g, B, f[x]) \subseteq A
  BY <1>3, OutwardIs
<1> QED BY <1>2, <1>4 DEF A, NoLoop

-----------------------------------------------------------------------------
(* Sums.                                                                   *)

SumStep(w, it, s) ==
  IF s = {} THEN 0 ELSE w[CHOOSE x \in s : TRUE] + it[s \ {CHOOSE x \in s : TRUE}]
SumsUp(w, S0, it) == it = [s \in SUBSET S0 |-> SumStep(w, it, s)]
SumsUpTo(w, S0, it, n) ==
  \A s \in SUBSET S0 : Cardinality(s) <= n => it[s] = SumStep(w, it, s)
SumOver(w, S0) == L!MapThenSumSet(LAMBDA x : w[x], S0)

LEMMA SubsetsAreSmaller ==
  ASSUME NEW S0, IsFiniteSet(S0), NEW s \in SUBSET S0, s # {}
  PROVE  /\ (CHOOSE x \in s : TRUE) \in s
         /\ s \ {CHOOSE x \in s : TRUE} \in SUBSET S0
         /\ Cardinality(s) \in Nat
         /\ Cardinality(s \ {CHOOSE x \in s : TRUE}) = Cardinality(s) - 1
         /\ Cardinality(s) <= Cardinality(S0)
<1>1. (CHOOSE x \in s : TRUE) \in s
  OBVIOUS
<1>2. IsFiniteSet(s) /\ Cardinality(s) \in Nat /\ Cardinality(s) <= Cardinality(S0)
  BY FS_Subset, FS_CardinalityType
<1>3. Cardinality(s \ {CHOOSE x \in s : TRUE}) = Cardinality(s) - 1
  BY <1>1, <1>2, FS_RemoveElement
<1> QED BY <1>1, <1>2, <1>3

LEMMA SumsUpIs ==
  ASSUME NEW w, NEW S0, NEW it, SumsUp(w, S0, it)
  PROVE  \A s \in SUBSET S0 : it[s] = SumStep(w, it, s)
<1>1. it = [s \in SUBSET S0 |-> SumStep(w, it, s)]
  BY DEF SumsUp
<1> QED BY <1>1

\* A set of sizes that has 0 and the next of each has the size of every subset.
LEMMA SumExists ==
  ASSUME NEW w, NEW S0, IsFiniteSet(S0) PROVE \E it : SumsUp(w, S0, it)
<1> DEFINE N == {n \in Nat : \E it : SumsUpTo(w, S0, it, n)}
           pick(s) == CHOOSE x \in s : TRUE
<1>1. 0 \in N
  <2> DEFINE it == [s \in SUBSET S0 |-> 0]
  <2>1. \A s \in SUBSET S0 : Cardinality(s) <= 0 => s = {}
    BY FS_Subset, FS_EmptySet, FS_CardinalityType
  <2>2. SumsUpTo(w, S0, it, 0)
    BY <2>1 DEF SumsUpTo, SumStep
  <2> QED BY <2>2
<1>2. ASSUME NEW n \in Nat, n \in N PROVE n + 1 \in N
  <2>1. PICK it : SumsUpTo(w, S0, it, n)
    BY <1>2
  <2> DEFINE jt == [s \in SUBSET S0 |-> IF Cardinality(s) <= n THEN it[s] ELSE SumStep(w, it, s)]
  <2>2. ASSUME NEW s \in SUBSET S0, Cardinality(s) <= n + 1 PROVE jt[s] = SumStep(w, jt, s)
    <3>1. jt[s] = SumStep(w, it, s)
      BY <2>1 DEF SumsUpTo
    <3>2. CASE s = {}
      BY <3>1, <3>2 DEF SumStep
    <3>3. CASE s # {}
      <4>1. pick(s) \in s /\ s \ {pick(s)} \in SUBSET S0 /\ Cardinality(s \ {pick(s)}) = Cardinality(s) - 1
            /\ Cardinality(s) \in Nat
        BY <3>3, SubsetsAreSmaller
      <4>2. Cardinality(s \ {pick(s)}) <= n
        BY <2>2, <4>1
      <4>3. jt[s \ {pick(s)}] = it[s \ {pick(s)}]
        BY <4>1, <4>2
      <4> HIDE DEF jt
      <4> QED BY <3>1, <3>3, <4>3 DEF SumStep
    <3> QED BY <3>2, <3>3
  <2> HIDE DEF jt
  <2>3. SumsUpTo(w, S0, jt, n + 1)
    BY <2>2 DEF SumsUpTo
  <2> QED BY <2>3
<1>3. Nat \subseteq N
  <2> HIDE DEF N
  <2> QED BY <1>1, <1>2, AllNumbers
<1>4. PICK it : SumsUpTo(w, S0, it, Cardinality(S0))
  BY <1>3, FS_CardinalityType
<1> DEFINE jt == [s \in SUBSET S0 |-> it[s]]
<1>5. ASSUME NEW s \in SUBSET S0 PROVE jt[s] = SumStep(w, jt, s)
  <2>1. Cardinality(s) <= Cardinality(S0)
    BY FS_Subset
  <2>2. jt[s] = SumStep(w, it, s)
    BY <1>4, <2>1 DEF SumsUpTo
  <2>3. CASE s = {}
    BY <2>2, <2>3 DEF SumStep
  <2>4. CASE s # {}
    <3>1. s \ {pick(s)} \in SUBSET S0
      OBVIOUS
    <3>2. jt[s \ {pick(s)}] = it[s \ {pick(s)}]
      BY <3>1
    <3> HIDE DEF jt
    <3> QED BY <2>2, <2>4, <3>2 DEF SumStep
  <2> QED BY <2>3, <2>4
<1>6. SumsUp(w, S0, jt)
  <2>1. jt = [s \in SUBSET S0 |-> jt[s]]
    OBVIOUS
  <2>2. [s \in SUBSET S0 |-> jt[s]] = [s \in SUBSET S0 |-> SumStep(w, jt, s)]
    BY <1>5
  <2> QED BY <2>1, <2>2 DEF SumsUp
<1> QED BY <1>6

\* Two ways to sum up agree on the sets where both sum the same numbers.
LEMMA SumsAgree ==
  ASSUME NEW S0, IsFiniteSet(S0), NEW R \in SUBSET S0, NEW w, NEW v, \A x \in R : w[x] = v[x],
         NEW it, SumsUp(w, S0, it), NEW jt, SumsUp(v, R, jt)
  PROVE  it[R] = jt[R]
<1> DEFINE Same(s) == it[s] = jt[s]
           N == {n \in Nat : \A s \in SUBSET R : Cardinality(s) = n => Same(s)}
           pick(s) == CHOOSE x \in s : TRUE
<1>0. (\A s \in SUBSET S0 : it[s] = SumStep(w, it, s)) /\ (\A s \in SUBSET R : jt[s] = SumStep(v, jt, s))
  BY SumsUpIs
<1>a. IsFiniteSet(R)
  BY FS_Subset
<1>1. 0 \in N
  <2>1. \A s \in SUBSET R : Cardinality(s) = 0 => s = {}
    BY <1>a, FS_Subset, FS_EmptySet
  <2>2. it[{}] = 0 /\ jt[{}] = 0
    BY <1>0 DEF SumStep
  <2> QED BY <2>1, <2>2
<1>2. ASSUME NEW n \in Nat, n \in N PROVE n + 1 \in N
  <2> SUFFICES ASSUME NEW s \in SUBSET R, Cardinality(s) = n + 1 PROVE Same(s)
    OBVIOUS
  <2>1. s # {}
    BY FS_EmptySet
  <2> DEFINE c == pick(s)
             r == s \ {c}
  <2>2. c \in s /\ r \in SUBSET R /\ Cardinality(r) = n
    BY <1>a, <2>1, SubsetsAreSmaller
  <2>3. it[s] = w[c] + it[r] /\ jt[s] = v[c] + jt[r]
    BY <1>0, <2>1 DEF SumStep
  <2>4. Same(r)
    BY <1>2, <2>2
  <2> HIDE DEF c
  <2> QED BY <2>2, <2>3, <2>4
<1>3. Nat \subseteq N
  <2> HIDE DEF N
  <2> QED BY <1>1, <1>2, AllNumbers
<1> QED BY <1>3, <1>a, FS_CardinalityType

LEMMA SumOverIs ==
  ASSUME NEW w, NEW S0, IsFiniteSet(S0)
  PROVE  \E it : SumsUp(w, S0, it) /\ SumOver(w, S0) = it[S0]
<1> DEFINE it == CHOOSE f : SumsUp(w, S0, f)
<1>1. SumsUp(w, S0, it)
  BY SumExists
<1>2. SumOver(w, S0) = it[S0]
  BY DEF SumOver, L!MapThenSumSet, L!MapThenFoldSet, SumsUp, SumStep
<1> QED BY <1>1, <1>2

LEMMA SumOfNone ==
  ASSUME NEW w PROVE SumOver(w, {}) = 0
<1>1. PICK it : SumsUp(w, {}, it) /\ SumOver(w, {}) = it[{}]
  BY SumOverIs, FS_EmptySet
<1>2. it[{}] = SumStep(w, it, {})
  BY <1>1, SumsUpIs
<1> QED BY <1>1, <1>2 DEF SumStep

\* The sum of a set, by the way of a larger one.
LEMMA SumOfPart ==
  ASSUME NEW S0, IsFiniteSet(S0), NEW w, NEW it, SumsUp(w, S0, it), NEW R \in SUBSET S0
  PROVE  SumOver(w, R) = it[R]
<1>1. IsFiniteSet(R)
  BY FS_Subset
<1>2. PICK jt : SumsUp(w, R, jt) /\ SumOver(w, R) = jt[R]
  BY <1>1, SumOverIs
<1> QED BY <1>2, SumsAgree

LEMMA RemoveOne ==
  ASSUME NEW s, IsFiniteSet(s), NEW x \in s
  PROVE  /\ IsFiniteSet(s \ {x}) /\ Cardinality(s \ {x}) \in Nat /\ Cardinality(s) \in Nat
         /\ Cardinality(s \ {x}) = Cardinality(s) - 1
<1>1. IsFiniteSet(s \ {x}) /\ Cardinality(s \ {x}) = Cardinality(s) - 1
  BY FS_RemoveElement
<1> QED BY <1>1, FS_CardinalityType

LEMMA SumTake ==
  ASSUME NEW S0, IsFiniteSet(S0), NEW w, \A x \in S0 : w[x] \in Int
  PROVE  /\ SumOver(w, S0) \in Int
         /\ \A x \in S0 : SumOver(w, S0) = w[x] + SumOver(w, S0 \ {x})
<1>0. PICK it : SumsUp(w, S0, it)
  BY SumExists
<1> DEFINE Good(s) == it[s] \in Int /\ \A x \in s : it[s] = w[x] + it[s \ {x}]
           N == {n \in Nat : \A s \in SUBSET S0 : Cardinality(s) <= n => Good(s)}
           pick(s) == CHOOSE y \in s : TRUE
<1>a. \A s \in SUBSET S0 : it[s] = SumStep(w, it, s)
  BY <1>0, SumsUpIs
<1>1. 0 \in N
  <2>1. \A s \in SUBSET S0 : Cardinality(s) <= 0 => s = {}
    BY FS_Subset, FS_EmptySet, FS_CardinalityType
  <2>2. it[{}] = 0
    BY <1>a DEF SumStep
  <2>3. Good({})
    BY <2>2
  <2> HIDE DEF Good
  <2> QED BY <2>1, <2>3
<1>2. ASSUME NEW n \in Nat, n \in N PROVE n + 1 \in N
  <2> SUFFICES ASSUME NEW s \in SUBSET S0, Cardinality(s) = n + 1 PROVE Good(s)
    <3>1. \A s \in SUBSET S0 : Cardinality(s) \in Nat
      BY FS_Subset, FS_CardinalityType
    <3>2. \A s \in SUBSET S0 : Cardinality(s) <= n + 1 => Cardinality(s) <= n \/ Cardinality(s) = n + 1
      BY <3>1
    <3> HIDE DEF Good
    <3> QED BY <1>2, <3>2
  <2>1. s # {}
    BY FS_EmptySet
  <2> DEFINE c == pick(s)
  <2>2. c \in s /\ s \ {c} \in SUBSET S0 /\ Cardinality(s \ {c}) = n
    BY <2>1, SubsetsAreSmaller
  <2>3. it[s] = w[c] + it[s \ {c}]
    BY <1>a, <2>1 DEF SumStep
  <2>4. Good(s \ {c})
    <3> HIDE DEF Good
    <3> QED BY <1>2, <2>2
  <2> HIDE DEF c
  <2>5. it[s] \in Int
    BY <2>2, <2>3, <2>4
  <2>6. ASSUME NEW x \in s, x # c PROVE it[s] = w[x] + it[s \ {x}]
    <3>0. IsFiniteSet(s) /\ x \in S0 /\ s \ {x} \in SUBSET S0
      BY FS_Subset
    <3>1. s \ {x} \in SUBSET S0 /\ Cardinality(s \ {x}) = n
      <4>1. Cardinality(s \ {x}) = Cardinality(s) - 1
        BY <3>0, RemoveOne
      <4> QED BY <3>0, <4>1
    <3>2. Good(s \ {x})
      <4> HIDE DEF Good
      <4> QED BY <1>2, <3>1
    <3>3. it[s \ {x}] = w[c] + it[(s \ {x}) \ {c}]
      BY <2>2, <2>6, <3>2
    <3>4. it[s \ {c}] = w[x] + it[(s \ {c}) \ {x}]
      BY <2>4, <2>6
    <3>5. (s \ {x}) \ {c} = (s \ {c}) \ {x} /\ (s \ {c}) \ {x} \in SUBSET S0
      OBVIOUS
    <3>6. Cardinality((s \ {c}) \ {x}) = n - 1 /\ n - 1 \in Nat
      <4>1. IsFiniteSet(s \ {c}) /\ x \in s \ {c}
        BY <2>2, <2>6, <3>0, RemoveOne
      <4>2. Cardinality((s \ {c}) \ {x}) = Cardinality(s \ {c}) - 1 /\ Cardinality((s \ {c}) \ {x}) \in Nat
        BY <4>1, RemoveOne
      <4> QED BY <2>2, <4>2
    <3>7. w[c] \in Int /\ w[x] \in Int /\ it[s \ {x}] \in Int
      BY <2>2, <3>2
    <3>8. it[(s \ {c}) \ {x}] \in Int
      <4>1. n - 1 <= n
        OBVIOUS
      <4>2. Good((s \ {c}) \ {x})
        <5> HIDE DEF Good
        <5> QED BY <1>2, <3>5, <3>6, <4>1
      <4> QED BY <4>2
    <3>9. it[s \ {x}] = w[c] + it[(s \ {c}) \ {x}]
      BY <3>3, <3>5
    <3> DEFINE one == it[s \ {x}]
               two == it[(s \ {c}) \ {x}]
               three == it[s \ {c}]
    <3>10. it[s] = w[c] + three /\ three = w[x] + two /\ one = w[c] + two
      BY <2>3, <3>4, <3>9
    <3>11. one \in Int /\ two \in Int
      BY <3>7, <3>8
    <3> HIDE DEF one, two, three
    <3>12. it[s] = w[x] + one
      BY <3>7, <3>10, <3>11
    <3> QED BY <3>12 DEF one
  <2> QED BY <2>3, <2>5, <2>6
<1>3. Nat \subseteq N
  <2> HIDE DEF N
  <2> QED BY <1>1, <1>2, AllNumbers
<1>4. Good(S0)
  BY <1>3, FS_CardinalityType
<1>5. \A R \in SUBSET S0 : SumOver(w, R) = it[R]
  BY <1>0, SumOfPart
<1> QED BY <1>4, <1>5


\* What a table adds up to, from one of its places to another.
LEMMA SumUpTo ==
  ASSUME NEW w, NEW a \in Int, NEW n \in Int, a <= n, \A i \in a .. n : w[i] \in Nat
  PROVE  /\ SumOver(w, a .. n - 1) \in Int /\ SumOver(w, a .. n) \in Int
         /\ SumOver(w, a .. n) = SumOver(w, a .. n - 1) + w[n]
<1> DEFINE A == a .. n
           B == a .. n - 1
<1>1. IsFiniteSet(A) /\ IsFiniteSet(B)
  BY FS_Interval
<1>2. A \ {n} = B /\ n \in A
  OBVIOUS
<1>3. (\A i \in A : w[i] \in Int) /\ (\A i \in B : w[i] \in Int) /\ w[n] \in Int
  OBVIOUS
<1> HIDE DEF A, B
<1>4. SumOver(w, A) \in Int /\ SumOver(w, A) = w[n] + SumOver(w, A \ {n})
  BY <1>1, <1>2, <1>3, SumTake
<1>5. SumOver(w, B) \in Int
  BY <1>1, <1>3, SumTake
<1>6. SumOver(w, B) \in Int /\ SumOver(w, A) \in Int /\ SumOver(w, A) = SumOver(w, B) + w[n]
  BY <1>2, <1>3, <1>4, <1>5
<1> QED BY <1>6 DEF A, B

LEMMA SumFromNone == ASSUME NEW w, NEW a \in Int, NEW n \in Int, n < a PROVE SumOver(w, a .. n) = 0
<1>1. a .. n = {}
  OBVIOUS
<1> QED BY <1>1, SumOfNone

LEMMA SumsAreNaturals ==
  ASSUME NEW w, NEW a \in Int, NEW n \in Int, \A i \in a .. n : w[i] \in Nat
  PROVE  SumOver(w, a .. n) \in Nat
<1> DEFINE P == {k \in Nat : a - 1 + k <= n => SumOver(w, a .. a - 1 + k) \in Nat}
<1>1. 0 \in P
  <2>1. a - 1 + 0 \in Int /\ a - 1 + 0 < a
    OBVIOUS
  <2>2. SumOver(w, a .. a - 1 + 0) = 0
    BY <2>1, SumFromNone
  <2> QED BY <2>2
<1>2. ASSUME NEW k \in Nat, k \in P PROVE k + 1 \in P
  <2> SUFFICES ASSUME a - 1 + (k + 1) <= n PROVE SumOver(w, a .. a - 1 + (k + 1)) \in Nat
    OBVIOUS
  <2> DEFINE o == a - 1 + (k + 1)
  <2>1. o \in Int /\ a <= o /\ o <= n /\ o - 1 = a - 1 + k
    OBVIOUS
  <2>2. SumOver(w, a .. a - 1 + k) \in Nat
    BY <1>2
  <2> HIDE DEF o
  <2>3. \A i \in a .. o : w[i] \in Nat
    BY <2>1
  <2>4. SumOver(w, a .. o) = SumOver(w, a .. o - 1) + w[o]
    BY <2>1, <2>3, SumUpTo
  <2>5. w[o] \in Nat /\ SumOver(w, a .. o - 1) \in Nat
    BY <2>1, <2>2, <2>3
  <2>6. SumOver(w, a .. o) \in Nat
    BY <2>4, <2>5
  <2> QED BY <2>6 DEF o
<1>3. Nat \subseteq P
  <2> HIDE DEF P
  <2> QED BY <1>1, <1>2, AllNumbers
<1>4. CASE a <= n
  <2> DEFINE k == n - a + 1
  <2>1. k \in Nat /\ a - 1 + k = n
    BY <1>4
  <2>2. a - 1 + k <= n
    BY <2>1
  <2> HIDE DEF k
  <2>3. SumOver(w, a .. a - 1 + k) \in Nat
    BY <1>3, <2>1, <2>2
  <2> QED BY <2>1, <2>3
<1>5. CASE n < a
  BY <1>5, SumFromNone
<1> QED BY <1>4, <1>5

-----------------------------------------------------------------------------
(* Counting modulo a word.                                                 *)

Congruent(a, b) == \E k \in Int : a = b + k * Wrap

LEMMA RestIs ==
  ASSUME NEW n \in Nat \ {0}, NEW a \in Int
  PROVE  a % n \in 0 .. n - 1 /\ \E k \in Int : a % n = a + k * n
<1>1. a \div n \in Int /\ a % n \in 0 .. n - 1 /\ a = n * (a \div n) + (a % n)
  OBVIOUS
<1> DEFINE q == a \div n
           r == a % n
<1>2. q \in Int /\ r \in Int /\ a = n * q + r
  BY <1>1
<1> HIDE DEF q, r
<1>3. r = a + (-q) * n /\ -q \in Int
  BY <1>2
<1> QED BY <1>1, <1>3 DEF r

LEMMA CongruentRest ==
  ASSUME Wrap \in Nat \ {0}, NEW a \in Int PROVE a % Wrap \in 0 .. Wrap - 1 /\ Congruent(a % Wrap, a)
BY RestIs DEF Congruent

LEMMA CongruentSelf == ASSUME Wrap \in Nat \ {0}, NEW a \in Int PROVE Congruent(a, a)
<1>1. a = a + 0 * Wrap
  OBVIOUS
<1> QED BY <1>1 DEF Congruent

LEMMA CongruentSum ==
  ASSUME Wrap \in Nat \ {0}, NEW a \in Int, NEW b \in Int, NEW c \in Int, NEW d \in Int,
         Congruent(a, b), Congruent(c, d)
  PROVE  Congruent(a + c, b + d)
<1>1. PICK k \in Int : a = b + k * Wrap
  BY DEF Congruent
<1>2. PICK m \in Int : c = d + m * Wrap
  BY DEF Congruent
<1>3. a + c = (b + d) + (k + m) * Wrap /\ k + m \in Int
  BY <1>1, <1>2
<1> QED BY <1>3 DEF Congruent

LEMMA CongruentBack ==
  ASSUME Wrap \in Nat \ {0}, NEW a \in Int, NEW b \in Int, Congruent(a, b) PROVE Congruent(b, a) /\ Congruent(-a, -b)
<1>1. PICK k \in Int : a = b + k * Wrap
  BY DEF Congruent
<1>2. b = a + (-k) * Wrap /\ -a = -b + (-k) * Wrap /\ -k \in Int
  BY <1>1
<1> QED BY <1>2 DEF Congruent

LEMMA CongruentOn ==
  ASSUME Wrap \in Nat \ {0}, NEW a \in Int, NEW b \in Int, NEW c \in Int, Congruent(a, b), Congruent(b, c)
  PROVE  Congruent(a, c)
<1>1. PICK k \in Int : a = b + k * Wrap
  BY DEF Congruent
<1>2. PICK m \in Int : b = c + m * Wrap
  BY DEF Congruent
<1>3. a = c + (k + m) * Wrap /\ k + m \in Int
  BY <1>1, <1>2
<1> QED BY <1>3 DEF Congruent

LEMMA CongruentOne ==
  ASSUME Wrap \in Nat \ {0}, NEW a \in 0 .. Wrap - 1, NEW b \in 0 .. Wrap - 1, Congruent(a, b) PROVE a = b
<1>1. PICK k \in Int : a = b + k * Wrap
  BY DEF Congruent
<1>2. k * Wrap < Wrap /\ -Wrap < k * Wrap
  BY <1>1
<1>3. k >= 1 => k * Wrap >= Wrap
  OBVIOUS
<1>4. k <= -1 => k * Wrap <= -Wrap
  OBVIOUS
<1>5. k = 0
  BY <1>2, <1>3, <1>4
<1> QED BY <1>1, <1>5

-----------------------------------------------------------------------------
(* Sums of which one addend changes.                                       *)

\* Two tables that agree on a set have the same sum there.
LEMMA SumSame ==
  ASSUME NEW S0, IsFiniteSet(S0), NEW w, NEW v, \A x \in S0 : w[x] = v[x]
  PROVE  SumOver(w, S0) = SumOver(v, S0)
<1>1. PICK it : SumsUp(w, S0, it) /\ SumOver(w, S0) = it[S0]
  BY SumOverIs
<1>2. PICK jt : SumsUp(v, S0, jt) /\ SumOver(v, S0) = jt[S0]
  BY SumOverIs
<1>3. S0 \in SUBSET S0
  OBVIOUS
<1> QED BY <1>1, <1>2, <1>3, SumsAgree

LEMMA SumInt ==
  ASSUME NEW S0, IsFiniteSet(S0), NEW w, \A x \in S0 : w[x] \in Int PROVE SumOver(w, S0) \in Int
BY SumTake

LEMMA SumChanged ==
  ASSUME NEW S0, IsFiniteSet(S0), NEW w, NEW v, NEW x \in S0, \A y \in S0 : w[y] \in Int /\ v[y] \in Int,
         \A y \in S0 \ {x} : w[y] = v[y]
  PROVE  SumOver(v, S0) = SumOver(w, S0) + (v[x] - w[x])
<1> DEFINE R == S0 \ {x}
<1>1. IsFiniteSet(R)
  BY FS_Subset
<1>2. SumOver(w, R) = SumOver(v, R) /\ SumOver(w, R) \in Int
  BY <1>1, SumSame, SumInt
<1>3. SumOver(w, S0) = w[x] + SumOver(w, R) /\ SumOver(v, S0) = v[x] + SumOver(v, R)
  BY SumTake
<1>4. w[x] \in Int /\ v[x] \in Int
  OBVIOUS
<1> HIDE DEF R
<1> QED BY <1>2, <1>3, <1>4

\* One more addend.
LEMMA SumOneMore ==
  ASSUME NEW S0, IsFiniteSet(S0), NEW w, NEW x, x \notin S0, \A y \in S0 \cup {x} : w[y] \in Int
  PROVE  SumOver(w, S0 \cup {x}) = w[x] + SumOver(w, S0) /\ SumOver(w, S0) \in Int
<1>1. IsFiniteSet(S0 \cup {x}) /\ (S0 \cup {x}) \ {x} = S0
  BY FS_AddElement
<1> DEFINE T == S0 \cup {x}
<1>2. x \in T /\ \A y \in T : w[y] \in Int
  OBVIOUS
<1>3. IsFiniteSet(T) /\ T \ {x} = S0
  BY <1>1
<1> HIDE DEF T
<1>4. SumOver(w, T) = w[x] + SumOver(w, T \ {x})
  BY <1>2, <1>3, SumTake
<1> QED BY <1>3, <1>4, SumInt DEF T

\* Addends that are natural numbers.
LEMMA SumNat ==
  ASSUME NEW S0, IsFiniteSet(S0), NEW w, \A x \in S0 : w[x] \in Nat
  PROVE  SumOver(w, S0) \in Nat
<1>0. PICK it : SumsUp(w, S0, it)
  BY SumExists
<1> DEFINE N == {n \in Nat : \A s \in SUBSET S0 : Cardinality(s) = n => it[s] \in Nat}
           pick(s) == CHOOSE y \in s : TRUE
<1>a. \A s \in SUBSET S0 : it[s] = SumStep(w, it, s)
  BY <1>0, SumsUpIs
<1>1. 0 \in N
  <2>1. \A s \in SUBSET S0 : Cardinality(s) = 0 => s = {}
    BY FS_Subset, FS_EmptySet
  <2>2. it[{}] = 0
    BY <1>a DEF SumStep
  <2> QED BY <2>1, <2>2
<1>2. ASSUME NEW n \in Nat, n \in N PROVE n + 1 \in N
  <2> SUFFICES ASSUME NEW s \in SUBSET S0, Cardinality(s) = n + 1 PROVE it[s] \in Nat
    OBVIOUS
  <2>1. s # {}
    BY FS_EmptySet
  <2> DEFINE c == pick(s)
             r == s \ {c}
  <2>2. c \in s /\ r \in SUBSET S0 /\ Cardinality(r) = n
    BY <2>1, SubsetsAreSmaller
  <2>3. it[s] = w[c] + it[r]
    BY <1>a, <2>1 DEF SumStep
  <2>4. it[r] \in Nat /\ w[c] \in Nat
    BY <1>2, <2>2
  <2> HIDE DEF c, r
  <2> QED BY <2>3, <2>4
<1>3. Nat \subseteq N
  <2> HIDE DEF N
  <2> QED BY <1>1, <1>2, AllNumbers
<1>4. it[S0] \in Nat
  BY <1>3, FS_CardinalityType
<1>5. S0 \in SUBSET S0
  OBVIOUS
<1> QED BY <1>0, <1>4, <1>5, SumOfPart

-----------------------------------------------------------------------------
(* What is around a place lies in a line.                                  *)

LEMMA OutLine ==
  ASSUME NEW f, NEW B, IsFiniteSet(B), NEW c, NEW x \in Outward(f, B, c), NEW y \in Outward(f, B, c)
  PROVE  x \in Outward(f, B, y) \/ y \in Outward(f, B, x)
<1> DEFINE O1(t) == Outward(f, B, t)
           A == {z \in O1(c) : x \in O1(z) \/ z \in O1(x)}
<1>1. c \in A
  BY OutwardIs
<1>2. ASSUME NEW z \in A \cap B PROVE f[z] \in A
  <2>1. f[z] \in O1(c)
    BY <1>2, OutwardIs DEF Closed
  <2>2. CASE z \in O1(x)
    <3>1. f[z] \in O1(x)
      BY <1>2, <2>2, OutwardIs DEF Closed
    <3> QED BY <2>1, <3>1
  <2>3. CASE z \notin O1(x)
    <3>1. x \in O1(z) /\ x # z
      BY <1>2, <2>3, OutwardIs
    <3>2. O1(z) = {z} \cup O1(f[z])
      BY <1>2, OutNext
    <3>3. x \in O1(f[z])
      BY <3>1, <3>2
    <3> QED BY <2>1, <3>3
  <2> QED BY <2>2, <2>3
<1>3. O1(c) \subseteq A
  <2>1. Closed(f, B, A)
    BY <1>2 DEF Closed
  <2> HIDE DEF A
  <2> QED BY <1>1, <2>1, OutwardIs
<1> QED BY <1>3

\* Of what lies in b, one thing at most is around c.
LEMMA OneChild ==
  ASSUME NEW f, NEW B, IsFiniteSet(B), NoLoop(f, B), NEW c,
         NEW i \in Outward(f, B, c) \cap B, NEW j \in Outward(f, B, c) \cap B, f[i] = f[j]
  PROVE  i = j
<1>1. Outward(f, B, i) = {i} \cup Outward(f, B, f[i]) /\ Outward(f, B, j) = {j} \cup Outward(f, B, f[j])
  BY OutNext
<1>2. i \in Outward(f, B, j) \/ j \in Outward(f, B, i)
  BY OutLine
<1>3. i \notin Outward(f, B, f[i]) /\ j \notin Outward(f, B, f[j])
  BY DEF NoLoop
<1> QED BY <1>1, <1>2, <1>3

LEMMA ChildOf ==
  ASSUME NEW f, NEW B, IsFiniteSet(B), NEW c, NEW b \in Outward(f, B, c), b # c
  PROVE  \E i \in Outward(f, B, c) \cap B : f[i] = b
<1> DEFINE A == {c} \cup {f[i] : i \in Outward(f, B, c) \cap B}
<1>0. c \in Outward(f, B, c) /\ \A i \in Outward(f, B, c) \cap B : f[i] \in Outward(f, B, c)
  <2>1. c \in Outward(f, B, c) /\ Closed(f, B, Outward(f, B, c))
    BY OutwardIs
  <2> QED BY <2>1 DEF Closed
<1>1. A \subseteq Outward(f, B, c)
  BY <1>0
<1>2. Closed(f, B, A)
  BY <1>1 DEF Closed
<1>3. Outward(f, B, c) \subseteq A
  <2>1. c \in A
    OBVIOUS
  <2> HIDE DEF A
  <2> QED BY <1>2, <2>1, OutwardIs
<1> QED BY <1>3

-----------------------------------------------------------------------------
(* Worlds.                                                                 *)

Objs == Stacks \cup Bags
Cyls == {Ground} \cup Slots \cup Bags
Kinds == {"none", "gold", "platinum", "bag"}
ItemWorlds ==
  [what : [Objs -> Kinds], count : [Objs -> Int], lies : [Cyls -> Seq(Objs)],
   parent : [Objs -> Cyls \cup {Nowhere}], total : [Bags -> Int]]
WorldOf(wh, ct, li, pa, to) == [what |-> wh, count |-> ct, lies |-> li, parent |-> pa, total |-> to]

LEMMA ItemsAssumed ==
  ASSUME I!ItemsAssumption
  PROVE  /\ IsFiniteSet(Stacks) /\ IsFiniteSet(Bags) /\ IsFiniteSet(Slots) /\ IsFiniteSet(Objs)
         /\ Backpack \in Slots /\ Slots \subseteq Nat \ {0}
         /\ Stacks \cap Bags = {} /\ Slots \cap Objs = {}
         /\ Ground \notin {Player, Nowhere, None} /\ Player \notin {Nowhere, None} /\ Nowhere # None
         /\ {Ground, Player, Nowhere, None} \cap Objs = {}
         /\ {Ground, Player, Nowhere, None} \cap Slots = {}
         /\ Reduced \subseteq Bags /\ Capacity \in [Bags -> Nat]
         /\ Full \in Nat \ {0} /\ Wrap \in Nat \ {0}
         /\ MaxWorth \in Nat /\ MaxWorth < Full * (Full + 1)
<1>1. /\ I!IsFiniteSet(Stacks) = IsFiniteSet(Stacks) /\ I!IsFiniteSet(Bags) = IsFiniteSet(Bags)
      /\ I!IsFiniteSet(Slots) = IsFiniteSet(Slots)
  BY DEF IsFiniteSet, I!IsFiniteSet
<1>2. IsFiniteSet(Stacks) /\ IsFiniteSet(Bags) /\ IsFiniteSet(Slots)
  BY <1>1 DEF I!ItemsAssumption
<1>3. IsFiniteSet(Objs)
  BY <1>2, FS_Union DEF Objs
<1>4. /\ Ground \notin {Player, Nowhere, None} /\ Player \notin {Nowhere, None} /\ Nowhere # None
      /\ {Ground, Player, Nowhere, None} \cap (Objs \cup Slots) = {}
      /\ Stacks \cap Bags = {} /\ Slots \cap Objs = {}
  BY DEF I!ItemsAssumption, Objs
<1> QED BY <1>2, <1>3, <1>4 DEF I!ItemsAssumption

LEMMA ObjsAre == I!Objects = Objs /\ I!Cylinders = Cyls
BY DEF I!Objects, I!Cylinders, Objs, Cyls

LEMMA ItemsCount == ASSUME NEW S0 PROVE I!Cardinality(S0) = Cardinality(S0)
BY DEF I!Cardinality, Cardinality

LEMMA ItemsAround ==
  ASSUME NEW w, NEW c PROVE I!Around(w, c) = Outward(w.parent, Bags, c)
BY ItemsCount DEF I!Around, Outward

LEMMA ItemsSum ==
  ASSUME NEW f, NEW S0 PROVE I!SumFunctionOnSet(f, S0) = SumOver(f, S0)
BY DEF I!SumFunctionOnSet, I!FoldFunctionOnSet, I!MapThenFoldSet, SumOver, L!MapThenSumSet, L!MapThenFoldSet

LEMMA WorldIs ==
  ASSUME NEW w \in ItemWorlds
  PROVE  /\ w = WorldOf(w.what, w.count, w.lies, w.parent, w.total)
         /\ w.what \in [Objs -> Kinds] /\ w.count \in [Objs -> Int] /\ w.lies \in [Cyls -> Seq(Objs)]
         /\ w.parent \in [Objs -> Cyls \cup {Nowhere}] /\ w.total \in [Bags -> Int]
BY DEF ItemWorlds, WorldOf

-----------------------------------------------------------------------------
(* What is kept of a world.                                                *)

\* What there is: bags always, and of stacks those that are counted.
Real(wh, ct) ==
  /\ \A b \in Bags : wh[b] = "bag" /\ ct[b] = 1
  /\ \A i \in Stacks :
       wh[i] \in {"none", "gold", "platinum"} /\ ct[i] \in 0 .. Full /\ (wh[i] = "none" <=> ct[i] = 0)

\* Everything lies in one place, the one it thinks it lies in, but for what is in hand.
InPlace(wh, li, pa, hand) ==
  /\ \A c \in Cyls : Once(li[c])
  /\ \A i \in Objs, c \in Cyls : i \in Members(li[c]) <=> pa[i] = c
  /\ \A i \in Objs : pa[i] = Nowhere <=> wh[i] = "none" \/ i \in hand
  /\ \A i \in hand : i \in Objs /\ wh[i] # "none"

Roomy(li) == (\A b \in Bags : Len(li[b]) <= Capacity[b]) /\ \A s \in Slots : Len(li[s]) <= 1

Sound(w, hand) ==
  /\ w \in ItemWorlds /\ Real(w.what, w.count) /\ InPlace(w.what, w.lies, w.parent, hand)
  /\ Roomy(w.lies) /\ NoLoop(w.parent, Bags)
  /\ \A b \in Bags : w.total[b] \in 0 .. Wrap - 1

\* What an object adds to the weight of a bag; of a bag, F says what it adds besides its content.
Telling(ct, to, F) == [i \in Objs |-> IF i \in Stacks THEN ct[i] * 10 ELSE to[i] + F[i]]
Told(ct, to, F, s) == SumOver(Telling(ct, to, F), Members(s))
Weighed(w, F) == \A b \in Bags : Congruent(w.total[b], Told(w.count, w.total, F, w.lies[b]))
Offsets(F) == F \in [Bags -> Int] /\ \A b \in Bags \ Reduced : F[b] = 10

LEMMA MembersAre ==
  ASSUME I!ItemsAssumption, NEW s \in Seq(Objs)
  PROVE  /\ Members(s) \subseteq Objs /\ IsFiniteSet(Members(s)) /\ I!Range(s) = Members(s)
         /\ Len(s) \in Nat
<1>1. Members(s) \subseteq Objs
  BY DEF Members
<1>2. IsFiniteSet(Members(s))
  BY <1>1, ItemsAssumed, FS_Subset
<1>3. I!Range(s) = Members(s)
  <2>1. DOMAIN s = 1 .. Len(s)
    OBVIOUS
  <2> QED BY <2>1 DEF I!Range, Members
<1> QED BY <1>1, <1>2, <1>3

LEMMA TellingInt ==
  ASSUME NEW ct \in [Objs -> Int], NEW to \in [Bags -> Int], NEW F \in [Bags -> Int]
  PROVE  \A i \in Objs : Telling(ct, to, F)[i] \in Int
<1> SUFFICES ASSUME NEW i \in Objs PROVE Telling(ct, to, F)[i] \in Int
  OBVIOUS
<1>1. i \notin Stacks => i \in Bags
  BY DEF Objs
<1>2. ct[i] * 10 \in Int
  OBVIOUS
<1>3. i \in Bags => to[i] + F[i] \in Int
  OBVIOUS
<1> QED BY <1>1, <1>2, <1>3 DEF Telling

-----------------------------------------------------------------------------
(* A change of weight goes to all that is around.                          *)

Raised(n, diff) == (n + diff + Wrap) % Wrap

LEMMA RaisedIs ==
  ASSUME I!ItemsAssumption, NEW n \in Int, NEW diff \in Int
  PROVE  Raised(n, diff) \in 0 .. Wrap - 1 /\ Raised(n, diff) \in Int /\ Congruent(Raised(n, diff), n + diff)
<1>0. Wrap \in Nat \ {0}
  BY ItemsAssumed
<1> DEFINE a == n + diff + Wrap
<1>1. a \in Int
  BY <1>0
<1>2. Congruent(a, n + diff)
  <2>1. a = (n + diff) + 1 * Wrap
    BY <1>0
  <2> QED BY <2>1 DEF Congruent
<1>3. Raised(n, diff) = a % Wrap
  BY DEF Raised
<1> HIDE DEF a
<1>4. a % Wrap \in 0 .. Wrap - 1 /\ Congruent(a % Wrap, a)
  BY <1>0, <1>1, CongruentRest
<1>5. a % Wrap \in Int /\ n + diff \in Int
  BY <1>0, <1>4
<1>6. Congruent(a % Wrap, n + diff)
  BY <1>0, <1>1, <1>2, <1>4, <1>5, CongruentOn
<1> QED BY <1>3, <1>4, <1>5, <1>6

LEMMA WeighIs ==
  ASSUME I!ItemsAssumption, NEW w \in ItemWorlds, NEW c, NEW diff \in Int
  PROVE  LET z == I!Weigh(w, c, diff)
         IN /\ z \in ItemWorlds /\ z.what = w.what /\ z.count = w.count /\ z.lies = w.lies /\ z.parent = w.parent
            /\ z.total = [b \in Bags |-> IF b \in Outward(w.parent, Bags, c) THEN Raised(w.total[b], diff) ELSE w.total[b]]
<1> DEFINE to == [b \in Bags |-> IF b \in Outward(w.parent, Bags, c) THEN Raised(w.total[b], diff) ELSE w.total[b]]
           z == I!Weigh(w, c, diff)
<1>1. z = [w EXCEPT !.total = to]
  BY ItemsAround DEF I!Weigh, Raised
<1>2. \A b \in Bags : w.total[b] \in Int /\ Raised(w.total[b], diff) \in Int
  <2>1. w.total \in [Bags -> Int]
    BY WorldIs
  <2> QED BY <2>1, RaisedIs
<1>3. to \in [Bags -> Int]
  BY <1>2
<1> HIDE DEF to, z
<1>4. z = WorldOf(w.what, w.count, w.lies, w.parent, to)
  BY <1>1, WorldIs DEF WorldOf
<1>5. /\ w.what \in [Objs -> Kinds] /\ w.count \in [Objs -> Int] /\ w.lies \in [Cyls -> Seq(Objs)]
      /\ w.parent \in [Objs -> Cyls \cup {Nowhere}]
  BY WorldIs
<1>6. z \in ItemWorlds /\ z.what = w.what /\ z.count = w.count /\ z.lies = w.lies /\ z.parent = w.parent /\ z.total = to
  BY <1>3, <1>4, <1>5 DEF ItemWorlds, WorldOf
<1> QED BY <1>6 DEF to, z

\* What the bags lack before the weight of c changes by diff.
Off(w, F, c, diff) ==
  \A b \in Bags : Congruent(w.total[b] + (IF b = c THEN diff ELSE 0), Told(w.count, w.total, F, w.lies[b]))

LEMMA WeighFine ==
  ASSUME I!ItemsAssumption, NEW w \in ItemWorlds, NoLoop(w.parent, Bags), NEW F \in [Bags -> Int],
         \A i \in Objs, b \in Bags : i \in Members(w.lies[b]) <=> w.parent[i] = b,
         NEW c, NEW diff \in Int, Off(w, F, c, diff)
  PROVE  Weighed(I!Weigh(w, c, diff), F)
<1> DEFINE z == I!Weigh(w, c, diff)
           out == Outward(w.parent, Bags, c)
           tell == Telling(w.count, w.total, F)
           told == Telling(w.count, z.total, F)
<1>0. /\ Wrap \in Nat \ {0} /\ IsFiniteSet(Bags) /\ Stacks \cap Bags = {}
      /\ w.count \in [Objs -> Int] /\ w.total \in [Bags -> Int] /\ w.lies \in [Cyls -> Seq(Objs)]
  BY ItemsAssumed, WorldIs
<1>1. /\ z.count = w.count /\ z.lies = w.lies /\ z.total \in [Bags -> Int]
      /\ \A b \in Bags : z.total[b] = IF b \in out THEN Raised(w.total[b], diff) ELSE w.total[b]
  <2>1. /\ z \in ItemWorlds /\ z.count = w.count /\ z.lies = w.lies
        /\ z.total = [b \in Bags |-> IF b \in out THEN Raised(w.total[b], diff) ELSE w.total[b]]
    BY WeighIs
  <2>2. z.total \in [Bags -> Int]
    BY <2>1, WorldIs
  <2> HIDE DEF z, out
  <2> QED BY <2>1, <2>2
<1> HIDE DEF z
<1>2. \A i \in Objs : tell[i] \in Int /\ told[i] \in Int
  BY <1>0, <1>1, TellingInt
<1>3. \A i \in Objs : i \notin Bags \/ i \notin out => told[i] = tell[i]
  <2> SUFFICES ASSUME NEW i \in Objs, i \notin Bags \/ i \notin out PROVE told[i] = tell[i]
    OBVIOUS
  <2>1. CASE i \in Stacks
    BY <2>1 DEF Telling
  <2>2. CASE i \notin Stacks
    <3>1. i \in Bags /\ i \notin out
      BY <2>2 DEF Objs
    <3>2. z.total[i] = w.total[i]
      BY <1>1, <3>1
    <3> QED BY <2>2, <3>2 DEF Telling
  <2> QED BY <2>1, <2>2
<1>4. ASSUME NEW i \in Bags \cap out PROVE i \in Objs /\ Congruent(told[i] - tell[i], diff)
  <2>1. i \in Objs /\ i \notin Stacks
    BY <1>0 DEF Objs
  <2>2. told[i] = Raised(w.total[i], diff) + F[i] /\ tell[i] = w.total[i] + F[i]
    BY <1>1, <2>1 DEF Telling
  <2>3. w.total[i] \in Int /\ F[i] \in Int /\ Raised(w.total[i], diff) \in Int
        /\ Congruent(Raised(w.total[i], diff), w.total[i] + diff)
    BY <1>0, RaisedIs
  <2>4. PICK k \in Int : Raised(w.total[i], diff) = (w.total[i] + diff) + k * Wrap
    BY <2>3 DEF Congruent
  <2> DEFINE kw == k * Wrap
  <2>5. kw \in Int
    BY <1>0
  <2>6. Raised(w.total[i], diff) = (w.total[i] + diff) + kw
    BY <2>4
  <2> HIDE DEF kw
  <2>7. told[i] - tell[i] = diff + kw
    BY <2>2, <2>3, <2>5, <2>6
  <2> QED BY <2>1, <2>7 DEF Congruent, kw
<1> SUFFICES ASSUME NEW b \in Bags PROVE Congruent(z.total[b], SumOver(told, Members(w.lies[b])))
  <2>1. Weighed(z, F)
    BY <1>1 DEF Weighed, Told
  <2> QED BY <2>1 DEF z
<1> DEFINE R == Members(w.lies[b])
<1>5. R \subseteq Objs /\ IsFiniteSet(R) /\ \A i \in Objs : i \in R <=> w.parent[i] = b
  <2>1. b \in Cyls
    BY DEF Cyls
  <2> QED BY <1>0, <2>1, MembersAre
<1> DEFINE old == SumOver(tell, R)
           new == SumOver(told, R)
<1> SUFFICES Congruent(z.total[b], new)
  OBVIOUS
<1>6. old \in Int /\ new \in Int
  BY <1>2, <1>5, SumInt
<1>7. Congruent(w.total[b] + (IF b = c THEN diff ELSE 0), old)
  BY DEF Off, Told
<1>8. w.total[b] \in Int /\ Raised(w.total[b], diff) \in Int /\ Congruent(Raised(w.total[b], diff), w.total[b] + diff)
  BY <1>0, RaisedIs
<1> HIDE DEF tell, told, R
<1>9. CASE b \notin out \/ b = c
  <2>1. \A i \in R : told[i] = tell[i]
    <3> SUFFICES ASSUME NEW i \in R, i \in Bags, i \in out PROVE FALSE
      BY <1>3, <1>5
    <3>1. w.parent[i] = b
      BY <1>5
    <3>2. b \in out
      BY <1>0, <3>1, OutwardIs DEF Closed
    <3>3. i \notin Outward(w.parent, Bags, b)
      BY <3>1 DEF NoLoop
    <3> QED BY <1>9, <3>2, <3>3
  <2>2. new = old
    BY <1>5, <2>1, SumSame
  <2>3. CASE b = c
    <3>1. b \in out
      BY <1>0, <2>3, OutwardIs
    <3>2. z.total[b] = Raised(w.total[b], diff) /\ Congruent(w.total[b] + diff, old)
      BY <1>1, <1>7, <2>3, <3>1
    <3>3. w.total[b] + diff \in Int
      BY <1>8
    <3>4. Congruent(Raised(w.total[b], diff), old)
      BY <1>0, <1>6, <1>8, <3>2, <3>3, CongruentOn
    <3> QED BY <2>2, <3>2, <3>4
  <2>4. CASE b # c
    <3>1. z.total[b] = w.total[b]
      BY <1>1, <1>9, <2>4
    <3>2. w.total[b] + 0 = w.total[b]
      BY <1>8
    <3>3. Congruent(w.total[b] + 0, old)
      BY <1>7, <2>4
    <3>4. Congruent(z.total[b], old)
      BY <3>1, <3>2, <3>3
    <3> QED BY <2>2, <3>4
  <2> QED BY <2>3, <2>4
<1>10. CASE b \in out /\ b # c
  <2>0. IsFiniteSet(Bags) /\ b \in out /\ b # c
    BY <1>0, <1>10
  <2> DEFINE f == w.parent
  <2>01. \E i \in Outward(f, Bags, c) \cap Bags : f[i] = b
    <3> HIDE DEF f
    <3> QED BY <2>0, ChildOf DEF f
  <2>1. PICK i \in out \cap Bags : w.parent[i] = b
    BY <2>01
  <2>2. i \in R /\ i \in Objs /\ Congruent(told[i] - tell[i], diff)
    BY <1>4, <1>5, <2>1
  <2>3. \A y \in R \ {i} : told[y] = tell[y]
    <3> SUFFICES ASSUME NEW y \in R \ {i}, y \in Bags, y \in out PROVE FALSE
      BY <1>3, <1>5
    <3>1. w.parent[y] = b
      BY <1>5
    <3> QED BY <1>0, <2>1, <3>1, OneChild
  <2>4. \A y \in R : tell[y] \in Int /\ told[y] \in Int
    BY <1>2, <1>5
  <2>5. new = old + (told[i] - tell[i])
    BY <1>5, <2>2, <2>3, <2>4, SumChanged
  <2> DEFINE d == told[i] - tell[i]
             n == w.total[b]
  <2>6. d \in Int /\ n \in Int /\ Congruent(d, diff) /\ new = old + d
    BY <1>8, <2>2, <2>4, <2>5
  <2>7. z.total[b] = Raised(n, diff) /\ Congruent(n, old)
    <3>1. n + 0 = n
      BY <2>6
    <3> QED BY <1>1, <1>7, <1>10, <3>1
  <2>8. Raised(n, diff) \in Int /\ Congruent(Raised(n, diff), n + diff)
    BY <1>8
  <2> HIDE DEF d, n, new, old
  <2>9. Congruent(diff, d)
    BY <1>0, <2>6, CongruentBack
  <2>10. Congruent(n + diff, old + d)
    BY <1>0, <1>6, <2>6, <2>7, <2>9, CongruentSum
  <2>11. n + diff \in Int /\ old + d \in Int
    BY <1>6, <2>6
  <2>12. Congruent(Raised(n, diff), old + d)
    BY <1>0, <2>8, <2>10, <2>11, CongruentOn
  <2> QED BY <2>6, <2>7, <2>12 DEF new
<1> QED BY <1>9, <1>10

LEMMA WeighSound ==
  ASSUME I!ItemsAssumption, NEW w, NEW hand, Sound(w, hand), NEW c, NEW diff \in Int
  PROVE  LET z == I!Weigh(w, c, diff)
         IN /\ Sound(z, hand) /\ z.what = w.what /\ z.count = w.count /\ z.lies = w.lies /\ z.parent = w.parent
            /\ \A b \in Bags : b \notin Outward(w.parent, Bags, c) => z.total[b] = w.total[b]
<1> DEFINE z == I!Weigh(w, c, diff)
<1>0. w \in ItemWorlds /\ \A b \in Bags : w.total[b] \in 0 .. Wrap - 1
  BY DEF Sound
<1>1. /\ z \in ItemWorlds /\ z.what = w.what /\ z.count = w.count /\ z.lies = w.lies /\ z.parent = w.parent
      /\ z.total = [b \in Bags |-> IF b \in Outward(w.parent, Bags, c) THEN Raised(w.total[b], diff) ELSE w.total[b]]
  BY <1>0, WeighIs
<1> HIDE DEF z
<1>2. \A b \in Bags : w.total[b] \in Int /\ Raised(w.total[b], diff) \in 0 .. Wrap - 1
  <2>1. w.total \in [Bags -> Int]
    BY <1>0, WorldIs
  <2> QED BY <2>1, RaisedIs
<1>3. \A b \in Bags : z.total[b] = IF b \in Outward(w.parent, Bags, c) THEN Raised(w.total[b], diff) ELSE w.total[b]
  BY <1>1
<1>4. \A b \in Bags : z.total[b] \in 0 .. Wrap - 1
  BY <1>0, <1>2, <1>3
<1>5. Sound(z, hand)
  BY <1>1, <1>4 DEF Sound
<1> QED BY <1>1, <1>3, <1>5 DEF z

LEMMA WeightInt ==
  ASSUME I!ItemsAssumption, NEW w \in ItemWorlds, NEW i \in Objs PROVE I!Weight(w, i) \in Int
<1>0. w.count \in [Objs -> Int] /\ w.total \in [Bags -> Int] /\ Wrap \in Nat \ {0}
  BY WorldIs, ItemsAssumed
<1>1. CASE i \in Stacks
  <2>1. w.count[i] * 10 \in Int
    BY <1>0
  <2> QED BY <1>1, <2>1 DEF I!Weight, I!Unit
<1>2. CASE i \notin Stacks
  <2>1. i \in Bags
    BY <1>2 DEF Objs
  <2> DEFINE n == 10 + (IF i \in Reduced THEN (w.total[i] * 4) \div 5 ELSE w.total[i])
  <2>2. n \in Int
    <3>1. w.total[i] \in Int
      BY <1>0, <2>1
    <3>2. (w.total[i] * 4) \div 5 \in Int
      BY <3>1
    <3> QED BY <3>1, <3>2
  <2>3. I!Weight(w, i) = n % Wrap
    BY <1>2 DEF I!Weight, I!Unit
  <2> HIDE DEF n
  <2>4. n % Wrap \in 0 .. Wrap - 1
    BY <1>0, <2>2, CongruentRest
  <2> QED BY <1>0, <2>3, <2>4
<1> QED BY <1>1, <1>2

\* i weighs what it adds to the weight of a bag.
Tells(w, F, i) == Congruent(I!Weight(w, i), Telling(w.count, w.total, F)[i])

LEMMA StackTells ==
  ASSUME I!ItemsAssumption, NEW w \in ItemWorlds, NEW F, NEW i \in Stacks PROVE Tells(w, F, i)
<1>1. i \in Objs /\ w.count \in [Objs -> Int] /\ Wrap \in Nat \ {0}
  BY WorldIs, ItemsAssumed DEF Objs
<1>2. w.count[i] * 10 \in Int /\ I!Weight(w, i) = w.count[i] * 10 /\ Telling(w.count, w.total, F)[i] = w.count[i] * 10
  BY <1>1 DEF I!Weight, I!Unit, Telling
<1> QED BY <1>1, <1>2, CongruentSelf DEF Tells

LEMMA BagTells ==
  ASSUME I!ItemsAssumption, NEW w \in ItemWorlds, NEW F, Offsets(F), NEW i \in Bags,
         i \in Reduced => F[i] = I!Weight(w, i) - w.total[i]
  PROVE  Tells(w, F, i)
<1>1. i \in Objs /\ i \notin Stacks /\ w.total \in [Bags -> Int] /\ Wrap \in Nat \ {0} /\ I!Weight(w, i) \in Int
  BY WorldIs, ItemsAssumed, WeightInt DEF Objs
<1>2. Telling(w.count, w.total, F)[i] = w.total[i] + F[i]
  BY <1>1 DEF Telling
<1>3. CASE i \in Reduced
  <2>1. w.total[i] + F[i] = I!Weight(w, i)
    BY <1>1, <1>3
  <2> QED BY <1>1, <1>2, <2>1, CongruentSelf DEF Tells
<1>4. CASE i \notin Reduced
  <2>1. I!Weight(w, i) = (10 + w.total[i]) % Wrap /\ F[i] = 10
    BY <1>1, <1>4 DEF I!Weight, I!Unit, Offsets
  <2> DEFINE n == 10 + w.total[i]
  <2>2. n \in Int /\ n = w.total[i] + F[i]
    BY <1>1, <2>1
  <2> HIDE DEF n
  <2>3. Congruent(n % Wrap, n)
    BY <1>1, <2>2, CongruentRest
  <2> QED BY <1>2, <2>1, <2>2, <2>3 DEF n, Tells
<1> QED BY <1>3, <1>4

-----------------------------------------------------------------------------
(* Putting down.                                                           *)

Onto(li, c, i) == [li EXCEPT ![c] = IF c \in Slots THEN <<i>> ELSE <<i>> \o li[c]]
Laid0(w, c, i) == WorldOf(w.what, w.count, Onto(w.lies, c, i), [w.parent EXCEPT ![i] = c], w.total)

LEMMA PutIs ==
  ASSUME I!ItemsAssumption, NEW w \in ItemWorlds, NEW c \in Cyls, NEW i \in Objs
  PROVE  /\ I!Put(w, c, i) = I!Weigh(Laid0(w, c, i), c, I!Weight(w, i))
         /\ Laid0(w, c, i) \in ItemWorlds
<1>1. w = WorldOf(w.what, w.count, w.lies, w.parent, w.total)
  BY WorldIs
<1> DEFINE v == [w EXCEPT !.lies[c] = IF c \in Slots THEN <<i>> ELSE <<i>> \o @, !.parent[i] = c]
           va == [w EXCEPT !.lies = Onto(w.lies, c, i)]
<1>2. v = Laid0(w, c, i)
  <2>1. v = [va EXCEPT !.parent = [w.parent EXCEPT ![i] = c]]
    BY DEF Onto, ItemWorlds
  <2>2. va = WorldOf(w.what, w.count, Onto(w.lies, c, i), w.parent, w.total)
    BY <1>1 DEF WorldOf
  <2> HIDE DEF v, va
  <2>3. v = WorldOf(w.what, w.count, Onto(w.lies, c, i), [w.parent EXCEPT ![i] = c], w.total)
    BY <2>1, <2>2 DEF WorldOf
  <2> QED BY <2>3 DEF Laid0
<1>3. I!Put(w, c, i) = I!Weigh(v, c, I!Weight(w, i))
  BY DEF I!Put
<1>4. Onto(w.lies, c, i) \in [Cyls -> Seq(Objs)] /\ [w.parent EXCEPT ![i] = c] \in [Objs -> Cyls \cup {Nowhere}]
  <2>1. w.lies \in [Cyls -> Seq(Objs)] /\ w.parent \in [Objs -> Cyls \cup {Nowhere}]
    BY WorldIs
  <2>2. <<i>> \in Seq(Objs) /\ <<i>> \o w.lies[c] \in Seq(Objs)
    BY <2>1
  <2> QED BY <2>1, <2>2 DEF Onto
<1>5. Laid0(w, c, i) \in ItemWorlds
  BY <1>4, WorldIs DEF Laid0, ItemWorlds, WorldOf
<1> HIDE DEF v
<1> QED BY <1>2, <1>3, <1>5

\* What is around a place stays so when a thing that is not around it is put there.
LEMMA StillAround ==
  ASSUME NEW f, NEW g, NEW B, IsFiniteSet(B), NoLoop(f, B), NEW i, NEW to, g[i] = to,
         \A y \in B \ {i} : g[y] = f[y], i \in B => i \notin Outward(f, B, to)
  PROVE  NoLoop(g, B) /\ Outward(g, B, to) = Outward(f, B, to)
<1>1. CASE i \in B
  <2>1. Put(f, g, B, i, to)
    BY <1>1 DEF Put
  <2>2. NoLoop(f, B) => NoLoop(g, B)
    BY <2>1, OutMoved
  <2>3. \A y \in Outward(f, B, to) \cap B : g[y] = f[y]
    BY <1>1
  <2>4. Outward(g, B, to) = Outward(f, B, to)
    BY <2>3, OutSame
  <2> QED BY <2>2, <2>4
<1>2. CASE i \notin B
  <2>1. ASSUME NEW d PROVE Outward(g, B, d) = Outward(f, B, d)
    <3>1. \A y \in Outward(f, B, d) \cap B : g[y] = f[y]
      BY <1>2
    <3> QED BY <3>1, OutSame
  <2> QED BY <1>2, <2>1 DEF NoLoop
<1> QED BY <1>1, <1>2

\* Where an object that is in hand may be put.
Room(w, c, i) ==
  /\ c \in Cyls
  /\ c \in Bags => Len(w.lies[c]) < Capacity[c] /\ i \notin Outward(w.parent, Bags, c)
  /\ c \in Slots => w.lies[c] = <<>>

LEMMA LaidSound ==
  ASSUME I!ItemsAssumption, NEW w, NEW i, Sound(w, {i}), NEW c, Room(w, c, i)
  PROVE  /\ Sound(Laid0(w, c, i), {})
         /\ Outward(Laid0(w, c, i).parent, Bags, c) = Outward(w.parent, Bags, c)
         /\ i \notin Members(w.lies[c]) /\ Members(Laid0(w, c, i).lies[c]) = Members(w.lies[c]) \cup {i}
<1> DEFINE v == Laid0(w, c, i)
           li == w.lies
           pa == w.parent
           lo == Onto(li, c, i)
           po == [pa EXCEPT ![i] = c]
<1>0. /\ w \in ItemWorlds /\ Real(w.what, w.count) /\ InPlace(w.what, li, pa, {i}) /\ Roomy(li) /\ NoLoop(pa, Bags)
      /\ \A b \in Bags : w.total[b] \in 0 .. Wrap - 1
  BY DEF Sound
<1>1. c \in Cyls /\ i \in Objs /\ w.what[i] # "none" /\ pa[i] = Nowhere
  BY <1>0 DEF Room, InPlace
<1>2. v \in ItemWorlds /\ v.what = w.what /\ v.count = w.count /\ v.lies = lo /\ v.parent = po /\ v.total = w.total
  <2>1. v \in ItemWorlds
    BY <1>0, <1>1, PutIs
  <2> QED BY <2>1 DEF Laid0, WorldOf
<1>3. /\ li \in [Cyls -> Seq(Objs)] /\ pa \in [Objs -> Cyls \cup {Nowhere}] /\ Nowhere \notin Cyls
      /\ IsFiniteSet(Bags) /\ Capacity \in [Bags -> Nat] /\ Slots \cap Bags = {}
  BY <1>0, WorldIs, ItemsAssumed DEF Cyls, Objs
<1> HIDE DEF v, li, pa
<1>4. i \notin Members(li[c])
  BY <1>0, <1>1, <1>3 DEF InPlace
<1>5. /\ lo[c] \in Seq(Objs) /\ Once(lo[c]) /\ Members(lo[c]) = Members(li[c]) \cup {i}
      /\ Len(lo[c]) = (IF c \in Slots THEN 1 ELSE Len(li[c]) + 1)
      /\ \A d \in Cyls \ {c} : lo[d] = li[d]
  <2>1. \A d \in Cyls \ {c} : lo[d] = li[d]
    BY <1>1, <1>3 DEF Onto
  <2>2. CASE c \in Slots
    <3>1. lo[c] = <<i>> /\ li[c] = <<>>
      BY <1>1, <1>3, <2>2 DEF Onto, Room, li
    <3>2. Members(<<i>>) = {i} /\ Once(<<i>>) /\ Len(<<i>>) = 1 /\ <<i>> \in Seq(Objs)
      BY <1>1 DEF Members, Once
    <3>3. Members(<<>>) = {}
      BY DEF Members
    <3> QED BY <2>1, <2>2, <3>1, <3>2, <3>3
  <2>3. CASE c \notin Slots
    <3> DEFINE s == li[c]
               z == <<i>> \o s
    <3>1. s \in Seq(Objs) /\ Once(s) /\ i \notin Members(s)
      BY <1>0, <1>1, <1>3, <1>4 DEF InPlace
    <3>2. lo[c] = z
      BY <1>1, <1>3, <2>3 DEF Onto
    <3> HIDE DEF s
    <3>3. z \in Seq(Objs) /\ Len(z) = Len(s) + 1 /\ Members(z) = Members(s) \cup {i} /\ Once(z)
      BY <1>1, <3>1, FirstIs
    <3> HIDE DEF z
    <3> QED BY <2>1, <2>3, <3>2, <3>3 DEF s
  <2> QED BY <2>2, <2>3
<1>6. po[i] = c /\ \A j \in Objs \ {i} : po[j] = pa[j]
  BY <1>1, <1>3
<1> HIDE DEF lo, po
<1>7. InPlace(w.what, lo, po, {})
  <2>1. \A d \in Cyls : Once(lo[d])
    BY <1>0, <1>5 DEF InPlace
  <2>2. \A j \in Objs, d \in Cyls : j \in Members(lo[d]) <=> po[j] = d
    <3> SUFFICES ASSUME NEW j \in Objs, NEW d \in Cyls PROVE j \in Members(lo[d]) <=> po[j] = d
      OBVIOUS
    <3>1. j \in Members(li[d]) <=> pa[j] = d
      BY <1>0 DEF InPlace
    <3>2. CASE j = i
      BY <1>1, <1>3, <1>5, <1>6, <3>1, <3>2
    <3>3. CASE j # i
      BY <1>5, <1>6, <3>1, <3>3
    <3> QED BY <3>2, <3>3
  <2>3. \A j \in Objs : po[j] = Nowhere <=> w.what[j] = "none" \/ j \in {}
    <3> SUFFICES ASSUME NEW j \in Objs PROVE po[j] = Nowhere <=> w.what[j] = "none"
      OBVIOUS
    <3>1. pa[j] = Nowhere <=> w.what[j] = "none" \/ j = i
      BY <1>0 DEF InPlace
    <3> QED BY <1>1, <1>3, <1>6, <3>1
  <2> QED BY <2>1, <2>2, <2>3 DEF InPlace
<1>8. Roomy(lo)
  <2>1. c \in Bags => Len(li[c]) < Capacity[c] /\ Len(li[c]) \in Nat /\ Capacity[c] \in Nat
    BY <1>1, <1>3 DEF Room, li
  <2>2. c \in Slots => Len(lo[c]) <= 1
    BY <1>5
  <2>3. c \in Bags => Len(lo[c]) <= Capacity[c]
    BY <1>3, <1>5, <2>1
  <2>4. \A d \in Bags \cup Slots : d \in Cyls
    BY DEF Cyls
  <2> QED BY <1>0, <1>5, <2>2, <2>3, <2>4 DEF Roomy
<1>9. NoLoop(po, Bags) /\ Outward(po, Bags, c) = Outward(pa, Bags, c)
  <2>1. i \in Bags => i \notin Outward(pa, Bags, c)
    <3>1. CASE c \in Bags
      BY <3>1 DEF Room, pa
    <3>2. CASE c \notin Bags
      <4>1. Outward(pa, Bags, c) = {c}
        BY <1>3, <3>2, OutNext
      <4> QED BY <3>2, <4>1
    <3> QED BY <3>1, <3>2
  <2>2. \A y \in Bags \ {i} : po[y] = pa[y]
    BY <1>6 DEF Objs
  <2>3. IsFiniteSet(Bags)
    BY <1>3
  <2>4. NoLoop(pa, Bags)
    BY <1>0
  <2>5. po[i] = c
    BY <1>6
  <2> QED BY <2>1, <2>2, <2>3, <2>4, <2>5, StillAround
<1>10. Sound(v, {})
  BY <1>0, <1>2, <1>7, <1>8, <1>9 DEF Sound
<1> QED BY <1>2, <1>4, <1>5, <1>9, <1>10 DEF v, li, pa

\* z is w with i, which was in hand, in c.
PutDown(w, z, c, i) ==
  /\ Sound(z, {}) /\ z.what = w.what /\ z.count = w.count
  /\ z.lies = Onto(w.lies, c, i) /\ z.parent = [w.parent EXCEPT ![i] = c]
  /\ \A b \in Bags : b \notin Outward(w.parent, Bags, c) => z.total[b] = w.total[b]

LEMMA PutSound ==
  ASSUME I!ItemsAssumption, NEW w, NEW i, Sound(w, {i}), NEW c, Room(w, c, i)
  PROVE  PutDown(w, I!Put(w, c, i), c, i)
<1> DEFINE z == I!Put(w, c, i)
           v == Laid0(w, c, i)
           d == I!Weight(w, i)
<1>0. w \in ItemWorlds /\ c \in Cyls /\ i \in Objs
  BY DEF Sound, Room, InPlace
<1>1. d \in Int
  BY <1>0, WeightInt
<1>2. z = I!Weigh(v, c, d)
  BY <1>0, PutIs
<1>3. Sound(v, {}) /\ Outward(v.parent, Bags, c) = Outward(w.parent, Bags, c)
  <2>1. Sound(v, {})
    BY LaidSound
  <2>2. Outward(v.parent, Bags, c) = Outward(w.parent, Bags, c)
    <3> HIDE DEF v
    <3>1. Outward(Laid0(w, c, i).parent, Bags, c) = Outward(w.parent, Bags, c)
      BY LaidSound
    <3> QED BY <3>1 DEF v
  <2> QED BY <2>1, <2>2
<1>4. /\ v.what = w.what /\ v.count = w.count /\ v.lies = Onto(w.lies, c, i) /\ v.parent = [w.parent EXCEPT ![i] = c]
      /\ v.total = w.total
  BY DEF Laid0, WorldOf
<1> HIDE DEF z, v, d
<1> DEFINE y == I!Weigh(v, c, d)
<1>5. /\ Sound(y, {}) /\ y.what = v.what /\ y.count = v.count /\ y.lies = v.lies /\ y.parent = v.parent
      /\ \A b \in Bags : b \notin Outward(v.parent, Bags, c) => y.total[b] = v.total[b]
  BY <1>1, <1>3, WeighSound
<1> HIDE DEF y
<1>6. z = y
  BY <1>2 DEF y
<1>7. PutDown(w, z, c, i)
  BY <1>3, <1>4, <1>5, <1>6 DEF PutDown
<1> QED BY <1>7 DEF z

LEMMA PutWeighed ==
  ASSUME I!ItemsAssumption, NEW w, NEW i, Sound(w, {i}), NEW c, Room(w, c, i),
         NEW F \in [Bags -> Int], Tells(w, F, i), Weighed(w, F)
  PROVE  Weighed(I!Put(w, c, i), F)
<1> DEFINE v == Laid0(w, c, i)
           d == I!Weight(w, i)
           tell == Telling(w.count, w.total, F)
<1>0. w \in ItemWorlds /\ c \in Cyls /\ i \in Objs /\ Wrap \in Nat \ {0} /\ w.total \in [Bags -> Int]
      /\ w.count \in [Objs -> Int] /\ w.lies \in [Cyls -> Seq(Objs)]
  BY WorldIs, ItemsAssumed DEF Sound, Room, InPlace
<1>1. d \in Int /\ Congruent(d, tell[i])
  BY <1>0, WeightInt DEF Tells
<1>2. I!Put(w, c, i) = I!Weigh(v, c, d)
  BY <1>0, PutIs
<1>3. /\ Sound(v, {}) /\ i \notin Members(w.lies[c]) /\ Members(v.lies[c]) = Members(w.lies[c]) \cup {i}
  BY LaidSound
<1>4. v.count = w.count /\ v.lies = Onto(w.lies, c, i) /\ v.total = w.total
  BY DEF Laid0, WorldOf
<1>5. \A b \in Bags \ {c} : v.lies[b] = w.lies[b]
  BY <1>0, <1>4 DEF Onto, Cyls
<1>6. \A x \in Objs : tell[x] \in Int
  BY <1>0, TellingInt
<1> HIDE DEF v, d, tell
<1>7. Off(v, F, c, d)
  <2> SUFFICES ASSUME NEW b \in Bags
               PROVE Congruent(w.total[b] + (IF b = c THEN d ELSE 0), SumOver(tell, Members(v.lies[b])))
    BY <1>4 DEF Off, Told, tell
  <2> DEFINE S0 == Members(w.lies[b])
             n == w.total[b]
             s == SumOver(tell, S0)
  <2>1. Congruent(n, s)
    BY DEF Weighed, Told, tell
  <2>2. S0 \subseteq Objs /\ IsFiniteSet(S0)
    <3>1. w.lies[b] \in Seq(Objs)
      BY <1>0 DEF Cyls
    <3> QED BY <3>1, MembersAre
  <2>3. n \in Int
    BY <1>0
  <2>4. CASE b # c
    <3>1. Members(v.lies[b]) = S0 /\ n + 0 = n
      BY <1>5, <2>3, <2>4
    <3> QED BY <2>1, <2>4, <3>1
  <2>5. CASE b = c
    <3>1. i \notin S0 /\ Members(v.lies[b]) = S0 \cup {i}
      BY <1>3, <2>5
    <3>2. \A y \in S0 \cup {i} : tell[y] \in Int
      BY <1>0, <1>6, <2>2
    <3> HIDE DEF S0
    <3>3. SumOver(tell, S0 \cup {i}) = tell[i] + s /\ s \in Int
      BY <2>2, <3>1, <3>2, SumOneMore
    <3> DEFINE t == tell[i]
    <3>4. t \in Int /\ Congruent(d, t)
      BY <1>1, <3>2
    <3> HIDE DEF s, n, t
    <3>5. Congruent(d + n, t + s)
      BY <1>0, <1>1, <2>1, <2>3, <3>3, <3>4, CongruentSum
    <3>6. d + n = n + d
      BY <1>1, <2>3
    <3> QED BY <2>5, <3>1, <3>3, <3>5, <3>6 DEF n, t
  <2> QED BY <2>4, <2>5
<1>8. v \in ItemWorlds /\ NoLoop(v.parent, Bags) /\ InPlace(v.what, v.lies, v.parent, {})
  BY <1>3 DEF Sound
<1>9. \A x \in Objs, b \in Bags : x \in Members(v.lies[b]) <=> v.parent[x] = b
  BY <1>8 DEF InPlace, Cyls
<1>10. NoLoop(v.parent, Bags)
  BY <1>8
<1>11. Weighed(I!Weigh(v, c, d), F)
  BY <1>1, <1>7, <1>8, <1>9, <1>10, WeighFine
<1> QED BY <1>2, <1>11

-----------------------------------------------------------------------------
(* Taking up.                                                              *)

Dropping(s, i) == Skipped(s, CHOOSE p \in 1 .. Len(s) : s[p] = i)
Lifted(w, i) ==
  WorldOf(w.what, w.count, [w.lies EXCEPT ![w.parent[i]] = Dropping(w.lies[w.parent[i]], i)],
          [w.parent EXCEPT ![i] = Nowhere], w.total)

LEMMA OutOfIs ==
  ASSUME NEW T, NEW s \in Seq(T), Once(s), NEW i \in Members(s)
  PROVE  /\ I!Without(s, i) = Dropping(s, i)
         /\ Dropping(s, i) \in Seq(T) /\ Len(Dropping(s, i)) = Len(s) - 1 /\ Once(Dropping(s, i))
         /\ Members(Dropping(s, i)) = Members(s) \ {i}
<1> DEFINE p == CHOOSE p \in 1 .. Len(s) : s[p] = i
<1>1. p \in 1 .. Len(s) /\ s[p] = i
  BY DEF Members
<1>2. I!Without(s, i) = Dropping(s, i)
  BY DEF I!Without, Dropping, Skipped
<1>3. Dropping(s, i) = Skipped(s, p)
  BY DEF Dropping
<1> HIDE DEF p
<1>4. Skipped(s, p) \in Seq(T) /\ Len(Skipped(s, p)) = Len(s) - 1
  BY <1>1, SkippedIs
<1>5. Once(Skipped(s, p)) /\ Members(Skipped(s, p)) = Members(s) \ {s[p]}
  BY <1>1, SkippedKeeps
<1> QED BY <1>1, <1>2, <1>3, <1>4, <1>5

\* Of an object that lies somewhere.
LiesSomewhere(w, i) == i \in Objs /\ Sound(w, {}) /\ w.what[i] # "none"

LEMMA LyingIs ==
  ASSUME I!ItemsAssumption, NEW w, NEW i, LiesSomewhere(w, i)
  PROVE  /\ w \in ItemWorlds /\ w.parent[i] \in Cyls /\ i \in Members(w.lies[w.parent[i]])
         /\ i \in Bags => i \notin Outward(w.parent, Bags, w.parent[i])
         /\ w.lies \in [Cyls -> Seq(Objs)] /\ w.parent \in [Objs -> Cyls \cup {Nowhere}]
         /\ Once(w.lies[w.parent[i]])
<1>1. i \in Objs /\ w.what[i] # "none" /\ w \in ItemWorlds /\ InPlace(w.what, w.lies, w.parent, {}) /\ NoLoop(w.parent, Bags)
  BY DEF LiesSomewhere, Sound
<1>2. w.lies \in [Cyls -> Seq(Objs)] /\ w.parent \in [Objs -> Cyls \cup {Nowhere}]
  BY <1>1, WorldIs
<1>3. w.parent[i] \in Cyls
  BY <1>1, <1>2 DEF InPlace
<1>4. i \in Members(w.lies[w.parent[i]]) /\ Once(w.lies[w.parent[i]])
  BY <1>1, <1>3 DEF InPlace
<1> QED BY <1>1, <1>2, <1>3, <1>4 DEF NoLoop

LEMMA LiftedSound ==
  ASSUME I!ItemsAssumption, NEW w, NEW i, LiesSomewhere(w, i)
  PROVE  LET v == Lifted(w, i)
             c == w.parent[i]
         IN /\ Sound(v, {i}) /\ v.what = w.what /\ v.count = w.count /\ v.total = w.total
            /\ v.parent = [w.parent EXCEPT ![i] = Nowhere]
            /\ \A d \in Cyls \ {c} : v.lies[d] = w.lies[d]
            /\ Members(v.lies[c]) = Members(w.lies[c]) \ {i} /\ Len(v.lies[c]) = Len(w.lies[c]) - 1
            /\ Outward(v.parent, Bags, c) = Outward(w.parent, Bags, c)
<1> DEFINE v == Lifted(w, i)
           c == w.parent[i]
           pa == w.parent
           li == w.lies
           po == [pa EXCEPT ![i] = Nowhere]
           lo == [li EXCEPT ![c] = Dropping(li[c], i)]
<1>0. /\ i \in Objs /\ w.what[i] # "none" /\ w \in ItemWorlds /\ Real(w.what, w.count)
      /\ InPlace(w.what, li, pa, {}) /\ Roomy(li) /\ NoLoop(pa, Bags)
      /\ \A b \in Bags : w.total[b] \in 0 .. Wrap - 1
  BY DEF LiesSomewhere, Sound
<1>1. /\ c \in Cyls /\ i \in Members(li[c]) /\ (i \in Bags => i \notin Outward(pa, Bags, c))
      /\ li \in [Cyls -> Seq(Objs)] /\ pa \in [Objs -> Cyls \cup {Nowhere}] /\ Once(li[c])
  BY LyingIs
<1>2. IsFiniteSet(Bags) /\ Nowhere \notin Cyls /\ Capacity \in [Bags -> Nat]
  BY ItemsAssumed DEF Cyls, Objs
<1>3. v.what = w.what /\ v.count = w.count /\ v.total = w.total /\ v.parent = po /\ v.lies = lo
  BY DEF Lifted, WorldOf
<1>4. /\ Dropping(li[c], i) \in Seq(Objs) /\ Len(Dropping(li[c], i)) = Len(li[c]) - 1 /\ Once(Dropping(li[c], i))
      /\ Members(Dropping(li[c], i)) = Members(li[c]) \ {i}
  <2>1. li[c] \in Seq(Objs)
    BY <1>1
  <2> QED BY <1>1, <2>1, OutOfIs
<1>5. v \in ItemWorlds
  <2>1. po \in [Objs -> Cyls \cup {Nowhere}] /\ lo \in [Cyls -> Seq(Objs)]
    BY <1>1, <1>4
  <2>2. w.what \in [Objs -> Kinds] /\ w.count \in [Objs -> Int] /\ w.total \in [Bags -> Int]
    BY <1>0, WorldIs
  <2> QED BY <2>1, <2>2 DEF Lifted, ItemWorlds, WorldOf
<1> HIDE DEF v
<1>6. /\ po[i] = Nowhere /\ \A j \in Objs \ {i} : po[j] = pa[j]
  BY <1>0, <1>1
<1>7. /\ \A d \in Cyls \ {c} : lo[d] = li[d]
      /\ lo[c] = Dropping(li[c], i)
  BY <1>1
<1> HIDE DEF po, lo, li, pa, c
<1>8. InPlace(w.what, lo, po, {i})
  <2>1. \A d \in Cyls : Once(lo[d])
    BY <1>0, <1>4, <1>7 DEF InPlace
  <2>2. \A j \in Objs, d \in Cyls : j \in Members(lo[d]) <=> po[j] = d
    <3> SUFFICES ASSUME NEW j \in Objs, NEW d \in Cyls PROVE j \in Members(lo[d]) <=> po[j] = d
      OBVIOUS
    <3>1. (j \in Members(li[d]) <=> pa[j] = d) /\ (i \in Members(li[d]) <=> pa[i] = d)
      BY <1>0 DEF InPlace
    <3>2. pa[i] = c
      BY DEF pa, c
    <3>3. CASE j = i
      <4>1. po[j] # d
        BY <1>2, <1>6, <3>3
      <4>2. j \notin Members(lo[d])
        BY <1>4, <1>7, <3>1, <3>2, <3>3
      <4> QED BY <4>1, <4>2
    <3>4. CASE j # i
      <4>1. po[j] = pa[j]
        BY <1>6, <3>4
      <4>2. j \in Members(lo[d]) <=> j \in Members(li[d])
        BY <1>4, <1>7, <3>4
      <4> QED BY <3>1, <4>1, <4>2
    <3> QED BY <3>3, <3>4
  <2>3. \A j \in Objs : po[j] = Nowhere <=> w.what[j] = "none" \/ j \in {i}
    BY <1>0, <1>6 DEF InPlace
  <2>4. \A j \in {i} : j \in Objs /\ w.what[j] # "none"
    BY <1>0
  <2> QED BY <2>1, <2>2, <2>3, <2>4 DEF InPlace
<1>9. Roomy(lo)
  <2>1. \A d \in Bags \cup Slots : d \in Cyls
    BY DEF Cyls
  <2>2. Len(li[c]) \in Nat
    BY <1>1
  <2>3. \A d \in Cyls : Len(li[d]) \in Nat /\ Len(lo[d]) \in Int /\ Len(lo[d]) <= Len(li[d])
    BY <1>1, <1>4, <1>7, <2>2
  <2>4. \A b \in Bags : Len(lo[b]) <= Capacity[b]
    <3> TAKE b \in Bags
    <3>1. Len(li[b]) <= Capacity[b] /\ b \in Cyls /\ Capacity[b] \in Nat
      BY <1>0, <1>2, <2>1 DEF Roomy
    <3>2. Len(li[b]) \in Nat /\ Len(lo[b]) \in Int /\ Len(lo[b]) <= Len(li[b])
      BY <2>3, <3>1
    <3> QED BY <3>1, <3>2
  <2>5. \A s \in Slots : Len(lo[s]) <= 1
    <3> TAKE s \in Slots
    <3>1. Len(li[s]) <= 1 /\ s \in Cyls
      BY <1>0, <2>1 DEF Roomy
    <3>2. Len(li[s]) \in Nat /\ Len(lo[s]) \in Int /\ Len(lo[s]) <= Len(li[s])
      BY <2>3, <3>1
    <3> QED BY <3>1, <3>2
  <2> QED BY <2>4, <2>5 DEF Roomy
<1>10. NoLoop(po, Bags) /\ Outward(po, Bags, c) = Outward(pa, Bags, c)
  <2>1. \A y \in Bags : po[y] \in {pa[y], Nowhere}
    BY <1>6 DEF Objs
  <2>2. Nowhere \notin Bags
    BY <1>2 DEF Cyls
  <2>3. IsFiniteSet(Bags)
    BY <1>2
  <2>4. NoLoop(pa, Bags)
    BY <1>0
  <2>5. NoLoop(po, Bags)
    BY <2>1, <2>2, <2>3, <2>4, OutLess
  <2>6. \A y \in Outward(pa, Bags, c) \cap Bags : po[y] = pa[y]
    BY <1>1, <1>6 DEF Objs
  <2>7. Outward(po, Bags, c) = Outward(pa, Bags, c)
    BY <2>3, <2>6, OutSame
  <2> QED BY <2>5, <2>7
<1>11. Sound(v, {i})
  BY <1>0, <1>3, <1>5, <1>8, <1>9, <1>10 DEF Sound
<1>12. /\ Sound(v, {i}) /\ v.what = w.what /\ v.count = w.count /\ v.total = w.total
       /\ v.parent = po
       /\ \A d \in Cyls \ {c} : v.lies[d] = li[d]
       /\ Members(v.lies[c]) = Members(li[c]) \ {i} /\ Len(v.lies[c]) = Len(li[c]) - 1
       /\ Outward(v.parent, Bags, c) = Outward(pa, Bags, c)
  BY <1>3, <1>4, <1>7, <1>10, <1>11
<1> QED BY <1>12 DEF v, c, li, pa, po

Whole(w, i, k) == i \in Bags \/ k = w.count[i]

LEMMA TakeWhole ==
  ASSUME I!ItemsAssumption, NEW w, NEW i, LiesSomewhere(w, i), NEW k, Whole(w, i, k)
  PROVE  I!Take(w, i, k) = I!Weigh(Lifted(w, i), w.parent[i], -I!Weight(w, i))
<1> DEFINE c == w.parent[i]
           d == -I!Weight(w, i)
           v == Lifted(w, i)
           x == I!Weigh(w, c, d)
           y == I!Weigh(v, c, d)
           lo == [w.lies EXCEPT ![c] = Dropping(w.lies[c], i)]
           po == [w.parent EXCEPT ![i] = Nowhere]
<1>0. /\ w \in ItemWorlds /\ i \in Objs /\ c \in Cyls /\ i \in Members(w.lies[c])
      /\ w.lies \in [Cyls -> Seq(Objs)] /\ Once(w.lies[c]) /\ Stacks \cap Bags = {}
  BY LyingIs, ItemsAssumed DEF LiesSomewhere
<1>1. d \in Int
  <2>1. I!Weight(w, i) \in Int
    BY <1>0, WeightInt
  <2> QED BY <2>1
<1>2. /\ Sound(v, {i}) /\ v.what = w.what /\ v.count = w.count /\ v.total = w.total /\ v.parent = po
      /\ Outward(v.parent, Bags, c) = Outward(w.parent, Bags, c)
  BY LiftedSound
<1>3. v.lies = lo
  BY DEF Lifted, WorldOf
<1>4. I!Take(w, i, k) = [x EXCEPT !.lies[c] = I!Without(@, i), !.parent[i] = Nowhere]
  BY <1>0 DEF I!Take, Whole
<1> HIDE DEF d, v, c
<1>5. /\ x \in ItemWorlds /\ x.what = w.what /\ x.count = w.count /\ x.lies = w.lies /\ x.parent = w.parent
      /\ x.total = [b \in Bags |-> IF b \in Outward(w.parent, Bags, c) THEN Raised(w.total[b], d) ELSE w.total[b]]
  BY <1>0, <1>1, WeighIs
<1>6. /\ y \in ItemWorlds /\ y.what = v.what /\ y.count = v.count /\ y.lies = v.lies /\ y.parent = v.parent
      /\ y.total = [b \in Bags |-> IF b \in Outward(v.parent, Bags, c) THEN Raised(v.total[b], d) ELSE v.total[b]]
  <2>1. v \in ItemWorlds
    BY <1>2 DEF Sound
  <2> QED BY <1>1, <2>1, WeighIs
<1> HIDE DEF x, y
<1>7. y.total = x.total
  BY <1>2, <1>5, <1>6
<1>8. I!Without(w.lies[c], i) = Dropping(w.lies[c], i)
  <2>1. w.lies[c] \in Seq(Objs)
    BY <1>0
  <2> QED BY <1>0, <2>1, OutOfIs
<1> DEFINE z == [x EXCEPT !.lies[c] = I!Without(@, i), !.parent[i] = Nowhere]
           z1 == [x EXCEPT !.lies = lo]
<1>9. z = WorldOf(w.what, w.count, lo, po, x.total)
  <2>1. z = [z1 EXCEPT !.parent = po]
    BY <1>5, <1>8 DEF ItemWorlds
  <2>2. x = WorldOf(w.what, w.count, w.lies, w.parent, x.total)
    BY <1>5, WorldIs
  <2> HIDE DEF z, lo, po
  <2>3. z1 = WorldOf(w.what, w.count, lo, w.parent, x.total)
    BY <2>2 DEF WorldOf
  <2> HIDE DEF z1
  <2> QED BY <2>1, <2>3 DEF WorldOf
<1>10. y = WorldOf(w.what, w.count, lo, po, x.total)
  <2>1. y = WorldOf(y.what, y.count, y.lies, y.parent, y.total)
    BY <1>6, WorldIs
  <2> HIDE DEF lo, po
  <2> QED BY <1>2, <1>3, <1>6, <1>7, <2>1
<1> QED BY <1>4, <1>9, <1>10 DEF y, d, v, c

\* z is w without i in its place.
Taken(w, z, i) ==
  LET c == w.parent[i]
  IN /\ Sound(z, {i}) /\ z.what = w.what /\ z.count = w.count
     /\ z.parent = [w.parent EXCEPT ![i] = Nowhere]
     /\ \A d \in Cyls \ {c} : z.lies[d] = w.lies[d]
     /\ Members(z.lies[c]) = Members(w.lies[c]) \ {i} /\ Len(z.lies[c]) = Len(w.lies[c]) - 1
     /\ \A b \in Bags : b \notin Outward(w.parent, Bags, c) => z.total[b] = w.total[b]

LEMMA TakeSound ==
  ASSUME I!ItemsAssumption, NEW w, NEW i, LiesSomewhere(w, i), NEW k, Whole(w, i, k)
  PROVE  Taken(w, I!Take(w, i, k), i)
<1> DEFINE z == I!Take(w, i, k)
           c == w.parent[i]
           v == Lifted(w, i)
           d == -I!Weight(w, i)
           y == I!Weigh(v, c, d)
<1>1. /\ Sound(v, {i}) /\ v.what = w.what /\ v.count = w.count /\ v.total = w.total
      /\ v.parent = [w.parent EXCEPT ![i] = Nowhere]
      /\ \A e \in Cyls \ {c} : v.lies[e] = w.lies[e]
      /\ Members(v.lies[c]) = Members(w.lies[c]) \ {i} /\ Len(v.lies[c]) = Len(w.lies[c]) - 1
      /\ Outward(v.parent, Bags, c) = Outward(w.parent, Bags, c)
  BY LiftedSound
<1>2. z = y
  BY TakeWhole
<1>3. d \in Int
  <2>1. I!Weight(w, i) \in Int
    BY WeightInt DEF LiesSomewhere, Sound
  <2> QED BY <2>1
<1> HIDE DEF z, v, d
<1>4. /\ Sound(y, {i}) /\ y.what = v.what /\ y.count = v.count /\ y.lies = v.lies /\ y.parent = v.parent
      /\ \A b \in Bags : b \notin Outward(v.parent, Bags, c) => y.total[b] = v.total[b]
  BY <1>1, <1>3, WeighSound
<1> HIDE DEF y, c
<1>5. /\ Sound(z, {i}) /\ z.what = w.what /\ z.count = w.count
      /\ z.parent = [w.parent EXCEPT ![i] = Nowhere]
      /\ \A e \in Cyls \ {c} : z.lies[e] = w.lies[e]
      /\ Members(z.lies[c]) = Members(w.lies[c]) \ {i} /\ Len(z.lies[c]) = Len(w.lies[c]) - 1
      /\ \A b \in Bags : b \notin Outward(w.parent, Bags, c) => z.total[b] = w.total[b]
  BY <1>1, <1>2, <1>4
<1> QED BY <1>5 DEF z, c, Taken

LEMMA TakeWeighed ==
  ASSUME I!ItemsAssumption, NEW w, NEW i, LiesSomewhere(w, i), NEW k, Whole(w, i, k),
         NEW F \in [Bags -> Int], Tells(w, F, i), Weighed(w, F)
  PROVE  Weighed(I!Take(w, i, k), F)
<1> DEFINE v == Lifted(w, i)
           c == w.parent[i]
           e == I!Weight(w, i)
           d == -e
           tell == Telling(w.count, w.total, F)
<1>0. w \in ItemWorlds /\ c \in Cyls /\ i \in Objs /\ Wrap \in Nat \ {0} /\ w.total \in [Bags -> Int]
      /\ w.count \in [Objs -> Int] /\ w.lies \in [Cyls -> Seq(Objs)] /\ i \in Members(w.lies[c])
  BY LyingIs, WorldIs, ItemsAssumed DEF LiesSomewhere
<1>1. e \in Int /\ d \in Int /\ Congruent(e, tell[i])
  <2>1. e \in Int
    BY <1>0, WeightInt
  <2>2. Congruent(e, tell[i])
    BY DEF Tells
  <2> HIDE DEF e
  <2> QED BY <2>1, <2>2
<1>2. I!Take(w, i, k) = I!Weigh(v, c, d)
  BY TakeWhole
<1>3. /\ Sound(v, {i}) /\ v.what = w.what /\ v.count = w.count /\ v.total = w.total
      /\ v.parent = [w.parent EXCEPT ![i] = Nowhere]
      /\ \A y \in Cyls \ {c} : v.lies[y] = w.lies[y]
      /\ Members(v.lies[c]) = Members(w.lies[c]) \ {i} /\ Len(v.lies[c]) = Len(w.lies[c]) - 1
      /\ Outward(v.parent, Bags, c) = Outward(w.parent, Bags, c)
  BY LiftedSound
<1>6. \A x \in Objs : tell[x] \in Int
  BY <1>0, TellingInt
<1> HIDE DEF v, e, tell, c
<1>7. Off(v, F, c, d)
  <2> SUFFICES ASSUME NEW b \in Bags
               PROVE Congruent(w.total[b] + (IF b = c THEN d ELSE 0), SumOver(tell, Members(v.lies[b])))
    BY <1>3 DEF Off, Told, tell
  <2> DEFINE S0 == Members(w.lies[b])
             n == w.total[b]
             s == SumOver(tell, S0)
  <2>0. b \in Cyls
    BY DEF Cyls
  <2>1. Congruent(n, s)
    BY DEF Weighed, Told, tell
  <2>2. S0 \subseteq Objs /\ IsFiniteSet(S0)
    <3>1. w.lies[b] \in Seq(Objs)
      BY <1>0, <2>0
    <3> QED BY <3>1, MembersAre
  <2>3. n \in Int
    BY <1>0
  <2>4. CASE b # c
    <3>1. Members(v.lies[b]) = S0 /\ n + 0 = n
      BY <1>3, <2>0, <2>3, <2>4
    <3> QED BY <2>1, <2>4, <3>1
  <2>5. CASE b = c
    <3>1. i \in S0 /\ Members(v.lies[b]) = S0 \ {i}
      BY <1>0, <1>3, <2>5
    <3>2. \A y \in S0 : tell[y] \in Int
      BY <1>6, <2>2
    <3>3. IsFiniteSet(S0 \ {i}) /\ \A y \in S0 \ {i} : tell[y] \in Int
      BY <2>2, <3>2, FS_Subset
    <3> HIDE DEF S0
    <3> DEFINE t == tell[i]
               r == SumOver(tell, S0 \ {i})
    <3>4. s = t + r
      BY <2>2, <3>1, <3>2, SumTake
    <3>5. r \in Int
      BY <3>3, SumInt
    <3>6. t \in Int /\ Congruent(e, t)
      BY <1>1, <3>1, <3>2
    <3> HIDE DEF s, n, t, r
    <3>7. Congruent(-e, -t)
      BY <1>0, <1>1, <3>6, CongruentBack
    <3>8. s \in Int /\ -t \in Int /\ -e \in Int
      BY <1>1, <3>4, <3>5, <3>6
    <3>9. Congruent(n + (-e), s + (-t))
      BY <1>0, <2>1, <2>3, <3>7, <3>8, CongruentSum
    <3>10. s + (-t) = r
      BY <3>4, <3>5, <3>6
    <3> QED BY <2>5, <3>1, <3>9, <3>10 DEF n, r
  <2> QED BY <2>4, <2>5
<1>8. v \in ItemWorlds /\ NoLoop(v.parent, Bags) /\ InPlace(v.what, v.lies, v.parent, {i})
  BY <1>3 DEF Sound
<1>9. \A x \in Objs, b \in Bags : x \in Members(v.lies[b]) <=> v.parent[x] = b
  BY <1>8 DEF InPlace, Cyls
<1>10. NoLoop(v.parent, Bags)
  BY <1>8
<1>11. Weighed(I!Weigh(v, c, d), F)
  BY <1>1, <1>7, <1>8, <1>9, <1>10, WeighFine
<1> QED BY <1>2, <1>11

-----------------------------------------------------------------------------
(* Counting a stack anew.                                                  *)

CountedAs(w, i, kind, n) ==
  WorldOf([w.what EXCEPT ![i] = kind], [w.count EXCEPT ![i] = n], w.lies, w.parent, w.total)

Recounted(w, i, kind, n) == [w EXCEPT !.what[i] = kind, !.count[i] = n]

LEMMA CountedIs ==
  ASSUME NEW w \in ItemWorlds, NEW i, NEW kind, NEW n
  PROVE  Recounted(w, i, kind, n) = CountedAs(w, i, kind, n)
<1>1. w = WorldOf(w.what, w.count, w.lies, w.parent, w.total)
  BY WorldIs
<1> DEFINE wh == [w.what EXCEPT ![i] = kind]
           ct == [w.count EXCEPT ![i] = n]
           v == [w EXCEPT !.what[i] = kind, !.count[i] = n]
           va == [w EXCEPT !.what = wh]
<1>2. v = [va EXCEPT !.count = ct]
  BY DEF ItemWorlds
<1> HIDE DEF v, wh, ct
<1>5. va = WorldOf(wh, w.count, w.lies, w.parent, w.total)
  BY <1>1 DEF WorldOf
<1> HIDE DEF va
<1>7. v = WorldOf(wh, ct, w.lies, w.parent, w.total)
  BY <1>2, <1>5 DEF WorldOf
<1>8. CountedAs(w, i, kind, n) = WorldOf(wh, ct, w.lies, w.parent, w.total)
  BY DEF CountedAs, wh, ct
<1> QED BY <1>7, <1>8 DEF v, Recounted

LEMMA VanishIs == ASSUME NEW w \in ItemWorlds, NEW i PROVE I!Vanish(w, i) = CountedAs(w, i, "none", 0)
<1>1. I!Vanish(w, i) = Recounted(w, i, "none", 0)
  BY DEF I!Vanish, Recounted
<1>2. Recounted(w, i, "none", 0) = CountedAs(w, i, "none", 0)
  BY CountedIs
<1> QED BY <1>1, <1>2

LEMMA RecountIs ==
  ASSUME NEW w \in ItemWorlds, NEW i, NEW n
  PROVE  [w EXCEPT !.count[i] = n] = CountedAs(w, i, w.what[i], n)
<1>1. w = WorldOf(w.what, w.count, w.lies, w.parent, w.total) /\ w.what \in [Objs -> Kinds]
  BY WorldIs
<1> DEFINE ct == [w.count EXCEPT ![i] = n]
           v == [w EXCEPT !.count[i] = n]
           wh == [w.what EXCEPT ![i] = w.what[i]]
<1>2. v = [w EXCEPT !.count = ct]
  BY DEF ItemWorlds
<1>3. wh = w.what
  BY <1>1
<1>4. CountedAs(w, i, w.what[i], n) = WorldOf(wh, ct, w.lies, w.parent, w.total)
  BY DEF CountedAs
<1> HIDE DEF v, ct, wh
<1>5. v = WorldOf(w.what, ct, w.lies, w.parent, w.total)
  BY <1>1, <1>2 DEF WorldOf
<1> QED BY <1>3, <1>4, <1>5 DEF v

Counts(kind, n) == kind \in {"gold", "platinum"} /\ n \in 1 .. Full

LEMMA CountedReal ==
  ASSUME I!ItemsAssumption, NEW w \in ItemWorlds, Real(w.what, w.count), NEW i \in Stacks, NEW kind, NEW n,
         Counts(kind, n) \/ (kind = "none" /\ n = 0)
  PROVE  LET v == CountedAs(w, i, kind, n)
         IN v \in ItemWorlds /\ Real(v.what, v.count)
<1> DEFINE wh == [w.what EXCEPT ![i] = kind]
           ct == [w.count EXCEPT ![i] = n]
           v == CountedAs(w, i, kind, n)
<1>0. /\ i \in Objs /\ i \notin Bags /\ Full \in Nat \ {0} /\ w.what \in [Objs -> Kinds] /\ w.count \in [Objs -> Int]
  BY WorldIs, ItemsAssumed DEF Objs
<1>1. kind \in Kinds /\ n \in 0 .. Full /\ (kind = "none" <=> n = 0) /\ kind \in {"none", "gold", "platinum"}
  BY <1>0 DEF Counts, Kinds
<1>2. wh \in [Objs -> Kinds] /\ ct \in [Objs -> Int]
  <2>1. n \in Int
    BY <1>0, <1>1
  <2> QED BY <1>0, <1>1, <2>1
<1>3. v.what = wh /\ v.count = ct
  BY DEF CountedAs, WorldOf
<1>4. v \in ItemWorlds
  <2>1. w.lies \in [Cyls -> Seq(Objs)] /\ w.parent \in [Objs -> Cyls \cup {Nowhere}] /\ w.total \in [Bags -> Int]
    BY WorldIs
  <2> HIDE DEF wh, ct
  <2>2. v = WorldOf(wh, ct, w.lies, w.parent, w.total)
    BY DEF CountedAs, wh, ct
  <2> HIDE DEF v
  <2> QED BY <1>2, <2>1, <2>2 DEF ItemWorlds, WorldOf
<1>5. wh[i] = kind /\ ct[i] = n /\ \A j \in Objs \ {i} : wh[j] = w.what[j] /\ ct[j] = w.count[j]
  BY <1>0
<1> HIDE DEF wh, ct
<1>6. Real(wh, ct)
  <2>1. \A b \in Bags : wh[b] = "bag" /\ ct[b] = 1
    BY <1>0, <1>5 DEF Real, Objs
  <2>2. \A j \in Stacks : wh[j] \in {"none", "gold", "platinum"} /\ ct[j] \in 0 .. Full /\ (wh[j] = "none" <=> ct[j] = 0)
    <3> TAKE j \in Stacks
    <3>1. CASE j = i
      BY <1>1, <1>5, <3>1
    <3>2. CASE j # i
      <4>1. wh[j] = w.what[j] /\ ct[j] = w.count[j]
        BY <1>5, <3>2 DEF Objs
      <4> QED BY <4>1 DEF Real
    <3> QED BY <3>1, <3>2
  <2> QED BY <2>1, <2>2 DEF Real
<1> QED BY <1>3, <1>4, <1>6

\* A stack that lies somewhere gets another count.
Lies(w, i) == i \in Stacks /\ w.parent[i] \in Cyls

LEMMA RecountSound ==
  ASSUME I!ItemsAssumption, NEW w, NEW hand, Sound(w, hand), NEW i, Lies(w, i), NEW k \in 1 .. Full
  PROVE  LET v == CountedAs(w, i, w.what[i], k)
         IN Sound(v, hand) /\ v.what = w.what /\ I!Resize(w, i, k) = I!Weigh(v, w.parent[i], (k - w.count[i]) * 10)
<1> DEFINE n == w.what[i]
           v == CountedAs(w, i, n, k)
<1>0. /\ w \in ItemWorlds /\ Real(w.what, w.count) /\ InPlace(w.what, w.lies, w.parent, hand) /\ Roomy(w.lies)
      /\ NoLoop(w.parent, Bags) /\ \A b \in Bags : w.total[b] \in 0 .. Wrap - 1
  BY DEF Sound
<1>1. i \in Objs /\ i \in Stacks /\ w.what \in [Objs -> Kinds] /\ w.parent[i] \in Cyls /\ Nowhere \notin Cyls
  BY <1>0, WorldIs, ItemsAssumed DEF Lies, Objs, Cyls
<1>2. Counts(n, k)
  <2>1. w.parent[i] # Nowhere
    BY <1>1
  <2>2. n # "none"
    BY <1>0, <1>1, <2>1 DEF InPlace
  <2> QED BY <1>0, <1>1, <2>2 DEF Real, Counts
<1>3. v \in ItemWorlds /\ Real(v.what, v.count)
  BY <1>0, <1>1, <1>2, CountedReal
<1>4. v.what = w.what /\ v.lies = w.lies /\ v.parent = w.parent /\ v.total = w.total
  <2>1. [w.what EXCEPT ![i] = n] = w.what
    BY <1>1
  <2> QED BY <2>1 DEF CountedAs, WorldOf
<1>5. [w EXCEPT !.count[i] = k] = v
  <2>1. w \in ItemWorlds
    BY <1>0
  <2> QED BY <2>1, RecountIs
<1>6. I!Resize(w, i, k) = I!Weigh(v, w.parent[i], (k - w.count[i]) * 10)
  BY <1>5 DEF I!Resize, I!Unit
<1> HIDE DEF v, n
<1>7. Sound(v, hand)
  BY <1>0, <1>3, <1>4 DEF Sound
<1>8. Sound(v, hand) /\ v.what = w.what /\ I!Resize(w, i, k) = I!Weigh(v, w.parent[i], (k - w.count[i]) * 10)
  BY <1>4, <1>6, <1>7
<1> QED BY <1>8 DEF v, n

LEMMA ResizeSound ==
  ASSUME I!ItemsAssumption, NEW w, NEW hand, Sound(w, hand), NEW i, Lies(w, i), NEW k \in 1 .. Full
  PROVE  LET z == I!Resize(w, i, k)
         IN /\ Sound(z, hand) /\ z.what = w.what /\ z.count = [w.count EXCEPT ![i] = k]
            /\ z.lies = w.lies /\ z.parent = w.parent
            /\ \A b \in Bags : b \notin Outward(w.parent, Bags, w.parent[i]) => z.total[b] = w.total[b]
<1> DEFINE z == I!Resize(w, i, k)
           v == CountedAs(w, i, w.what[i], k)
           d == (k - w.count[i]) * 10
           c == w.parent[i]
           y == I!Weigh(v, c, d)
<1>1. Sound(v, hand) /\ v.what = w.what /\ z = y
  BY RecountSound
<1>2. v.count = [w.count EXCEPT ![i] = k] /\ v.lies = w.lies /\ v.parent = w.parent /\ v.total = w.total
  BY DEF CountedAs, WorldOf
<1>3. d \in Int
  <2>1. w.count \in [Objs -> Int] /\ i \in Objs /\ Full \in Nat
    BY WorldIs, ItemsAssumed DEF Sound, Lies, Objs
  <2>2. w.count[i] \in Int /\ k \in Int
    BY <2>1
  <2> QED BY <2>2
<1> HIDE DEF z, v, d, c
<1>4. /\ Sound(y, hand) /\ y.what = v.what /\ y.count = v.count /\ y.lies = v.lies /\ y.parent = v.parent
      /\ \A b \in Bags : b \notin Outward(v.parent, Bags, c) => y.total[b] = v.total[b]
  BY <1>1, <1>3, WeighSound
<1> HIDE DEF y
<1>5. /\ Sound(z, hand) /\ z.what = w.what /\ z.count = [w.count EXCEPT ![i] = k]
      /\ z.lies = w.lies /\ z.parent = w.parent
      /\ \A b \in Bags : b \notin Outward(w.parent, Bags, c) => z.total[b] = w.total[b]
  BY <1>1, <1>2, <1>4
<1> QED BY <1>5 DEF z, c

LEMMA ResizeWeighed ==
  ASSUME I!ItemsAssumption, NEW w, NEW hand, Sound(w, hand), NEW i, Lies(w, i), NEW k \in 1 .. Full,
         NEW F \in [Bags -> Int], Weighed(w, F)
  PROVE  Weighed(I!Resize(w, i, k), F)
<1> DEFINE v == CountedAs(w, i, w.what[i], k)
           c == w.parent[i]
           old == w.count[i]
           d == (k - old) * 10
           tell == Telling(w.count, w.total, F)
           told == Telling(v.count, w.total, F)
<1>0. w \in ItemWorlds /\ c \in Cyls /\ i \in Stacks /\ i \in Objs /\ Wrap \in Nat \ {0} /\ w.total \in [Bags -> Int]
      /\ w.count \in [Objs -> Int] /\ w.lies \in [Cyls -> Seq(Objs)] /\ Full \in Nat
  BY WorldIs, ItemsAssumed DEF Sound, Lies, Objs
<1>1. old \in Int /\ k \in Int /\ d \in Int
  <2>1. old \in Int /\ k \in Int
    BY <1>0
  <2> HIDE DEF old
  <2> QED BY <2>1
<1>2. I!Resize(w, i, k) = I!Weigh(v, c, d) /\ Sound(v, hand)
  BY RecountSound
<1>3. v.lies = w.lies /\ v.total = w.total /\ v.count = [w.count EXCEPT ![i] = k]
  BY DEF CountedAs, WorldOf
<1>4. v \in ItemWorlds /\ NoLoop(v.parent, Bags) /\ InPlace(v.what, v.lies, v.parent, hand) /\ v.parent = w.parent
  BY <1>2 DEF Sound, CountedAs, WorldOf
<1>5. v.count \in [Objs -> Int]
  BY <1>4, WorldIs
<1>6. \A x \in Objs : tell[x] \in Int /\ told[x] \in Int
  BY <1>0, <1>5, TellingInt
<1>7. tell[i] = old * 10 /\ told[i] = k * 10 /\ \A x \in Objs \ {i} : told[x] = tell[x]
  BY <1>0, <1>3 DEF Telling
<1>8. told[i] - tell[i] = d
  BY <1>1, <1>7
<1> HIDE DEF v, tell, d, told, c, old
<1>9. \A x \in Objs, b \in Bags : x \in Members(v.lies[b]) <=> v.parent[x] = b
  BY <1>4 DEF InPlace, Cyls
<1>10. Off(v, F, c, d)
  <2> SUFFICES ASSUME NEW b \in Bags
               PROVE Congruent(w.total[b] + (IF b = c THEN d ELSE 0), SumOver(told, Members(w.lies[b])))
    BY <1>3 DEF Off, Told, told
  <2> DEFINE S0 == Members(w.lies[b])
             n == w.total[b]
             s == SumOver(tell, S0)
  <2>0. b \in Cyls
    BY DEF Cyls
  <2>1. Congruent(n, s)
    BY DEF Weighed, Told, tell
  <2>2. S0 \subseteq Objs /\ IsFiniteSet(S0)
    <3>1. w.lies[b] \in Seq(Objs)
      BY <1>0, <2>0
    <3> QED BY <3>1, MembersAre
  <2>3. n \in Int
    BY <1>0
  <2>4. i \in S0 <=> b = c
    BY <1>0, <1>3, <1>4, <1>9 DEF c
  <2>5. \A x \in S0 : tell[x] \in Int /\ told[x] \in Int
    BY <1>6, <2>2
  <2>6. s \in Int
    BY <2>2, <2>5, SumInt
  <2>7. CASE b # c
    <3>1. \A x \in S0 : tell[x] = told[x]
      BY <1>7, <2>2, <2>4, <2>7
    <3> HIDE DEF S0
    <3>2. s = SumOver(told, S0)
      BY <2>2, <3>1, SumSame
    <3>3. n + 0 = n
      BY <2>3
    <3> QED BY <2>1, <2>7, <3>2, <3>3 DEF S0
  <2>8. CASE b = c
    <3>1. i \in S0 /\ \A x \in S0 \ {i} : tell[x] = told[x]
      BY <1>7, <2>2, <2>4, <2>8
    <3> HIDE DEF S0
    <3>2. SumOver(told, S0) = s + (told[i] - tell[i])
      BY <2>2, <2>5, <3>1, SumChanged
    <3> HIDE DEF s, n
    <3>3. Congruent(d, d)
      BY <1>0, <1>1, CongruentSelf
    <3>4. Congruent(n + d, s + d)
      BY <1>0, <1>1, <2>1, <2>3, <2>6, <3>3, CongruentSum
    <3> QED BY <1>8, <2>8, <3>2, <3>4 DEF n, S0
  <2> QED BY <2>7, <2>8
<1>11. NoLoop(v.parent, Bags)
  BY <1>4
<1>12. Weighed(I!Weigh(v, c, d), F)
  BY <1>1, <1>4, <1>9, <1>10, <1>11, WeighFine
<1> QED BY <1>2, <1>12

\* What lies nowhere is made, counted anew, or gone.
LEMMA InHandSound ==
  ASSUME I!ItemsAssumption, NEW w, NEW hand, Sound(w, hand), NEW i \in Stacks, hand \subseteq {i}, w.parent[i] = Nowhere,
         NEW kind, NEW n, NEW hold, (Counts(kind, n) /\ hold = {i}) \/ (kind = "none" /\ n = 0 /\ hold = {})
  PROVE  Sound(CountedAs(w, i, kind, n), hold)
<1> DEFINE v == CountedAs(w, i, kind, n)
           wh == [w.what EXCEPT ![i] = kind]
<1>0. /\ w \in ItemWorlds /\ Real(w.what, w.count) /\ InPlace(w.what, w.lies, w.parent, hand) /\ Roomy(w.lies)
      /\ NoLoop(w.parent, Bags) /\ \A b \in Bags : w.total[b] \in 0 .. Wrap - 1
      /\ i \in Objs /\ w.what \in [Objs -> Kinds]
  BY WorldIs DEF Sound, Objs
<1>1. v \in ItemWorlds /\ Real(v.what, v.count)
  BY <1>0, CountedReal
<1>2. v.what = wh /\ v.lies = w.lies /\ v.parent = w.parent /\ v.total = w.total
  BY DEF CountedAs, WorldOf
<1>3. wh[i] = kind /\ \A j \in Objs \ {i} : wh[j] = w.what[j]
  BY <1>0
<1> HIDE DEF v, wh
<1>4. InPlace(wh, w.lies, w.parent, hold)
  <2>1. /\ \A d \in Cyls : Once(w.lies[d])
        /\ \A j \in Objs, d \in Cyls : j \in Members(w.lies[d]) <=> w.parent[j] = d
    BY <1>0 DEF InPlace
  <2>2. \A j \in Objs : w.parent[j] = Nowhere <=> wh[j] = "none" \/ j \in hold
    <3> TAKE j \in Objs
    <3>1. w.parent[j] = Nowhere <=> w.what[j] = "none" \/ j \in hand
      BY <1>0 DEF InPlace
    <3>2. CASE j = i
      BY <1>3, <3>2
    <3>3. CASE j # i
      BY <1>3, <3>1, <3>3
    <3> QED BY <3>2, <3>3
  <2>3. \A j \in hold : j \in Objs /\ wh[j] # "none"
    BY <1>0, <1>3 DEF Counts
  <2> QED BY <2>1, <2>2, <2>3 DEF InPlace
<1>5. Sound(v, hold)
  BY <1>0, <1>1, <1>2, <1>4 DEF Sound
<1> QED BY <1>5 DEF v

LEMMA InHandWeighed ==
  ASSUME I!ItemsAssumption, NEW w, NEW hand, Sound(w, hand), NEW i \in Stacks, w.parent[i] = Nowhere,
         NEW kind, NEW n, NEW F, Weighed(w, F)
  PROVE  Weighed(CountedAs(w, i, kind, n), F)
<1> DEFINE v == CountedAs(w, i, kind, n)
           tell == Telling(w.count, w.total, F)
           told == Telling(v.count, w.total, F)
<1>0. /\ InPlace(w.what, w.lies, w.parent, hand) /\ i \in Objs /\ Nowhere \notin Cyls
      /\ w.lies \in [Cyls -> Seq(Objs)] /\ w.count \in [Objs -> Int]
  BY WorldIs, ItemsAssumed DEF Sound, Objs, Cyls
<1>1. v.count = [w.count EXCEPT ![i] = n] /\ v.lies = w.lies /\ v.total = w.total
  BY DEF CountedAs, WorldOf
<1>2. \A x \in Objs \ {i} : told[x] = tell[x]
  BY <1>0, <1>1 DEF Telling
<1> HIDE DEF v, tell, told
<1>3. ASSUME NEW b \in Bags PROVE Congruent(w.total[b], SumOver(told, Members(w.lies[b])))
  <2> DEFINE S0 == Members(w.lies[b])
  <2>1. b \in Cyls
    BY DEF Cyls
  <2>2. S0 \subseteq Objs /\ IsFiniteSet(S0)
    <3>1. w.lies[b] \in Seq(Objs)
      BY <1>0, <2>1
    <3> QED BY <3>1, MembersAre
  <2>3. i \notin S0
    BY <1>0, <2>1 DEF InPlace
  <2>4. \A x \in S0 : tell[x] = told[x]
    BY <1>2, <2>2, <2>3
  <2>5. Congruent(w.total[b], SumOver(tell, S0))
    BY DEF Weighed, Told, tell
  <2> HIDE DEF S0
  <2>6. SumOver(tell, S0) = SumOver(told, S0)
    BY <2>2, <2>4, SumSame
  <2> QED BY <2>5, <2>6 DEF S0
<1>4. Weighed(v, F)
  BY <1>1, <1>3 DEF Weighed, Told, told
<1> QED BY <1>4 DEF v

-----------------------------------------------------------------------------
(* Money.                                                                  *)

OneWorth(kind, n) == IF kind = "gold" THEN n ELSE IF kind = "platinum" THEN n * Full ELSE 0
WorthIn(wh, ct) == [i \in Stacks |-> OneWorth(wh[i], ct[i])]
Rich(w) == SumOver(WorthIn(w.what, w.count), Stacks)

LEMMA WorthIs == ASSUME NEW w, NEW i PROVE I!Worth(w, i) = OneWorth(w.what[i], w.count[i])
BY DEF I!Worth, OneWorth

LEMMA MoneyIs == ASSUME NEW w PROVE I!Money(w) = Rich(w)
<1> DEFINE f == [i \in Stacks |-> I!Worth(w, i)]
<1>1. f = WorthIn(w.what, w.count)
  BY WorthIs DEF WorthIn
<1>2. DOMAIN f = Stacks
  OBVIOUS
<1>3. I!Money(w) = I!SumFunctionOnSet(f, DOMAIN f)
  BY DEF I!Money, I!SumFunction
<1> HIDE DEF f
<1>4. I!SumFunctionOnSet(f, Stacks) = SumOver(f, Stacks)
  BY ItemsSum
<1> QED BY <1>1, <1>2, <1>3, <1>4 DEF Rich

LEMMA OneWorthAdds ==
  ASSUME I!ItemsAssumption, NEW kind, NEW a \in Int, NEW b \in Int
  PROVE  /\ OneWorth(kind, a) \in Int /\ OneWorth(kind, a + b) = OneWorth(kind, a) + OneWorth(kind, b)
         /\ a >= 0 => OneWorth(kind, a) \in Nat
<1>1. Full \in Nat
  BY ItemsAssumed
<1>2. a * Full \in Int /\ (a + b) * Full = a * Full + b * Full /\ (a >= 0 => a * Full \in Nat)
  BY <1>1
<1> QED BY <1>2 DEF OneWorth

LEMMA RichNat ==
  ASSUME I!ItemsAssumption, NEW w \in ItemWorlds
  PROVE  /\ \A i \in Stacks : WorthIn(w.what, w.count)[i] = OneWorth(w.what[i], w.count[i])
                              /\ WorthIn(w.what, w.count)[i] \in Int
         /\ Rich(w) \in Int
         /\ Real(w.what, w.count) => \A i \in Stacks : OneWorth(w.what[i], w.count[i]) \in Nat
<1> DEFINE f == WorthIn(w.what, w.count)
<1>1. w.count \in [Objs -> Int] /\ IsFiniteSet(Stacks) /\ Full \in Nat
  BY WorldIs, ItemsAssumed
<1>2. \A i \in Stacks : w.count[i] \in Int
  BY <1>1 DEF Objs
<1>3. \A i \in Stacks : f[i] = OneWorth(w.what[i], w.count[i])
  BY DEF WorthIn
<1>4. \A i \in Stacks : OneWorth(w.what[i], w.count[i]) \in Int
  BY <1>2, OneWorthAdds
<1>5. Real(w.what, w.count) => \A i \in Stacks : OneWorth(w.what[i], w.count[i]) \in Nat
  <2> SUFFICES ASSUME Real(w.what, w.count), NEW i \in Stacks PROVE OneWorth(w.what[i], w.count[i]) \in Nat
    OBVIOUS
  <2>1. w.count[i] \in Int /\ w.count[i] >= 0
    BY <1>1 DEF Real
  <2> QED BY <2>1, OneWorthAdds
<1> HIDE DEF f
<1>6. \A i \in Stacks : f[i] \in Int
  BY <1>3, <1>4
<1>7. SumOver(f, Stacks) \in Int
  BY <1>1, <1>6, SumInt
<1> QED BY <1>3, <1>5, <1>6, <1>7 DEF f, Rich

\* Worlds of which one stack differs.
ButFor(w, v, i) == \A y \in Stacks \ {i} : w.what[y] = v.what[y] /\ w.count[y] = v.count[y]
WorthAt(w, i) == OneWorth(w.what[i], w.count[i])

LEMMA RichChanged ==
  ASSUME I!ItemsAssumption, NEW w \in ItemWorlds, NEW v \in ItemWorlds, NEW i \in Stacks, ButFor(w, v, i)
  PROVE  Rich(v) = Rich(w) + (WorthAt(v, i) - WorthAt(w, i))
<1> DEFINE f == WorthIn(w.what, w.count)
           g == WorthIn(v.what, v.count)
<1>1. IsFiniteSet(Stacks)
  BY ItemsAssumed
<1>2. \A y \in Stacks : f[y] \in Int /\ g[y] \in Int
  BY RichNat
<1>3. \A y \in Stacks \ {i} : f[y] = g[y]
  BY DEF WorthIn, ButFor
<1>4. f[i] = WorthAt(w, i) /\ g[i] = WorthAt(v, i)
  BY DEF WorthIn, WorthAt
<1> HIDE DEF f, g
<1>5. SumOver(g, Stacks) = SumOver(f, Stacks) + (g[i] - f[i])
  BY <1>1, <1>2, <1>3, SumChanged
<1> QED BY <1>4, <1>5 DEF Rich, f, g

-----------------------------------------------------------------------------
(* A stack, and what it has room for.                                      *)

\* Room for a stack.
RoomFor(w, c) ==
  c \in Cyls /\ (c \in Bags => Len(w.lies[c]) < Capacity[c]) /\ (c \in Slots => w.lies[c] = <<>>)

LEMMA AroundAre ==
  ASSUME I!ItemsAssumption, NEW w \in ItemWorlds, NEW c \in Cyls
  PROVE  Outward(w.parent, Bags, c) \subseteq Cyls \cup {Nowhere}
<1> DEFINE A == Cyls \cup {Nowhere}
<1>1. w.parent \in [Objs -> Cyls \cup {Nowhere}] /\ IsFiniteSet(Bags)
  BY WorldIs, ItemsAssumed
<1>2. c \in A /\ Closed(w.parent, Bags, A)
  BY <1>1 DEF Closed, Objs
<1> HIDE DEF A
<1>3. Outward(w.parent, Bags, c) \subseteq A
  BY <1>1, <1>2, OutwardIs
<1> QED BY <1>3 DEF A

LEMMA StackRoom ==
  ASSUME I!ItemsAssumption, NEW w \in ItemWorlds, NEW c, RoomFor(w, c), NEW i \in Stacks
  PROVE  Room(w, c, i)
<1>1. i \notin Cyls \cup {Nowhere}
  BY ItemsAssumed DEF Cyls, Objs
<1>2. c \in Cyls
  BY DEF RoomFor
<1>3. Outward(w.parent, Bags, c) \subseteq Cyls \cup {Nowhere}
  BY <1>2, AroundAre
<1> QED BY <1>1, <1>3 DEF RoomFor, Room

\* n more coins on the stack `to`.
GrownBy(w, to, n) == IF n > 0 THEN I!Resize(w, to, w.count[to] + n) ELSE w
Grows(w, kind, to, n) == n > 0 => Lies(w, to) /\ w.what[to] = kind /\ w.count[to] + n \in 1 .. Full

LEMMA GrownSound ==
  ASSUME I!ItemsAssumption, NEW w, NEW hand, Sound(w, hand), NEW kind, NEW to, NEW n \in Nat, Grows(w, kind, to, n)
  PROVE  LET g == GrownBy(w, to, n)
         IN /\ Sound(g, hand) /\ g.what = w.what /\ g.lies = w.lies /\ g.parent = w.parent
            /\ \A y \in Stacks : (n > 0 /\ y = to) \/ g.count[y] = w.count[y]
            /\ Rich(g) = Rich(w) + OneWorth(kind, n)
<1> DEFINE g == GrownBy(w, to, n)
<1>0. w \in ItemWorlds /\ Full \in Nat /\ w.count \in [Objs -> Int]
  BY ItemsAssumed, WorldIs DEF Sound
<1>1. CASE n = 0
  <2>1. g = w
    BY <1>1 DEF GrownBy
  <2>2. Rich(w) \in Int
    BY <1>0, RichNat
  <2>3. OneWorth(kind, n) = 0
    BY <1>0, <1>1 DEF OneWorth
  <2>4. Rich(w) = Rich(w) + 0
    BY <2>2
  <2> HIDE DEF g
  <2>5. /\ Sound(g, hand) /\ g.what = w.what /\ g.lies = w.lies /\ g.parent = w.parent
        /\ \A y \in Stacks : g.count[y] = w.count[y]
        /\ Rich(g) = Rich(w) + OneWorth(kind, n)
    BY <2>1, <2>3, <2>4
  <2> QED BY <2>5 DEF g
<1>2. CASE n > 0
  <2> DEFINE k == w.count[to] + n
             y == I!Resize(w, to, k)
  <2>1. Lies(w, to) /\ w.what[to] = kind /\ k \in 1 .. Full /\ to \in Stacks /\ to \in Objs /\ w.count[to] \in Int
    BY <1>0, <1>2 DEF Grows, Lies, Objs
  <2>2. g = y
    BY <1>2 DEF GrownBy
  <2>a. k = w.count[to] + n
    OBVIOUS
  <2> HIDE DEF g, k
  <2>3. /\ Sound(y, hand) /\ y.what = w.what /\ y.count = [w.count EXCEPT ![to] = k]
        /\ y.lies = w.lies /\ y.parent = w.parent
        /\ \A b \in Bags : b \notin Outward(w.parent, Bags, w.parent[to]) => y.total[b] = w.total[b]
    BY <2>1, ResizeSound
  <2> HIDE DEF y
  <2>4. /\ Sound(g, hand) /\ g.what = w.what /\ g.count = [w.count EXCEPT ![to] = k]
        /\ g.lies = w.lies /\ g.parent = w.parent
    BY <2>2, <2>3
  <2>5. g.count[to] = k /\ \A x \in Stacks \ {to} : g.count[x] = w.count[x]
    BY <1>0, <2>1, <2>4 DEF Objs
  <2>6. ButFor(w, g, to) /\ g \in ItemWorlds
    BY <2>4, <2>5 DEF ButFor, Sound
  <2>7. Rich(g) = Rich(w) + (WorthAt(g, to) - WorthAt(w, to))
    BY <1>0, <2>1, <2>6, RichChanged
  <2>8. WorthAt(w, to) = OneWorth(kind, w.count[to]) /\ WorthAt(g, to) = OneWorth(kind, w.count[to] + n)
    BY <2>a, <2>1, <2>4, <2>5 DEF WorthAt
  <2>9. /\ OneWorth(kind, w.count[to] + n) = OneWorth(kind, w.count[to]) + OneWorth(kind, n)
        /\ OneWorth(kind, w.count[to]) \in Int
    <3> DEFINE q == w.count[to]
    <3>1. q \in Int /\ n \in Int
      BY <2>1
    <3> HIDE DEF q
    <3>2. OneWorth(kind, q) \in Int /\ OneWorth(kind, q + n) = OneWorth(kind, q) + OneWorth(kind, n)
      BY <3>1, OneWorthAdds
    <3> QED BY <3>2 DEF q
  <2>10. OneWorth(kind, n) \in Int /\ Rich(w) \in Int
    BY <1>0, OneWorthAdds, RichNat
  <2>11. Rich(g) = Rich(w) + OneWorth(kind, n)
    BY <2>7, <2>8, <2>9, <2>10
  <2>12. \A x \in Stacks : x = to \/ g.count[x] = w.count[x]
    BY <2>5
  <2>13. /\ Sound(g, hand) /\ g.what = w.what /\ g.lies = w.lies /\ g.parent = w.parent
         /\ \A x \in Stacks : (n > 0 /\ x = to) \/ g.count[x] = w.count[x]
         /\ Rich(g) = Rich(w) + OneWorth(kind, n)
    BY <1>2, <2>4, <2>11, <2>12
  <2> QED BY <2>13 DEF g
<1> QED BY <1>1, <1>2

LEMMA GrownWeighed ==
  ASSUME I!ItemsAssumption, NEW w, NEW hand, Sound(w, hand), NEW kind, NEW to, NEW n \in Nat, Grows(w, kind, to, n),
         NEW F \in [Bags -> Int], Weighed(w, F)
  PROVE  Weighed(GrownBy(w, to, n), F)
<1>1. CASE n = 0
  BY <1>1 DEF GrownBy
<1>2. CASE n > 0
  <2> DEFINE k == w.count[to] + n
  <2>1. Lies(w, to) /\ k \in 1 .. Full
    BY <1>2 DEF Grows
  <2>2. GrownBy(w, to, n) = I!Resize(w, to, k)
    BY <1>2 DEF GrownBy
  <2> HIDE DEF k
  <2>3. Weighed(I!Resize(w, to, k), F)
    BY <2>1, ResizeWeighed
  <2> QED BY <2>2, <2>3
<1> QED BY <1>1, <1>2

\* m coins of a kind are put down: n on the stack `to`, the others as j in c.
Settled(w, j, kind, m, n, to, c) ==
  IF n = m THEN CountedAs(GrownBy(w, to, n), j, "none", 0)
  ELSE I!Put(CountedAs(GrownBy(w, to, n), j, kind, m - n), c, j)
Settles(w, hand, j, kind, m, n, to, c) ==
  /\ Sound(w, hand) /\ j \in Stacks /\ hand \subseteq {j} /\ w.parent[j] = Nowhere
  /\ kind \in {"gold", "platinum"} /\ m \in 1 .. Full /\ n \in 0 .. m
  /\ Grows(w, kind, to, n) /\ (n < m => RoomFor(w, c))

LEMMA SettledSound ==
  ASSUME I!ItemsAssumption, NEW w, NEW hand, NEW j, NEW kind, NEW m, NEW n, NEW to, NEW c,
         Settles(w, hand, j, kind, m, n, to, c)
  PROVE  LET z == Settled(w, j, kind, m, n, to, c)
         IN /\ Sound(z, {}) /\ \A y \in Objs \ {j} : z.what[y] = w.what[y]
            /\ Rich(z) = Rich(w) + OneWorth(kind, m) - WorthAt(w, j)
<1> DEFINE g == GrownBy(w, to, n)
           z == Settled(w, j, kind, m, n, to, c)
           k == IF n = m THEN "none" ELSE kind
           x == m - n
           v == CountedAs(g, j, k, x)
           hold == IF n = m THEN {} ELSE {j}
<1>0. /\ Sound(w, hand) /\ j \in Stacks /\ hand \subseteq {j} /\ w.parent[j] = Nowhere /\ j \in Objs
      /\ kind \in {"gold", "platinum"} /\ m \in Int /\ n \in Nat /\ n <= m /\ m <= Full /\ Full \in Nat
      /\ Grows(w, kind, to, n) /\ (n < m => RoomFor(w, c)) /\ w \in ItemWorlds
      /\ w.what \in [Objs -> Kinds] /\ w.count \in [Objs -> Int] /\ Nowhere \notin Cyls
  <2>1. /\ Sound(w, hand) /\ j \in Stacks /\ hand \subseteq {j} /\ w.parent[j] = Nowhere
        /\ kind \in {"gold", "platinum"} /\ m \in 1 .. Full /\ n \in 0 .. m
        /\ Grows(w, kind, to, n) /\ (n < m => RoomFor(w, c))
    BY DEF Settles
  <2>2. Full \in Nat /\ Nowhere \notin Cyls
    BY ItemsAssumed DEF Cyls, Objs
  <2>3. w \in ItemWorlds /\ w.what \in [Objs -> Kinds] /\ w.count \in [Objs -> Int]
    BY <2>1, WorldIs DEF Sound
  <2> QED BY <2>1, <2>2, <2>3 DEF Objs
<1>a. x \in Int /\ (n = m => x = 0) /\ (n # m => x \in 1 .. Full) /\ m = n + x
  BY <1>0
<1> HIDE DEF g
<1>1. /\ Sound(g, hand) /\ g.what = w.what /\ g.lies = w.lies /\ g.parent = w.parent
      /\ \A y \in Stacks : (n > 0 /\ y = to) \/ g.count[y] = w.count[y]
      /\ Rich(g) = Rich(w) + OneWorth(kind, n)
  BY <1>0, GrownSound DEF g
<1>2. g.count[j] = w.count[j]
  <2>1. n > 0 => j # to
    BY <1>0 DEF Grows, Lies
  <2> QED BY <1>0, <1>1, <2>1
<1>3. (Counts(k, x) /\ hold = {j}) \/ (k = "none" /\ x = 0 /\ hold = {})
  BY <1>0, <1>a DEF Counts
<1>4. Sound(v, hold)
  <2>1. g.parent[j] = Nowhere
    BY <1>0, <1>1
  <2> HIDE DEF k, x, hold
  <2> QED BY <1>0, <1>1, <1>3, <2>1, InHandSound
<1>5. v.what = [g.what EXCEPT ![j] = k] /\ v.count = [g.count EXCEPT ![j] = x] /\ v.lies = g.lies /\ v.parent = g.parent
  BY DEF CountedAs, WorldOf
<1>6. g \in ItemWorlds /\ v \in ItemWorlds /\ g.count \in [Objs -> Int]
  BY <1>1, <1>4, WorldIs DEF Sound
<1>7. v.what[j] = k /\ v.count[j] = x /\ \A y \in Objs \ {j} : v.what[y] = w.what[y] /\ v.count[y] = g.count[y]
  BY <1>0, <1>1, <1>5, <1>6
<1>8. Rich(v) = Rich(w) + OneWorth(kind, m) - WorthAt(w, j)
  <2>1. ButFor(g, v, j)
    BY <1>1, <1>7 DEF ButFor, Objs
  <2> HIDE DEF v, k, x
  <2>2. Rich(v) = Rich(g) + (WorthAt(v, j) - WorthAt(g, j))
    BY <1>0, <1>6, <2>1, RichChanged
  <2>3. WorthAt(g, j) = WorthAt(w, j)
    BY <1>1, <1>2 DEF WorthAt
  <2>4. WorthAt(w, j) \in Int
    <3>1. w.count[j] \in Int
      BY <1>0
    <3> QED BY <3>1, OneWorthAdds DEF WorthAt
  <2>5. WorthAt(v, j) = OneWorth(kind, x)
    BY <1>0, <1>a, <1>7 DEF WorthAt, k, OneWorth
  <2>6. /\ OneWorth(kind, n + x) = OneWorth(kind, n) + OneWorth(kind, x)
        /\ OneWorth(kind, n) \in Int
    BY <1>0, <1>a, OneWorthAdds
  <2>7. OneWorth(kind, x) \in Int
    BY <1>a, OneWorthAdds
  <2>8. Rich(w) \in Int
    BY <1>0, RichNat
  <2>9. OneWorth(kind, m) = OneWorth(kind, n) + OneWorth(kind, x)
    BY <1>a, <2>6
  <2> QED BY <1>1, <2>2, <2>3, <2>4, <2>5, <2>6, <2>7, <2>8, <2>9
<1>9. CASE n = m
  <2>1. z = v
    BY <1>9, <1>a DEF Settled, g
  <2>2. hold = {}
    BY <1>9
  <2> HIDE DEF v, z
  <2>3. Sound(z, {}) /\ (\A y \in Objs \ {j} : z.what[y] = w.what[y]) /\ Rich(z) = Rich(w) + OneWorth(kind, m) - WorthAt(w, j)
    BY <1>4, <1>7, <1>8, <2>1, <2>2
  <2> QED BY <2>3 DEF z
<1>10. CASE n # m
  <2> DEFINE y == I!Put(v, c, j)
  <2>1. z = y
    BY <1>10 DEF Settled, g
  <2>2. Sound(v, {j})
    BY <1>4, <1>10
  <2>3. Room(v, c, j)
    <3>1. RoomFor(w, c)
      BY <1>0, <1>10
    <3>2. v.lies = w.lies
      BY <1>1, <1>5
    <3> HIDE DEF v
    <3>3. RoomFor(v, c)
      BY <3>1, <3>2 DEF RoomFor
    <3> QED BY <1>0, <1>6, <3>3, StackRoom
  <2> HIDE DEF v, z
  <2>a. PutDown(v, y, c, j)
    BY <2>2, <2>3, PutSound
  <2>4. Sound(y, {}) /\ y.what = v.what /\ y.count = v.count
    BY <2>a DEF PutDown
  <2> HIDE DEF y
  <2>5. Rich(y) = Rich(v)
    BY <2>4 DEF Rich
  <2>6. Sound(z, {}) /\ (\A e \in Objs \ {j} : z.what[e] = w.what[e]) /\ Rich(z) = Rich(w) + OneWorth(kind, m) - WorthAt(w, j)
    BY <1>7, <1>8, <2>1, <2>4, <2>5
  <2> QED BY <2>6 DEF z
<1> QED BY <1>9, <1>10

LEMMA SettledWeighed ==
  ASSUME I!ItemsAssumption, NEW w, NEW hand, NEW j, NEW kind, NEW m, NEW n, NEW to, NEW c,
         Settles(w, hand, j, kind, m, n, to, c), NEW F \in [Bags -> Int], Weighed(w, F)
  PROVE  Weighed(Settled(w, j, kind, m, n, to, c), F)
<1> DEFINE g == GrownBy(w, to, n)
           z == Settled(w, j, kind, m, n, to, c)
           x == m - n
<1>0. /\ Sound(w, hand) /\ j \in Stacks /\ hand \subseteq {j} /\ w.parent[j] = Nowhere
      /\ kind \in {"gold", "platinum"} /\ m \in Int /\ n \in Nat /\ n <= m /\ m <= Full /\ Full \in Nat
      /\ Grows(w, kind, to, n) /\ (n < m => RoomFor(w, c))
  <2>1. /\ Sound(w, hand) /\ j \in Stacks /\ hand \subseteq {j} /\ w.parent[j] = Nowhere
        /\ kind \in {"gold", "platinum"} /\ m \in 1 .. Full /\ n \in 0 .. m
        /\ Grows(w, kind, to, n) /\ (n < m => RoomFor(w, c))
    BY DEF Settles
  <2>2. Full \in Nat
    BY ItemsAssumed
  <2> QED BY <2>1, <2>2
<1> HIDE DEF g
<1>1. /\ Sound(g, hand) /\ g.what = w.what /\ g.lies = w.lies /\ g.parent = w.parent
      /\ \A y \in Stacks : (n > 0 /\ y = to) \/ g.count[y] = w.count[y]
      /\ Rich(g) = Rich(w) + OneWorth(kind, n)
  BY <1>0, GrownSound DEF g
<1>2. Weighed(g, F)
  BY <1>0, GrownWeighed DEF g
<1>3. g.parent[j] = Nowhere
  BY <1>0, <1>1
<1>4. CASE n = m
  <2>1. z = CountedAs(g, j, "none", 0)
    BY <1>4 DEF Settled, g
  <2>2. Weighed(CountedAs(g, j, "none", 0), F)
    BY <1>0, <1>1, <1>2, <1>3, InHandWeighed
  <2> QED BY <2>1, <2>2
<1>5. CASE n # m
  <2> DEFINE v == CountedAs(g, j, kind, x)
  <2>1. z = I!Put(v, c, j)
    BY <1>5 DEF Settled, g
  <2>2. x \in 1 .. Full
    BY <1>0, <1>5
  <2>3. Counts(kind, x)
    BY <1>0, <2>2 DEF Counts
  <2>4. v.lies = g.lies
    BY DEF CountedAs, WorldOf
  <2> HIDE DEF x, z
  <2>5. Weighed(v, F)
    BY <1>0, <1>1, <1>2, <1>3, InHandWeighed
  <2>6. Sound(v, {j})
    BY <1>0, <1>1, <1>3, <2>3, InHandSound
  <2> HIDE DEF v
  <2>7. v \in ItemWorlds
    BY <2>6 DEF Sound
  <2>8. Room(v, c, j)
    <3>1. RoomFor(w, c)
      BY <1>0, <1>5
    <3>2. RoomFor(v, c)
      BY <1>1, <2>4, <3>1 DEF RoomFor
    <3> QED BY <1>0, <2>7, <3>2, StackRoom
  <2>9. Tells(v, F, j)
    BY <1>0, <2>7, StackTells
  <2>10. Weighed(I!Put(v, c, j), F)
    BY <2>5, <2>6, <2>8, <2>9, PutWeighed
  <2> QED BY <2>1, <2>10 DEF z
<1> QED BY <1>4, <1>5

-----------------------------------------------------------------------------
(* What is carried to another place.                                       *)

LEMMA SpaceIs ==
  ASSUME I!ItemsAssumption, NEW w, NEW hand, Sound(w, hand), NEW i \in Objs, w.what[i] # "none", NEW to
  PROVE  /\ I!Space(w, i, to) \in 0 .. Full
         /\ I!Space(w, i, to) > 0 => /\ i \in Stacks /\ to \in Stacks /\ w.what[to] = w.what[i]
                                     /\ w.count[to] + I!Space(w, i, to) <= Full /\ w.count[to] \in Nat
                                     /\ to \in hand \/ Lies(w, to)
<1>0. /\ w \in ItemWorlds /\ Real(w.what, w.count) /\ InPlace(w.what, w.lies, w.parent, hand)
      /\ Full \in Nat /\ w.parent \in [Objs -> Cyls \cup {Nowhere}]
  BY ItemsAssumed, WorldIs DEF Sound
<1>1. CASE I!Equal(w, i, to)
  <2>1. i \in Stacks /\ to \in Stacks /\ w.what[i] = w.what[to]
    BY <1>1 DEF I!Equal
  <2>2. w.count[to] \in 0 .. Full /\ to \in Objs
    BY <1>0, <2>1 DEF Real, Objs
  <2>3. I!Space(w, i, to) = Full - w.count[to]
    BY <1>1 DEF I!Space
  <2>4. to \in hand \/ Lies(w, to)
    <3>1. w.parent[to] = Nowhere => to \in hand
      BY <1>0, <2>1, <2>2 DEF InPlace
    <3> QED BY <1>0, <2>1, <2>2, <3>1 DEF Lies
  <2> QED BY <1>0, <2>1, <2>2, <2>3, <2>4
<1>2. CASE ~I!Equal(w, i, to)
  BY <1>0, <1>2 DEF I!Space
<1> QED BY <1>1, <1>2

LEMMA TellsStill ==
  ASSUME I!ItemsAssumption, NEW w \in ItemWorlds, NEW v \in ItemWorlds, NEW F \in [Bags -> Int], NEW i \in Bags,
         v.total[i] = w.total[i], Tells(w, F, i)
  PROVE  Tells(v, F, i)
<1>1. i \in Objs /\ i \notin Stacks
  BY ItemsAssumed DEF Objs
<1>2. I!Weight(v, i) = I!Weight(w, i)
  BY <1>1 DEF I!Weight
<1>3. Telling(v.count, v.total, F)[i] = Telling(w.count, w.total, F)[i]
  BY <1>1 DEF Telling
<1> QED BY <1>2, <1>3 DEF Tells

\* What is taken up may be put where there was room for it.
LEMMA RoomTaken ==
  ASSUME I!ItemsAssumption, NEW w, NEW i, LiesSomewhere(w, i), NEW k, Whole(w, i, k), NEW c, Room(w, c, i)
  PROVE  Room(I!Take(w, i, k), c, i)
<1> DEFINE z == I!Take(w, i, k)
           p == w.parent[i]
<1>0. Taken(w, z, i)
  BY TakeSound
<1>1. /\ Sound(z, {i}) /\ z.parent = [w.parent EXCEPT ![i] = Nowhere]
      /\ \A d \in Cyls \ {p} : z.lies[d] = w.lies[d]
      /\ Members(z.lies[p]) = Members(w.lies[p]) \ {i} /\ Len(z.lies[p]) = Len(w.lies[p]) - 1
  BY <1>0 DEF Taken
<1>2. /\ p \in Cyls /\ i \in Members(w.lies[p]) /\ i \in Objs
      /\ w.lies \in [Cyls -> Seq(Objs)] /\ w.parent \in [Objs -> Cyls \cup {Nowhere}]
  BY LyingIs DEF LiesSomewhere
<1>3. IsFiniteSet(Bags) /\ Capacity \in [Bags -> Nat]
  BY ItemsAssumed
<1> HIDE DEF z, p
<1>4. c \in Cyls
  BY DEF Room
<1>5. c \in Bags => Len(z.lies[c]) < Capacity[c]
  <2> SUFFICES ASSUME c \in Bags PROVE Len(z.lies[c]) < Capacity[c]
    OBVIOUS
  <2>1. Len(w.lies[c]) < Capacity[c] /\ Len(w.lies[c]) \in Nat /\ Capacity[c] \in Nat
    BY <1>2, <1>3, <1>4 DEF Room
  <2>2. CASE c = p
    <3>1. Len(z.lies[c]) = Len(w.lies[c]) - 1
      BY <1>1, <2>2
    <3> QED BY <2>1, <3>1
  <2>3. CASE c # p
    <3>1. z.lies[c] = w.lies[c]
      BY <1>1, <1>4, <2>3
    <3> QED BY <2>1, <3>1
  <2> QED BY <2>2, <2>3
<1>6. c \in Slots => z.lies[c] = <<>>
  <2> SUFFICES ASSUME c \in Slots PROVE z.lies[c] = <<>>
    OBVIOUS
  <2>1. w.lies[c] = <<>>
    BY DEF Room
  <2>2. Members(<<>>) = {}
    BY DEF Members
  <2>3. c # p
    BY <1>2, <2>1, <2>2
  <2> QED BY <1>1, <1>4, <2>1, <2>3
<1>7. c \in Bags => i \notin Outward(z.parent, Bags, c)
  <2> SUFFICES ASSUME c \in Bags PROVE i \notin Outward(z.parent, Bags, c)
    OBVIOUS
  <2>1. i \notin Outward(w.parent, Bags, c)
    BY DEF Room
  <2> DEFINE f == w.parent
             h == z.parent
  <2>2. \A y \in Objs \ {i} : h[y] = f[y]
    BY <1>1, <1>2
  <2>3. \A y \in Outward(f, Bags, c) \cap Bags : h[y] = f[y]
    BY <2>1, <2>2 DEF Objs
  <2> HIDE DEF f, h
  <2>4. Outward(h, Bags, c) = Outward(f, Bags, c)
    BY <1>3, <2>3, OutSame
  <2> QED BY <2>1, <2>4 DEF f, h
<1>8. Room(z, c, i)
  BY <1>4, <1>5, <1>6, <1>7 DEF Room
<1> QED BY <1>8 DEF z

\* z is w with m coins less in the stack i.
PartTaken(w, z, i, m) ==
  /\ Sound(z, {}) /\ z.what = w.what /\ z.lies = w.lies /\ z.parent = w.parent
  /\ (\A y \in Stacks \ {i} : z.count[y] = w.count[y]) /\ z.count[i] = w.count[i] - m
  /\ Rich(z) = Rich(w) - OneWorth(w.what[i], m)
  /\ \A b \in Bags : b \notin Outward(w.parent, Bags, w.parent[i]) => z.total[b] = w.total[b]

LEMMA TakePart ==
  ASSUME I!ItemsAssumption, NEW w, NEW i \in Stacks, LiesSomewhere(w, i), NEW m \in 1 .. w.count[i] - 1
  PROVE  PartTaken(w, I!Take(w, i, m), i, m)
<1> DEFINE z == I!Take(w, i, m)
           k == w.count[i] - m
           y == I!Resize(w, i, k)
<1>0. /\ Sound(w, {}) /\ w \in ItemWorlds /\ i \in Objs /\ w.count \in [Objs -> Int] /\ Lies(w, i)
      /\ w.count[i] \in 0 .. Full /\ Full \in Nat
  BY LyingIs, WorldIs, ItemsAssumed DEF LiesSomewhere, Lies, Sound, Real
<1>1. k \in 1 .. Full /\ m # w.count[i] /\ k \in Int /\ m \in Int /\ w.count[i] = k + m
  BY <1>0
<1>2. z = y
  BY <1>1 DEF I!Take
<1>a. k = w.count[i] - m
  OBVIOUS
<1> HIDE DEF z, k
<1>3. /\ Sound(y, {}) /\ y.what = w.what /\ y.count = [w.count EXCEPT ![i] = k]
      /\ y.lies = w.lies /\ y.parent = w.parent
      /\ \A b \in Bags : b \notin Outward(w.parent, Bags, w.parent[i]) => y.total[b] = w.total[b]
  BY <1>0, <1>1, ResizeSound
<1> HIDE DEF y
<1>4. y.count[i] = k /\ \A x \in Stacks \ {i} : y.count[x] = w.count[x]
  BY <1>0, <1>3 DEF Objs
<1>5. ButFor(w, y, i) /\ y \in ItemWorlds
  BY <1>3, <1>4 DEF ButFor, Sound
<1>6. Rich(y) = Rich(w) + (WorthAt(y, i) - WorthAt(w, i))
  BY <1>0, <1>5, RichChanged
<1> DEFINE kind == w.what[i]
<1>7. WorthAt(w, i) = OneWorth(kind, k + m) /\ WorthAt(y, i) = OneWorth(kind, k)
  BY <1>1, <1>3, <1>4 DEF WorthAt
<1>8. OneWorth(kind, k) \in Int /\ OneWorth(kind, k + m) = OneWorth(kind, k) + OneWorth(kind, m)
  BY <1>1, OneWorthAdds
<1>9. OneWorth(kind, m) \in Int
  BY <1>1, OneWorthAdds
<1>10. Rich(w) \in Int
  BY <1>0, RichNat
<1>11. Rich(y) = Rich(w) - OneWorth(kind, m)
  BY <1>6, <1>7, <1>8, <1>9, <1>10
<1>12. PartTaken(w, y, i, m)
  BY <1>a, <1>3, <1>4, <1>11 DEF PartTaken
<1> QED BY <1>2, <1>12 DEF z

LEMMA PartWeighed ==
  ASSUME I!ItemsAssumption, NEW w, NEW i \in Stacks, LiesSomewhere(w, i), NEW m \in 1 .. w.count[i] - 1,
         NEW F \in [Bags -> Int], Weighed(w, F)
  PROVE  Weighed(I!Take(w, i, m), F)
<1> DEFINE k == w.count[i] - m
<1>0. Sound(w, {}) /\ Lies(w, i) /\ w.count[i] \in 0 .. Full /\ Full \in Nat
  BY LyingIs, ItemsAssumed DEF LiesSomewhere, Lies, Sound, Real
<1>1. k \in 1 .. Full /\ m # w.count[i]
  BY <1>0
<1>2. I!Take(w, i, m) = I!Resize(w, i, k)
  BY <1>1 DEF I!Take
<1> HIDE DEF k
<1>3. Weighed(I!Resize(w, i, k), F)
  BY <1>0, <1>1, ResizeWeighed
<1> QED BY <1>2, <1>3

\* A stack of which m is carried to d: what is carried settles.
Carries(w, d, i, m) ==
  /\ LiesSomewhere(w, i) /\ d.to # i
  /\ i \in Bags => Room(w, d.c, i)
  /\ i \in Stacks => /\ m \in 1 .. w.count[i]
                     /\ m > I!Space(w, i, d.to) => RoomFor(w, d.c)
                     /\ m < w.count[i] => I!Unused(w) # {}

Onwards(w, d, i, m, v, hand, j, z) ==
  LET n == I!Min2(I!Space(w, i, d.to), m)
  IN /\ Settles(v, hand, j, w.what[i], m, n, d.to, d.c)
     /\ z = Settled(v, j, w.what[i], m, n, d.to, d.c)
     /\ Rich(v) - WorthAt(v, j) = Rich(w) - OneWorth(w.what[i], m)
     /\ \A F \in [Bags -> Int] : Weighed(w, F) => Weighed(v, F)

LEMMA CarryIs ==
  ASSUME I!ItemsAssumption, NEW w, NEW d, NEW i \in Stacks, NEW m, Carries(w, d, i, m)
  PROVE  LET n == I!Min2(I!Space(w, i, d.to), m)
         IN /\ n \in 0 .. m /\ m \in 1 .. Full /\ w.what[i] \in {"gold", "platinum"} /\ m > 0 /\ m \in Int
            /\ n <= I!Space(w, i, d.to)
            /\ n > 0 => /\ d.to \in Stacks /\ Lies(w, d.to) /\ w.what[d.to] = w.what[i]
                        /\ w.count[d.to] + n \in 1 .. Full
            /\ n < m => RoomFor(w, d.c)
<1> DEFINE sp == I!Space(w, i, d.to)
           n == I!Min2(sp, m)
<1>0. /\ Sound(w, {}) /\ i \in Objs /\ w.what[i] # "none" /\ m \in 1 .. w.count[i] /\ Real(w.what, w.count)
      /\ (m > sp => RoomFor(w, d.c)) /\ Full \in Nat
  BY ItemsAssumed DEF Carries, LiesSomewhere, Sound
<1>1. w.what[i] \in {"gold", "platinum"} /\ w.count[i] \in 0 .. Full
  BY <1>0 DEF Real
<1>2. sp \in 0 .. Full /\ (sp > 0 => d.to \in Stacks /\ w.what[d.to] = w.what[i]
                                    /\ w.count[d.to] + sp <= Full /\ w.count[d.to] \in Nat /\ (d.to \in {} \/ Lies(w, d.to)))
  BY <1>0, SpaceIs
<1> HIDE DEF sp
<1>3. n \in Int /\ n <= m /\ n <= sp /\ n >= 0 /\ m \in Int /\ m > 0 /\ m <= Full /\ (n < m => m > sp)
  BY <1>0, <1>1, <1>2 DEF I!Min2
<1> HIDE DEF n
<1>4. n > 0 => w.count[d.to] + n \in 1 .. Full
  BY <1>0, <1>2, <1>3
<1>5. /\ n \in 0 .. m /\ m \in 1 .. Full /\ w.what[i] \in {"gold", "platinum"} /\ m > 0 /\ m \in Int
      /\ n <= sp
      /\ n > 0 => /\ d.to \in Stacks /\ Lies(w, d.to) /\ w.what[d.to] = w.what[i]
                  /\ w.count[d.to] + n \in 1 .. Full
      /\ n < m => RoomFor(w, d.c)
  BY <1>0, <1>1, <1>2, <1>3, <1>4
<1> QED BY <1>5 DEF n, sp

LEMMA CarryWhole ==
  ASSUME I!ItemsAssumption, NEW w, NEW d, NEW i \in Stacks, NEW m, Carries(w, d, i, m), m = w.count[i]
  PROVE  Onwards(w, d, i, m, I!Take(w, i, m), {i}, i, I!Carry(w, d, i, m))
<1> DEFINE n == I!Min2(I!Space(w, i, d.to), m)
           v == I!Take(w, i, m)
           g == GrownBy(v, d.to, n)
           kind == w.what[i]
           z == I!Carry(w, d, i, m)
<1>1. /\ n \in 0 .. m /\ m \in 1 .. Full /\ w.what[i] \in {"gold", "platinum"} /\ m > 0 /\ m \in Int
      /\ n <= I!Space(w, i, d.to)
      /\ n > 0 => /\ d.to \in Stacks /\ Lies(w, d.to) /\ w.what[d.to] = w.what[i]
                  /\ w.count[d.to] + n \in 1 .. Full
      /\ n < m => RoomFor(w, d.c)
  BY CarryIs
<1>2. LiesSomewhere(w, i) /\ d.to # i /\ Whole(w, i, m) /\ i \notin Bags /\ i \in Objs
  BY ItemsAssumed DEF Carries, Whole, Objs
<1>3. Taken(w, v, i)
  BY <1>2, TakeSound
<1> DEFINE h == IF n > 0 THEN I!Resize(v, d.to, w.count[d.to] + n) ELSE v
           left == h.parent[i] # Nowhere
           clone == IF left THEN I!Fresh(h) ELSE i
<1>4. z = CASE i \in Bags -> I!Put(v, d.c, i)
            [] i \in Stacks /\ n = m -> IF left THEN h ELSE I!Vanish(h, i)
            [] i \in Stacks /\ n < m -> I!Put(Recounted(h, clone, kind, m - n), d.c, clone)
  BY DEF I!Carry, Recounted
<1> HIDE DEF v, n, z
<1>5. /\ Sound(v, {i}) /\ v.what = w.what /\ v.count = w.count
      /\ v.parent = [w.parent EXCEPT ![i] = Nowhere]
  BY <1>3 DEF Taken
<1>6. w \in ItemWorlds /\ w.parent \in [Objs -> Cyls \cup {Nowhere}]
  BY <1>2, WorldIs DEF LiesSomewhere, Sound
<1>7. v.parent[i] = Nowhere /\ \A y \in Objs \ {i} : v.parent[y] = w.parent[y]
  BY <1>2, <1>5, <1>6
<1>8. Grows(v, kind, d.to, n)
  <2> SUFFICES ASSUME n > 0 PROVE Lies(v, d.to) /\ v.what[d.to] = kind /\ v.count[d.to] + n \in 1 .. Full
    BY DEF Grows
  <2>1. d.to \in Stacks /\ Lies(w, d.to) /\ w.what[d.to] = kind /\ w.count[d.to] + n \in 1 .. Full
    BY <1>1
  <2>2. v.parent[d.to] = w.parent[d.to]
    BY <1>2, <1>7, <2>1 DEF Objs
  <2> QED BY <1>5, <2>1, <2>2 DEF Lies
<1>9. n < m => RoomFor(v, d.c)
  <2> SUFFICES ASSUME n < m PROVE RoomFor(v, d.c)
    OBVIOUS
  <2> DEFINE c == d.c
  <2>1. RoomFor(w, c)
    BY <1>1
  <2> HIDE DEF c
  <2>2. Room(w, c, i)
    BY <1>6, <2>1, StackRoom
  <2>3. Room(v, c, i)
    BY <1>2, <2>2, RoomTaken DEF v
  <2>4. RoomFor(v, c)
    BY <2>3 DEF Room, RoomFor
  <2> QED BY <2>4 DEF c
<1>10. Settles(v, {i}, i, kind, m, n, d.to, d.c)
  BY <1>1, <1>5, <1>7, <1>8, <1>9 DEF Settles
<1>11. g = h
  BY <1>5 DEF GrownBy
<1> HIDE DEF h
<1>12. z = Settled(v, i, kind, m, n, d.to, d.c)
  <2>0. n \in Nat
    BY <1>1
  <2> DEFINE q == d.to
  <2>1. /\ Sound(g, {i}) /\ g.what = v.what /\ g.lies = v.lies /\ g.parent = v.parent
        /\ \A y \in Stacks : (n > 0 /\ y = q) \/ g.count[y] = v.count[y]
        /\ Rich(g) = Rich(v) + OneWorth(kind, n)
    BY <1>5, <1>8, <2>0, GrownSound
  <2>2. g.parent[i] = Nowhere /\ g \in ItemWorlds
    BY <1>7, <2>1 DEF Sound
  <2>b. ~left /\ clone = i
    BY <1>11, <2>2
  <2> HIDE DEF left, clone
  <2>3. Settled(v, i, kind, m, n, d.to, d.c) = IF n = m THEN CountedAs(g, i, "none", 0) ELSE I!Put(CountedAs(g, i, kind, m - n), d.c, i)
    BY DEF Settled
  <2> HIDE DEF g, kind
  <2>4. CASE n = m
    <3>1. z = I!Vanish(g, i)
      BY <1>1, <1>2, <1>4, <1>11, <2>b, <2>4
    <3>2. I!Vanish(g, i) = CountedAs(g, i, "none", 0)
      BY <2>2, VanishIs
    <3> QED BY <2>3, <2>4, <3>1, <3>2
  <2>5. CASE n < m
    <3>1. z = I!Put(Recounted(g, i, kind, m - n), d.c, i)
      BY <1>1, <1>2, <1>4, <1>11, <2>b, <2>5
    <3>2. Recounted(g, i, kind, m - n) = CountedAs(g, i, kind, m - n)
      BY <2>2, CountedIs
    <3> QED BY <1>1, <2>3, <2>5, <3>1, <3>2
  <2> QED BY <1>1, <2>4, <2>5
<1>13. Rich(v) - WorthAt(v, i) = Rich(w) - OneWorth(kind, m)
  BY <1>5 DEF Rich, WorthAt
<1>14. ASSUME NEW F \in [Bags -> Int], Weighed(w, F) PROVE Weighed(v, F)
  <2>1. Tells(w, F, i)
    BY <1>6, StackTells
  <2> QED BY <1>2, <1>14, <2>1, TakeWeighed DEF v
<1>15. Onwards(w, d, i, m, v, {i}, i, z)
  BY <1>10, <1>12, <1>13, <1>14 DEF Onwards, n
<1> QED BY <1>15 DEF v, z

LEMMA FreshIs ==
  ASSUME NEW w, I!Unused(w) # {}
  PROVE  I!Fresh(w) \in Stacks /\ w.what[I!Fresh(w)] = "none" /\ I!Fresh(w) \in I!Unused(w)
BY DEF I!Fresh, I!Unused, I!Exists

LEMMA UnusedIs ==
  ASSUME I!ItemsAssumption, NEW w, NEW hand, Sound(w, hand), NEW j \in Stacks, w.what[j] = "none"
  PROVE  w.parent[j] = Nowhere /\ w.count[j] = 0 /\ WorthAt(w, j) = 0 /\ j \notin hand /\ j \in Objs
<1>1. j \in Objs
  BY DEF Objs
<1>2. w.parent[j] = Nowhere /\ j \notin hand
  BY <1>1 DEF Sound, InPlace
<1>3. w.count[j] = 0
  BY DEF Sound, Real
<1> QED BY <1>1, <1>2, <1>3 DEF WorthAt, OneWorth

LEMMA CarryPart ==
  ASSUME I!ItemsAssumption, NEW w, NEW d, NEW i \in Stacks, NEW m, Carries(w, d, i, m), m # w.count[i]
  PROVE  LET v == I!Take(w, i, m)
             g == GrownBy(v, d.to, I!Min2(I!Space(w, i, d.to), m))
         IN Onwards(w, d, i, m, v, {}, I!Fresh(g), I!Carry(w, d, i, m))
<1> DEFINE n == I!Min2(I!Space(w, i, d.to), m)
           v == I!Take(w, i, m)
           g == GrownBy(v, d.to, n)
           j == I!Fresh(g)
           kind == w.what[i]
           z == I!Carry(w, d, i, m)
<1>1. /\ n \in 0 .. m /\ m \in 1 .. Full /\ w.what[i] \in {"gold", "platinum"} /\ m > 0 /\ m \in Int
      /\ n <= I!Space(w, i, d.to)
      /\ n > 0 => /\ d.to \in Stacks /\ Lies(w, d.to) /\ w.what[d.to] = w.what[i]
                  /\ w.count[d.to] + n \in 1 .. Full
      /\ n < m => RoomFor(w, d.c)
  BY CarryIs
<1>2. LiesSomewhere(w, i) /\ d.to # i /\ i \notin Bags /\ i \in Objs /\ I!Unused(w) # {} /\ m \in 1 .. w.count[i] - 1
      /\ w.count[i] \in Int
  <2>1. LiesSomewhere(w, i) /\ d.to # i /\ i \notin Bags /\ i \in Objs /\ m \in 1 .. w.count[i]
        /\ (m < w.count[i] => I!Unused(w) # {})
    BY ItemsAssumed DEF Carries, Objs
  <2>2. w.count[i] \in Int
    BY <2>1, WorldIs DEF LiesSomewhere, Sound
  <2>3. m < w.count[i] /\ m \in 1 .. w.count[i] - 1
    BY <2>1, <2>2
  <2> QED BY <2>1, <2>2, <2>3
<1>3. PartTaken(w, v, i, m)
  BY <1>2, TakePart
<1> DEFINE h == IF n > 0 THEN I!Resize(v, d.to, w.count[d.to] + n) ELSE v
           left == h.parent[i] # Nowhere
           clone == IF left THEN I!Fresh(h) ELSE i
<1>4. z = CASE i \in Bags -> I!Put(v, d.c, i)
            [] i \in Stacks /\ n = m -> IF left THEN h ELSE I!Vanish(h, i)
            [] i \in Stacks /\ n < m -> I!Put(Recounted(h, clone, kind, m - n), d.c, clone)
  BY DEF I!Carry, Recounted
<1> HIDE DEF v, n, z
<1>5. /\ Sound(v, {}) /\ v.what = w.what /\ v.lies = w.lies /\ v.parent = w.parent
      /\ (\A y \in Stacks \ {i} : v.count[y] = w.count[y])
      /\ Rich(v) = Rich(w) - OneWorth(kind, m)
  BY <1>3 DEF PartTaken
<1>6. w \in ItemWorlds /\ w.parent[i] \in Cyls /\ Nowhere \notin Cyls /\ w.what[i] # "none"
  BY <1>2, LyingIs, ItemsAssumed DEF LiesSomewhere, Cyls, Objs
<1>7. n > 0 => d.to \in Stacks /\ v.count[d.to] = w.count[d.to]
  BY <1>1, <1>2, <1>5
<1>8. Grows(v, kind, d.to, n)
  BY <1>1, <1>5, <1>7 DEF Grows, Lies
<1>9. n < m => RoomFor(v, d.c)
  BY <1>1, <1>5 DEF RoomFor
<1>10. g = h
  BY <1>7 DEF GrownBy
<1> DEFINE q == d.to
<1>11. /\ Sound(g, {}) /\ g.what = v.what /\ g.lies = v.lies /\ g.parent = v.parent
       /\ \A y \in Stacks : (n > 0 /\ y = q) \/ g.count[y] = v.count[y]
       /\ Rich(g) = Rich(v) + OneWorth(kind, n)
  <2>1. n \in Nat
    BY <1>1
  <2> QED BY <1>5, <1>8, <2>1, GrownSound
<1> HIDE DEF g, h, kind, left
<1>12. I!Unused(g) = I!Unused(w)
  BY <1>5, <1>11 DEF I!Unused, I!Exists
<1>13. j \in Stacks /\ g.what[j] = "none"
  BY <1>2, <1>12, FreshIs
<1> HIDE DEF j
<1>14. g.parent[j] = Nowhere /\ g.count[j] = 0 /\ WorthAt(v, j) = 0 /\ j \in Objs
  <2>1. v.what[j] = "none"
    BY <1>11, <1>13
  <2> QED BY <1>5, <1>11, <1>13, <2>1, UnusedIs
<1>15. v.parent[j] = Nowhere
  BY <1>11, <1>14
<1>16. Settles(v, {}, j, kind, m, n, d.to, d.c)
  BY <1>1, <1>5, <1>8, <1>9, <1>13, <1>15 DEF Settles, kind
<1>17. left
  BY <1>5, <1>6, <1>10, <1>11 DEF left
<1>18. clone = j
  BY <1>10, <1>17 DEF j
<1> HIDE DEF clone
<1>19. g \in ItemWorlds /\ g.what \in [Objs -> Kinds] /\ g.count \in [Objs -> Int]
  BY <1>11, WorldIs DEF Sound
<1>20. z = Settled(v, j, kind, m, n, d.to, d.c)
  <2>1. Settled(v, j, kind, m, n, d.to, d.c) = IF n = m THEN CountedAs(g, j, "none", 0) ELSE I!Put(CountedAs(g, j, kind, m - n), d.c, j)
    BY DEF Settled, g
  <2>2. CASE n = m
    <3>1. z = g
      BY <1>1, <1>2, <1>4, <1>10, <1>17, <2>2
    <3>2. [g.what EXCEPT ![j] = "none"] = g.what /\ [g.count EXCEPT ![j] = 0] = g.count
      BY <1>13, <1>14, <1>19
    <3>3. CountedAs(g, j, "none", 0) = WorldOf(g.what, g.count, g.lies, g.parent, g.total)
      BY <3>2 DEF CountedAs
    <3>4. g = WorldOf(g.what, g.count, g.lies, g.parent, g.total)
      BY <1>19, WorldIs
    <3> QED BY <2>1, <2>2, <3>1, <3>3, <3>4
  <2>3. CASE n < m
    <3>1. z = I!Put(Recounted(g, j, kind, m - n), d.c, j)
      BY <1>1, <1>2, <1>4, <1>10, <1>18, <2>3
    <3>2. Recounted(g, j, kind, m - n) = CountedAs(g, j, kind, m - n)
      BY <1>19, CountedIs
    <3> QED BY <1>1, <2>1, <2>3, <3>1, <3>2
  <2> QED BY <1>1, <2>2, <2>3
<1>21. Rich(v) - WorthAt(v, j) = Rich(w) - OneWorth(kind, m)
  <2>1. Rich(v) \in Int
    BY <1>5, RichNat DEF Sound
  <2>2. Rich(v) - 0 = Rich(v)
    BY <2>1
  <2> QED BY <1>5, <1>14, <2>2
<1>22. ASSUME NEW F \in [Bags -> Int], Weighed(w, F) PROVE Weighed(v, F)
  BY <1>2, <1>22, PartWeighed DEF v
<1>23. Onwards(w, d, i, m, v, {}, j, z)
  BY <1>16, <1>20, <1>21, <1>22 DEF Onwards, n, kind
<1> QED BY <1>23 DEF v, z, j, g, n

\* z is what w became: nothing is in hand, and no money lost.
Moves(w, z) == Sound(z, {}) /\ Rich(z) = Rich(w)

LEMMA OnwardsFine ==
  ASSUME I!ItemsAssumption, NEW w \in ItemWorlds, NEW d, NEW i \in Objs, NEW m \in Int, NEW v, NEW hand, NEW j, NEW z,
         Onwards(w, d, i, m, v, hand, j, z)
  PROVE  /\ Moves(w, z)
         /\ \A F \in [Bags -> Int] : Weighed(w, F) => Weighed(z, F)
<1> DEFINE n == I!Min2(I!Space(w, i, d.to), m)
           kind == w.what[i]
           c == d.c
           to == d.to
<1>1. /\ Settles(v, hand, j, kind, m, n, to, c)
      /\ z = Settled(v, j, kind, m, n, to, c)
      /\ Rich(v) - WorthAt(v, j) = Rich(w) - OneWorth(kind, m)
      /\ \A F \in [Bags -> Int] : Weighed(w, F) => Weighed(v, F)
  BY DEF Onwards
<1>2. OneWorth(kind, m) \in Int /\ Rich(w) \in Int
  BY OneWorthAdds, RichNat
<1>3. v \in ItemWorlds /\ j \in Stacks
  BY <1>1 DEF Settles, Sound
<1>4. Rich(v) \in Int /\ WorthAt(v, j) \in Int
  <2>1. v.count[j] \in Int
    BY <1>3, WorldIs DEF Objs
  <2>2. OneWorth(v.what[j], v.count[j]) \in Int
    BY <1>3, RichNat
  <2> QED BY <1>3, <2>2, RichNat DEF WorthAt
<1> HIDE DEF n, kind, c, to
<1> DEFINE y == Settled(v, j, kind, m, n, to, c)
<1>5. /\ Sound(y, {}) /\ \A x \in Objs \ {j} : y.what[x] = v.what[x]
      /\ Rich(y) = Rich(v) + OneWorth(kind, m) - WorthAt(v, j)
  BY <1>1, SettledSound
<1>6. ASSUME NEW F \in [Bags -> Int], Weighed(w, F) PROVE Weighed(y, F)
  <2>1. Weighed(v, F)
    BY <1>1, <1>6
  <2> QED BY <1>1, <2>1, SettledWeighed
<1> HIDE DEF y
<1>7. z = y
  BY <1>1 DEF y
<1>8. Rich(z) = Rich(w)
  <2> DEFINE a1 == Rich(v)
             a2 == WorthAt(v, j)
             a3 == Rich(w)
             a4 == OneWorth(kind, m)
  <2>1. a1 \in Int /\ a2 \in Int /\ a3 \in Int /\ a4 \in Int /\ a1 - a2 = a3 - a4
    BY <1>1, <1>2, <1>4
  <2>2. Rich(z) = a1 + a4 - a2
    BY <1>5, <1>7
  <2> HIDE DEF a1, a2, a3, a4
  <2>3. Rich(z) = a3
    BY <2>1, <2>2
  <2> QED BY <2>3 DEF a3
<1> QED BY <1>5, <1>6, <1>7, <1>8 DEF Moves

LEMMA CarryStackFine ==
  ASSUME I!ItemsAssumption, NEW w, NEW d, NEW i \in Stacks, NEW m, Carries(w, d, i, m)
  PROVE  /\ Moves(w, I!Carry(w, d, i, m))
         /\ \A F \in [Bags -> Int] : Weighed(w, F) => Weighed(I!Carry(w, d, i, m), F)
<1> DEFINE z == I!Carry(w, d, i, m)
           v == I!Take(w, i, m)
           g == GrownBy(v, d.to, I!Min2(I!Space(w, i, d.to), m))
<1>1. w \in ItemWorlds /\ i \in Objs /\ m \in Int
  BY LyingIs DEF Carries, LiesSomewhere
<1>2. CASE m = w.count[i]
  <2>1. Onwards(w, d, i, m, v, {i}, i, z)
    BY <1>2, CarryWhole
  <2> HIDE DEF z, v
  <2>2. Moves(w, z)
    BY <1>1, <2>1, OnwardsFine
  <2>3. \A F \in [Bags -> Int] : Weighed(w, F) => Weighed(z, F)
    BY <1>1, <2>1, OnwardsFine
  <2> QED BY <2>2, <2>3 DEF z
<1>3. CASE m # w.count[i]
  <2>1. Onwards(w, d, i, m, v, {}, I!Fresh(g), z)
    BY <1>3, CarryPart
  <2> HIDE DEF z, v, g
  <2>2. Moves(w, z)
    BY <1>1, <2>1, OnwardsFine
  <2>3. \A F \in [Bags -> Int] : Weighed(w, F) => Weighed(z, F)
    BY <1>1, <2>1, OnwardsFine
  <2> QED BY <2>2, <2>3 DEF z
<1> QED BY <1>2, <1>3

LEMMA CarryBagFine ==
  ASSUME I!ItemsAssumption, NEW w, NEW d, NEW i \in Bags, NEW m, Carries(w, d, i, m)
  PROVE  /\ Moves(w, I!Carry(w, d, i, m))
         /\ \A F \in [Bags -> Int] : Weighed(w, F) /\ Tells(w, F, i) => Weighed(I!Carry(w, d, i, m), F)
<1> DEFINE z == I!Carry(w, d, i, m)
           v == I!Take(w, i, m)
           c == d.c
           p == w.parent[i]
<1>1. LiesSomewhere(w, i) /\ Whole(w, i, m) /\ Room(w, c, i) /\ i \notin Stacks
  BY ItemsAssumed DEF Carries, Whole
<1>2. z = I!Put(v, c, i)
  BY <1>1 DEF I!Carry
<1>3. Taken(w, v, i)
  BY <1>1, TakeSound
<1> HIDE DEF c
<1>4. Room(v, c, i)
  BY <1>1, RoomTaken
<1> HIDE DEF v, z
<1>5. Sound(v, {i}) /\ v.what = w.what /\ v.count = w.count
      /\ \A b \in Bags : b \notin Outward(w.parent, Bags, p) => v.total[b] = w.total[b]
  BY <1>3 DEF Taken
<1> DEFINE y == I!Put(v, c, i)
<1>a. PutDown(v, y, c, i)
  BY <1>4, <1>5, PutSound
<1>6. Sound(y, {}) /\ y.what = v.what /\ y.count = v.count
  BY <1>a DEF PutDown
<1>7. ASSUME NEW F \in [Bags -> Int], Weighed(w, F), Tells(w, F, i) PROVE Weighed(y, F)
  <2>1. Weighed(v, F)
    BY <1>1, <1>7, TakeWeighed DEF v
  <2>2. v.total[i] = w.total[i] /\ w \in ItemWorlds /\ v \in ItemWorlds
    <3>1. i \notin Outward(w.parent, Bags, p) /\ w \in ItemWorlds
      BY <1>1, LyingIs
    <3> QED BY <1>5, <3>1 DEF Sound
  <2>3. Tells(v, F, i)
    BY <1>7, <2>2, TellsStill
  <2> QED BY <1>4, <1>5, <2>1, <2>3, PutWeighed
<1> HIDE DEF y
<1>8. z = y
  BY <1>2 DEF y
<1>9. Moves(w, z)
  BY <1>5, <1>6, <1>8 DEF Moves, Rich
<1>10. \A F \in [Bags -> Int] : Weighed(w, F) /\ Tells(w, F, i) => Weighed(z, F)
  BY <1>7, <1>8
<1> QED BY <1>9, <1>10 DEF z

\* A move keeps what the bags know, when what is moved weighs what it tells.
Keeps(w, z, i) == \A F \in [Bags -> Int] : Weighed(w, F) /\ (i \in Bags => Tells(w, F, i)) => Weighed(z, F)

LEMMA CarryFine ==
  ASSUME I!ItemsAssumption, NEW w, NEW d, NEW i \in Objs, NEW m, Carries(w, d, i, m)
  PROVE  Moves(w, I!Carry(w, d, i, m)) /\ Keeps(w, I!Carry(w, d, i, m), i)
<1> DEFINE z == I!Carry(w, d, i, m)
<1>1. CASE i \in Stacks
  <2>1. Moves(w, z)
    BY <1>1, CarryStackFine
  <2>2. \A F \in [Bags -> Int] : Weighed(w, F) => Weighed(z, F)
    BY <1>1, CarryStackFine
  <2> QED BY <2>1, <2>2 DEF Keeps
<1>2. CASE i \in Bags
  <2>1. Moves(w, z)
    BY <1>2, CarryBagFine
  <2>2. \A F \in [Bags -> Int] : Weighed(w, F) /\ Tells(w, F, i) => Weighed(z, F)
    BY <1>2, CarryBagFine
  <2> QED BY <1>2, <2>1, <2>2 DEF Keeps
<1> QED BY <1>1, <1>2 DEF Objs

-----------------------------------------------------------------------------
(* What the cylinders say.                                                 *)

LEMMA Apart ==
  ASSUME I!ItemsAssumption
  PROVE  /\ Ground # Player /\ Ground \notin Bags /\ Ground \notin Slots /\ Player \notin Bags /\ Player \notin Slots
         /\ Bags \cap Slots = {} /\ None \notin Objs /\ Nowhere \notin Cyls /\ Player \notin Cyls
BY ItemsAssumed DEF Cyls, Objs

LEMMA AddIs ==
  ASSUME I!ItemsAssumption, NEW w, NEW c \in Cyls \cup {Player}, NEW at, NEW i, NEW k
  PROVE  /\ c = Player => I!QueryAdd(w, c, at, i, k) = "no"
         /\ c = Ground => I!QueryAdd(w, c, at, i, k) = I!TileTakes(w)
         /\ c \in Bags => I!QueryAdd(w, c, at, i, k) = I!BagTakes(w, c, at, i, k)
         /\ c \in Slots => I!QueryAdd(w, c, at, i, k) = I!SlotTakes(w, c, i, k)
<1>1. ASSUME c = Player PROVE I!QueryAdd(w, c, at, i, k) = "no"
  BY <1>1, Apart DEF I!QueryAdd
<1>2. ASSUME c = Ground PROVE I!QueryAdd(w, c, at, i, k) = I!TileTakes(w)
  BY <1>2, Apart DEF I!QueryAdd
<1>3. ASSUME c \in Bags PROVE I!QueryAdd(w, c, at, i, k) = I!BagTakes(w, c, at, i, k)
  BY <1>3, Apart DEF I!QueryAdd
<1>4. ASSUME c \in Slots PROVE I!QueryAdd(w, c, at, i, k) = I!SlotTakes(w, c, i, k)
  BY <1>4, Apart DEF I!QueryAdd
<1> QED BY <1>1, <1>2, <1>3, <1>4

LEMMA MaxIs ==
  ASSUME I!ItemsAssumption, NEW w, NEW c \in Cyls, NEW at, NEW i, NEW k
  PROVE  /\ c = Ground => I!MaxCount(w, c, at, i, k) = k
         /\ c \in Bags => I!MaxCount(w, c, at, i, k) = I!BagRoom(w, c, at, i, k)
         /\ c \in Slots => I!MaxCount(w, c, at, i, k) = I!SlotRoom(w, c, i, k)
<1>1. ASSUME c = Ground PROVE I!MaxCount(w, c, at, i, k) = k
  BY <1>1, Apart DEF I!MaxCount
<1>2. ASSUME c \in Bags PROVE I!MaxCount(w, c, at, i, k) = I!BagRoom(w, c, at, i, k)
  BY <1>2, Apart DEF I!MaxCount
<1>3. ASSUME c \in Slots PROVE I!MaxCount(w, c, at, i, k) = I!SlotRoom(w, c, i, k)
  BY <1>3, Apart DEF I!MaxCount
<1> QED BY <1>1, <1>2, <1>3

\* Of a bag that takes it.
LEMMA BagTakesIs ==
  ASSUME I!ItemsAssumption, NEW w, NEW c \in Bags, NEW at, NEW i, NEW k, I!QueryAdd(w, c, at, i, k) = "ok"
  PROVE  i \notin Outward(w.parent, Bags, c) /\ (at = 0 => ~(Len(w.lies[c]) >= Capacity[c]))
<1>1. I!BagTakes(w, c, at, i, k) = "ok"
  BY AddIs DEF Cyls
<1>2. I!Around(w, c) = Outward(w.parent, Bags, c)
  BY ItemsAround
<1> QED BY <1>1, <1>2 DEF I!BagTakes, I!Wherever

\* A slot holds one thing or nothing.
LEMMA HeldIs ==
  ASSUME I!ItemsAssumption, NEW w, NEW hand, Sound(w, hand), NEW s \in Slots
  PROVE  /\ I!Held(w, s) = None <=> w.lies[s] = <<>>
         /\ \A i \in Objs : I!Held(w, s) = i <=> w.parent[i] = s
         /\ I!Held(w, s) # None => I!Held(w, s) \in Objs /\ w.lies[s] = <<I!Held(w, s)>>
<1>1. /\ w.lies[s] \in Seq(Objs) /\ Len(w.lies[s]) <= 1 /\ None \notin Objs /\ s \in Cyls
      /\ \A i \in Objs : i \in Members(w.lies[s]) <=> w.parent[i] = s
  <2>1. w \in ItemWorlds /\ Roomy(w.lies) /\ InPlace(w.what, w.lies, w.parent, hand) /\ s \in Cyls
    BY DEF Sound, Cyls
  <2>2. w.lies \in [Cyls -> Seq(Objs)]
    BY <2>1, WorldIs
  <2> QED BY <2>1, <2>2, Apart DEF Roomy, InPlace
<1> DEFINE q == w.lies[s]
<1>2. CASE q = <<>>
  <2>1. I!Held(w, s) = None
    BY <1>2 DEF I!Held
  <2>2. Members(q) = {}
    BY <1>2 DEF Members
  <2> QED BY <1>1, <1>2, <2>1, <2>2
<1>3. CASE q # <<>>
  <2>1. I!Held(w, s) = q[1]
    BY <1>3 DEF I!Held
  <2> HIDE DEF q
  <2>2. Len(q) = 1 /\ q[1] \in Objs /\ q = <<q[1]>>
    <3>1. Len(q) \in Nat /\ q \in Seq(Objs)
      BY <1>1 DEF q
    <3>2. Len(q) # 0
      BY <1>3, <3>1
    <3>a. Len(q) <= 1
      BY <1>1 DEF q
    <3> DEFINE n == Len(q)
    <3>b. n \in Nat /\ n # 0 /\ n <= 1
      BY <3>1, <3>2, <3>a
    <3> HIDE DEF n
    <3>c. n = 1
      BY <3>b
    <3>3. Len(q) = 1
      BY <3>c DEF n
    <3> QED BY <3>1, <3>3
  <2>3. Members(q) = {q[1]}
    BY <2>2 DEF Members
  <2> QED BY <1>1, <1>3, <2>1, <2>2, <2>3 DEF q
<1> QED BY <1>2, <1>3

LEMMA AtTells ==
  ASSUME I!ItemsAssumption, NEW w \in ItemWorlds, NEW c \in Bags, NEW at, NEW i \in Objs
  PROVE  I!At(w, c, at) \in Objs \cup {None}
<1>1. w.lies[c] \in Seq(Objs)
  BY WorldIs DEF Cyls
<1> QED BY <1>1 DEF I!At

\* Room in a bag, of the stack `to` that lies at the place, and beside it.
LEMMA BagRoomIs ==
  ASSUME I!ItemsAssumption, NEW w, Sound(w, {}), NEW c \in Bags, NEW at, NEW i, LiesSomewhere(w, i), NEW k
  PROVE  /\ I!BagRoom(w, c, at, i, k) \in Nat
         /\ i \in Bags /\ I!BagRoom(w, c, at, i, k) # 0 => Len(w.lies[c]) < Capacity[c]
         /\ ~(Len(w.lies[c]) < Capacity[c]) /\ at # 0 /\ i \in Stacks
            => I!BagRoom(w, c, at, i, k) <= I!Space(w, i, I!At(w, c, at))
<1> DEFINE free == IF Len(w.lies[c]) >= Capacity[c] THEN 0 ELSE Capacity[c] - Len(w.lies[c])
           stacks == IF at = I!Wherever THEN I!Range(w.lies[c]) \ {i} ELSE {I!At(w, c, at)}
           f == [j \in stacks |-> IF I!QueryAdd(w, c, 1, i, k) = "ok" THEN I!Space(w, i, j) ELSE 0]
           n == I!SumFunction(f)
<1>0. /\ w \in ItemWorlds /\ i \in Objs /\ w.what[i] # "none" /\ w.lies[c] \in Seq(Objs) /\ Full \in Nat /\ Stacks \cap Bags = {}
      /\ Len(w.lies[c]) \in Nat /\ Capacity[c] \in Nat
  <2>1. w \in ItemWorlds /\ i \in Objs /\ w.what[i] # "none" /\ w.lies \in [Cyls -> Seq(Objs)]
    BY WorldIs DEF LiesSomewhere, Sound
  <2> QED BY <2>1, ItemsAssumed DEF Cyls
<1>1. free \in Nat /\ (~(Len(w.lies[c]) < Capacity[c]) => free = 0)
  BY <1>0
<1>2. I!BagRoom(w, c, at, i, k) = IF i \in Stacks THEN free * Full + n ELSE free
  BY DEF I!BagRoom
<1>3. \A j : I!Space(w, i, j) \in Nat
  BY <1>0, SpaceIs
<1>4. IsFiniteSet(stacks)
  <2>1. IsFiniteSet(I!Range(w.lies[c]))
    BY <1>0, MembersAre
  <2>2. IsFiniteSet(I!Range(w.lies[c]) \ {i})
    BY <2>1, FS_Subset
  <2>3. IsFiniteSet({I!At(w, c, at)})
    BY FS_Singleton
  <2> QED BY <2>2, <2>3
<1>5. \A j \in stacks : f[j] \in Nat /\ f[j] <= I!Space(w, i, j)
  BY <1>3
<1>6. n = SumOver(f, stacks)
  BY ItemsSum DEF I!SumFunction
<1>7. n \in Nat
  <2> HIDE DEF stacks, f
  <2>1. \A j \in stacks : f[j] \in Nat
    BY <1>5
  <2> QED BY <1>4, <1>6, <2>1, SumNat
<1> HIDE DEF free, f
<1>8. at # 0 => n <= I!Space(w, i, I!At(w, c, at))
  <2> SUFFICES ASSUME at # 0 PROVE n <= I!Space(w, i, I!At(w, c, at))
    OBVIOUS
  <2> DEFINE to == I!At(w, c, at)
  <2>1. stacks = {to}
    BY DEF I!Wherever
  <2> HIDE DEF to, stacks
  <2>2. f[to] \in Nat /\ f[to] <= I!Space(w, i, to) /\ to \notin {} /\ {} \cup {to} = {to} /\ \A y \in {} \cup {to} : f[y] \in Int
    BY <1>5, <2>1
  <2>3. IsFiniteSet({})
    BY FS_EmptySet
  <2>4. SumOver(f, {} \cup {to}) = f[to] + SumOver(f, {})
    BY <2>2, <2>3, SumOneMore
  <2>5. SumOver(f, {}) = 0
    BY SumOfNone
  <2>6. SumOver(f, {to}) = f[to]
    BY <2>2, <2>4, <2>5
  <2> QED BY <1>6, <2>1, <2>2, <2>6 DEF to
<1> HIDE DEF n
<1>9. free * Full \in Nat
  BY <1>0, <1>1
<1>10. CASE i \in Stacks
  <2>1. I!BagRoom(w, c, at, i, k) = free * Full + n /\ i \notin Bags
    BY <1>0, <1>2, <1>10
  <2>2. free = 0 => free * Full = 0
    BY <1>0
  <2>3. I!Space(w, i, I!At(w, c, at)) \in Nat
    BY <1>3
  <2> DEFINE ff == free * Full
             sp == I!Space(w, i, I!At(w, c, at))
  <2>4. I!BagRoom(w, c, at, i, k) = ff + n /\ ff \in Nat /\ (free = 0 => ff = 0) /\ sp \in Nat /\ (at # 0 => n <= sp)
    BY <1>8, <1>9, <2>1, <2>2, <2>3
  <2> HIDE DEF ff
  <2>5. I!BagRoom(w, c, at, i, k) \in Nat
    BY <1>7, <2>4
  <2>6. free = 0 /\ at # 0 => I!BagRoom(w, c, at, i, k) <= sp
    BY <1>7, <2>4
  <2> QED BY <1>1, <2>1, <2>5, <2>6
<1>11. CASE i \notin Stacks
  <2>1. I!BagRoom(w, c, at, i, k) = free
    BY <1>2, <1>11
  <2> QED BY <1>0, <1>1, <1>11, <2>1
<1> QED BY <1>10, <1>11

\* Where a destination may be.
Reaches(w, d) ==
  /\ d.c \in Cyls \cup {Player}
  /\ d.c \in Bags => d.to = I!At(w, d.c, d.at)
  /\ d.c \in Slots => d.to = I!Held(w, d.c)

SlotGives(w, s, i) == w.lies[s] = <<>> \/ (i \in Stacks /\ I!Held(w, s) # None /\ I!Space(w, i, I!Held(w, s)) \in Nat)

LEMMA SlotTakesIs ==
  ASSUME I!ItemsAssumption, NEW w, Sound(w, {}), NEW s \in Slots, NEW at, NEW i, LiesSomewhere(w, i), NEW k,
         I!QueryAdd(w, s, at, i, k) = "ok"
  PROVE  /\ w.lies[s] = <<>> \/ (i \in Stacks /\ I!Held(w, s) # None /\ I!Equal(w, i, I!Held(w, s)))
         /\ I!SlotRoom(w, s, i, k) \in Nat
         /\ w.lies[s] # <<>> => I!SlotRoom(w, s, i, k) = I!Space(w, i, I!Held(w, s))
<1>1. I!SlotTakes(w, s, i, k) = "ok"
  BY AddIs DEF Cyls
<1>2. I!Held(w, s) = None <=> w.lies[s] = <<>>
  BY HeldIs
<1>3. w.lies[s] = <<>> \/ (I!Held(w, s) # None /\ I!Equal(w, i, I!Held(w, s)))
  BY <1>1, <1>2 DEF I!SlotTakes
<1>4. \A j : I!Space(w, i, j) \in Nat
  <2>1. i \in Objs /\ w.what[i] # "none" /\ Full \in Nat
    BY ItemsAssumed DEF LiesSomewhere
  <2> QED BY <2>1, SpaceIs
<1>5. I!Equal(w, i, I!Held(w, s)) => i \in Stacks
  BY DEF I!Equal
<1>6. I!SlotRoom(w, s, i, k) \in Nat
  <2>1. Full \in Nat
    BY ItemsAssumed
  <2> QED BY <1>4, <2>1 DEF I!SlotRoom
<1>7. w.lies[s] # <<>> => I!SlotRoom(w, s, i, k) = I!Space(w, i, I!Held(w, s))
  BY <1>2 DEF I!SlotRoom
<1> QED BY <1>3, <1>5, <1>6, <1>7

LEMMA MinIs ==
  ASSUME NEW a \in Nat, NEW b \in Nat
  PROVE  I!Min2(a, b) \in Nat /\ I!Min2(a, b) <= a /\ I!Min2(a, b) <= b /\ (a # 0 /\ b # 0 => I!Min2(a, b) # 0)
BY DEF I!Min2

Portion(i, k, room) == IF i \in Stacks THEN I!Min2(k, room) ELSE 1

LEMMA Roomed ==
  ASSUME I!ItemsAssumption, NEW w, NEW i, LiesSomewhere(w, i), NEW d, Reaches(w, d), d.to # i, NEW k \in 1 .. w.count[i],
         I!Unused(w) # {}, I!QueryAdd(w, d.c, d.at, i, k) = "ok",
         I!MaxCount(w, d.c, d.at, i, k) # 0
  PROVE  Carries(w, d, i, Portion(i, k, I!MaxCount(w, d.c, d.at, i, k)))
<1> DEFINE room == I!MaxCount(w, d.c, d.at, i, k)
           m == Portion(i, k, room)
           c == d.c
           sp == I!Space(w, i, d.to)
<1>0. /\ w \in ItemWorlds /\ i \in Objs /\ w.what[i] # "none" /\ Sound(w, {}) /\ c \in Cyls
      /\ k \in Nat /\ k <= w.count[i] /\ k # 0 /\ w.count[i] \in Nat
  <2>1. w \in ItemWorlds /\ i \in Objs /\ w.what[i] # "none" /\ Sound(w, {}) /\ Real(w.what, w.count)
    BY DEF LiesSomewhere, Sound
  <2>2. c \in Cyls
    BY AddIs DEF Reaches
  <2>3. w.count[i] \in Int /\ w.count[i] >= 0
    <3>1. w.count \in [Objs -> Int]
      BY <2>1, WorldIs
    <3>2. i \in Stacks => w.count[i] \in 0 .. Full
      BY <2>1 DEF Real
    <3>3. i \in Bags => w.count[i] = 1
      BY <2>1 DEF Real
    <3> QED BY <2>1, <3>1, <3>2, <3>3, ItemsAssumed DEF Objs
  <2> QED BY <2>1, <2>2, <2>3
<1>1. sp \in Nat /\ Stacks \cap Bags = {}
  <2>1. sp \in 0 .. Full
    BY <1>0, SpaceIs
  <2> QED BY <2>1, ItemsAssumed
<1>2. /\ room \in Nat
      /\ i \in Bags => Room(w, c, i)
      /\ i \in Stacks => RoomFor(w, c) \/ room <= sp
  <2>1. CASE c = Ground
    <3>1. room = k /\ c \notin Bags /\ c \notin Slots
      BY <1>0, <2>1, MaxIs, Apart
    <3> QED BY <1>0, <3>1 DEF Room, RoomFor
  <2>2. CASE c \in Bags
    <3> DEFINE r == I!BagRoom(w, c, d.at, i, k)
    <3>1. room = r /\ c \notin Slots
      BY <1>0, <2>2, MaxIs, Apart
    <3>2. i \notin Outward(w.parent, Bags, c) /\ (d.at = 0 => ~(Len(w.lies[c]) >= Capacity[c]))
      BY <2>2, BagTakesIs
    <3>3. Len(w.lies[c]) \in Nat /\ Capacity[c] \in Nat
      <4>1. w.lies \in [Cyls -> Seq(Objs)] /\ Capacity \in [Bags -> Nat]
        BY <1>0, WorldIs, ItemsAssumed
      <4>2. w.lies[c] \in Seq(Objs) /\ Capacity[c] \in Nat
        BY <1>0, <2>2, <4>1
      <4> QED BY <4>2
    <3>4. /\ r \in Nat
          /\ i \in Bags /\ r # 0 => Len(w.lies[c]) < Capacity[c]
          /\ ~(Len(w.lies[c]) < Capacity[c]) /\ d.at # 0 /\ i \in Stacks => r <= I!Space(w, i, I!At(w, c, d.at))
      BY <1>0, <2>2, BagRoomIs
    <3> HIDE DEF r
    <3>5. d.to = I!At(w, c, d.at)
      BY <2>2 DEF Reaches
    <3>6. d.at = 0 => Len(w.lies[c]) < Capacity[c]
      BY <3>2, <3>3
    <3>7. i \in Bags => Len(w.lies[c]) < Capacity[c]
      BY <3>1, <3>4
    <3>8. i \in Stacks => Len(w.lies[c]) < Capacity[c] \/ room <= sp
      BY <3>1, <3>4, <3>5, <3>6
    <3> HIDE DEF room, sp
    <3> QED BY <1>0, <3>1, <3>2, <3>4, <3>7, <3>8 DEF Room, RoomFor
  <2>3. CASE c \in Slots
    <3> DEFINE r == I!SlotRoom(w, c, i, k)
    <3>1. room = r /\ c \notin Bags
      BY <1>0, <2>3, MaxIs, Apart
    <3>2. /\ w.lies[c] = <<>> \/ (i \in Stacks /\ I!Held(w, c) # None /\ I!Equal(w, i, I!Held(w, c)))
          /\ r \in Nat
          /\ w.lies[c] # <<>> => r = I!Space(w, i, I!Held(w, c))
      BY <1>0, <2>3, SlotTakesIs
    <3> HIDE DEF r
    <3>3. d.to = I!Held(w, c)
      BY <2>3 DEF Reaches
    <3>4. w.lies[c] = <<>> \/ (i \in Stacks /\ room = sp)
      BY <3>1, <3>2, <3>3
    <3> HIDE DEF room, sp
    <3> QED BY <1>0, <1>1, <3>1, <3>2, <3>4 DEF Room, RoomFor
  <2> QED BY <1>0, <2>1, <2>2, <2>3 DEF Cyls
<1>3. room # 0
  OBVIOUS
<1>4. CASE i \in Stacks
  <2>1. m = I!Min2(k, room)
    BY <1>4 DEF Portion
  <2> HIDE DEF m, room
  <2>2. m \in Nat /\ m <= k /\ m <= room /\ m # 0
    BY <1>0, <1>2, <1>3, <2>1, MinIs
  <2>3. m \in 1 .. w.count[i]
    BY <1>0, <2>2
  <2> HIDE DEF sp
  <2>4. m > sp => RoomFor(w, c)
    BY <1>1, <1>2, <1>4, <2>2
  <2> QED BY <1>1, <1>4, <2>3, <2>4 DEF Carries, sp, m, room
<1>5. CASE i \notin Stacks
  <2>1. i \in Bags
    BY <1>0, <1>5 DEF Objs
  <2> QED BY <1>2, <1>5, <2>1 DEF Carries
<1> QED BY <1>4, <1>5

\* z is w, or what w became by i going somewhere.
Goes(w, z, i) == Moves(w, z) /\ Keeps(w, z, i)

LEMMA StaysFine ==
  ASSUME NEW w, Sound(w, {}), NEW i PROVE Goes(w, w, i)
BY DEF Goes, Moves, Keeps

LEMMA MoveToFine ==
  ASSUME I!ItemsAssumption, NEW w, NEW i, LiesSomewhere(w, i), NEW d, Reaches(w, d), d.to # i, NEW k \in 1 .. w.count[i],
         I!Unused(w) # {}
  PROVE  Goes(w, I!MoveTo(w, d, i, k), i)
<1> DEFINE room == I!MaxCount(w, d.c, d.at, i, k)
           z == I!MoveTo(w, d, i, k)
<1>0. Sound(w, {}) /\ i \in Objs
  BY DEF LiesSomewhere
<1>1. CASE I!QueryAdd(w, d.c, d.at, i, k) # "ok" \/ room = 0
  <2>1. z = w
    BY <1>1 DEF I!MoveTo, I!CarryIf
  <2> QED BY <1>0, <2>1, StaysFine
<1>2. CASE I!QueryAdd(w, d.c, d.at, i, k) = "ok" /\ room # 0
  <2> DEFINE m == Portion(i, k, room)
  <2>1. Carries(w, d, i, m)
    BY <1>2, Roomed
  <2>2. z = I!Carry(w, d, i, m)
    BY <1>2 DEF I!MoveTo, I!CarryIf, Portion
  <2> HIDE DEF z, m, room
  <2>3. Moves(w, I!Carry(w, d, i, m)) /\ Keeps(w, I!Carry(w, d, i, m), i)
    BY <1>0, <2>1, CarryFine
  <2>4. Goes(w, z, i)
    BY <2>2, <2>3 DEF Goes
  <2> QED BY <2>4 DEF z
<1> QED BY <1>1, <1>2

\* z is w without what lay in the slot c, to which i may go.
Cleared(w, z, c, i) ==
  /\ Moves(w, z) /\ z.what = w.what /\ z.count = w.count /\ z.lies[c] = <<>>
  /\ i \in Bags => z.total[i] = w.total[i]
  /\ \A F \in [Bags -> Int] : Weighed(w, F) => Weighed(z, F)

LEMMA MightExchange ==
  ASSUME I!ItemsAssumption, NEW w, NEW d, Reaches(w, d), NEW i, Sound(w, {}), NEW k,
         I!QueryAdd(w, d.c, d.at, i, k) = "exchange", d.to \notin Bags
  PROVE  /\ d.c \in Slots /\ d.to \in Stacks /\ d.to = I!Held(w, d.c) /\ ~I!Equal(w, i, d.to)
         /\ w.parent[d.to] = d.c /\ LiesSomewhere(w, d.to)
<1>1. d.c \in Slots
  <2>1. d.c = Ground => I!QueryAdd(w, d.c, d.at, i, k) \in {"no", "ok"}
    BY AddIs DEF Reaches, I!TileTakes
  <2>2. d.c = Player => I!QueryAdd(w, d.c, d.at, i, k) \in {"no", "ok"}
    BY AddIs DEF Reaches
  <2>3. d.c \in Bags => I!QueryAdd(w, d.c, d.at, i, k) \in {"no", "ok"}
    BY AddIs DEF Reaches, I!BagTakes
  <2> QED BY <2>1, <2>2, <2>3 DEF Reaches, Cyls
<1>2. I!SlotTakes(w, d.c, i, k) = "exchange"
  BY <1>1, AddIs DEF Reaches
<1>3. d.to = I!Held(w, d.c)
  BY <1>1 DEF Reaches
<1>4. d.to # None /\ ~I!Equal(w, i, d.to)
  BY <1>2, <1>3 DEF I!SlotTakes
<1>5. d.to \in Objs /\ w.parent[d.to] = d.c
  BY <1>1, <1>3, <1>4, HeldIs
<1>6. d.c \in Cyls /\ Nowhere \notin Cyls
  BY <1>1, Apart DEF Cyls
<1>7. w.what[d.to] # "none"
  <2>1. InPlace(w.what, w.lies, w.parent, {})
    BY DEF Sound
  <2> QED BY <1>5, <1>6, <2>1 DEF InPlace
<1> QED BY <1>1, <1>3, <1>4, <1>5, <1>7 DEF Objs, LiesSomewhere

\* Where i comes from takes what is exchanged for it.
LEMMA GivesBack ==
  ASSUME I!ItemsAssumption, NEW w, NEW i, LiesSomewhere(w, i), NEW x \in Stacks, x # i, ~I!Equal(w, i, x), NEW k,
         I!QueryAdd(w, w.parent[i], 1, x, k) = "ok",
         ~(w.parent[i] \in Bags /\ Len(w.lies[w.parent[i]]) = Capacity[w.parent[i]])
  PROVE  RoomFor(w, w.parent[i]) /\ w.parent[i] \notin Slots
<1> DEFINE c == w.parent[i]
<1>1. c \in Cyls /\ w \in ItemWorlds /\ Sound(w, {}) /\ i \in Objs
  BY LyingIs DEF LiesSomewhere
<1>2. c \notin Slots
  <2> SUFFICES ASSUME c \in Slots PROVE FALSE
    OBVIOUS
  <2>1. I!Held(w, c) = i
    BY <1>1, HeldIs
  <2>2. I!SlotTakes(w, c, x, k) = "ok"
    BY <1>1, AddIs
  <2>3. i # None
    BY <1>1, Apart
  <2>4. I!Equal(w, x, i)
    BY <2>1, <2>2, <2>3 DEF I!SlotTakes
  <2>5. x # None
    BY Apart DEF Objs
  <2> QED BY <2>4, <2>5 DEF I!Equal
<1>3. c \in Bags => Len(w.lies[c]) < Capacity[c]
  <2> SUFFICES ASSUME c \in Bags PROVE Len(w.lies[c]) < Capacity[c]
    OBVIOUS
  <2>1. Len(w.lies[c]) <= Capacity[c]
    BY <1>1 DEF Sound, Roomy
  <2>2. Len(w.lies[c]) # Capacity[c]
    OBVIOUS
  <2>3. Capacity[c] \in Nat /\ w.lies[c] \in Seq(Objs)
    BY <1>1, WorldIs, ItemsAssumed
  <2> DEFINE n == Len(w.lies[c])
             u == Capacity[c]
  <2>4. n \in Nat /\ u \in Nat /\ n <= u /\ n # u
    BY <2>1, <2>2, <2>3
  <2> HIDE DEF n, u
  <2>5. n < u
    BY <2>4
  <2> QED BY <2>5 DEF n, u
<1> QED BY <1>1, <1>2, <1>3 DEF RoomFor

LEMMA ExchangeFine ==
  ASSUME I!ItemsAssumption, NEW w, NEW i, LiesSomewhere(w, i), NEW d, Reaches(w, d), d.to # i, d.to \notin Bags, NEW k,
         I!QueryAdd(w, d.c, d.at, i, k) = "exchange", I!Exchanged(w, d, i, k) # w
  PROVE  Cleared(w, I!Exchanged(w, d, i, k), d.c, i)
<1> DEFINE z == I!Exchanged(w, d, i, k)
           x == d.to
           from == w.parent[i]
           n == w.count[x]
           y == I!Take(w, x, n)
           c == d.c
<1>0. Sound(w, {}) /\ w \in ItemWorlds /\ i \in Objs
  BY DEF LiesSomewhere, Sound
<1>1. /\ c \in Slots /\ x \in Stacks /\ x = I!Held(w, c) /\ ~I!Equal(w, i, x)
      /\ w.parent[x] = c /\ LiesSomewhere(w, x)
  BY <1>0, MightExchange
<1>2. /\ z = I!Put(y, from, x)
      /\ I!QueryAdd(w, from, 1, x, n) = "ok"
      /\ ~(from \in Bags /\ Len(w.lies[from]) = Capacity[from])
  BY DEF I!Exchanged
<1> HIDE DEF z, x, from, n, c
<1>3. RoomFor(w, from) /\ from \notin Slots
  BY <1>1, <1>2, GivesBack DEF x, from
<1>4. Room(w, from, x)
  BY <1>0, <1>1, <1>3, StackRoom
<1>5. Whole(w, x, n)
  BY DEF Whole, n
<1>6. Taken(w, y, x) /\ Room(y, from, x)
  <2>1. Taken(w, y, x)
    BY <1>1, <1>5, TakeSound
  <2>2. Room(y, from, x)
    BY <1>1, <1>4, <1>5, RoomTaken
  <2> QED BY <2>1, <2>2
<1> DEFINE v == I!Put(y, from, x)
<1>7. ASSUME NEW F \in [Bags -> Int], Weighed(w, F) PROVE Weighed(v, F)
  <2>1. Tells(w, F, x)
    BY <1>0, <1>1, StackTells
  <2>2. Weighed(y, F)
    BY <1>1, <1>5, <1>7, <2>1, TakeWeighed
  <2> HIDE DEF y
  <2>3. Sound(y, {x}) /\ y \in ItemWorlds
    BY <1>6 DEF Taken, Sound
  <2>4. Tells(y, F, x)
    BY <1>1, <2>3, StackTells
  <2> QED BY <1>6, <2>2, <2>3, <2>4, PutWeighed
<1> HIDE DEF y
<1>8. /\ Sound(y, {x}) /\ y.what = w.what /\ y.count = w.count
      /\ y.parent = [w.parent EXCEPT ![x] = Nowhere]
      /\ \A e \in Cyls \ {c} : y.lies[e] = w.lies[e]
      /\ Len(y.lies[c]) = Len(w.lies[c]) - 1
      /\ \A b \in Bags : b \notin Outward(w.parent, Bags, c) => y.total[b] = w.total[b]
  BY <1>1, <1>6 DEF Taken
<1>9. PutDown(y, v, from, x)
  BY <1>6, <1>8, PutSound
<1> HIDE DEF v
<1>10. /\ Sound(v, {}) /\ v.what = y.what /\ v.count = y.count /\ v.lies = Onto(y.lies, from, x)
       /\ \A b \in Bags : b \notin Outward(y.parent, Bags, from) => v.total[b] = y.total[b]
  BY <1>9 DEF PutDown
<1>11. Moves(w, v)
  BY <1>8, <1>10 DEF Moves, Rich
<1>12. v.lies[c] = <<>>
  <2>1. c \in Cyls /\ c # from /\ from \in Cyls
    BY <1>1, <1>3 DEF Cyls, RoomFor
  <2>2. y.lies \in [Cyls -> Seq(Objs)]
    BY <1>8, WorldIs DEF Sound
  <2>3. v.lies[c] = y.lies[c]
    BY <1>10, <2>1, <2>2 DEF Onto
  <2>4. w.lies[c] = <<x>>
    <3>1. I!Held(w, c) # None
      BY <1>1, Apart DEF Objs
    <3> QED BY <1>0, <1>1, <3>1, HeldIs
  <2>5. Len(y.lies[c]) = 0
    BY <1>8, <2>4
  <2>6. y.lies[c] \in Seq(Objs)
    BY <2>1, <2>2
  <2> QED BY <2>3, <2>5, <2>6
<1>13. ASSUME i \in Bags PROVE v.total[i] = w.total[i]
  <2>1. i \notin Outward(w.parent, Bags, from)
    BY <1>13, LyingIs DEF from
  <2>2. Outward(w.parent, Bags, c) = {c} /\ i # c
    BY <1>1, <1>13, Apart, ItemsAssumed, OutNext
  <2>3. y.total[i] = w.total[i]
    BY <1>8, <1>13, <2>2
  <2>4. Outward(y.parent, Bags, from) = Outward(w.parent, Bags, from)
    <3>1. w.parent \in [Objs -> Cyls \cup {Nowhere}] /\ Stacks \cap Bags = {} /\ IsFiniteSet(Bags)
      BY <1>0, WorldIs, ItemsAssumed
    <3>2. \A b \in Bags : y.parent[b] = w.parent[b]
      BY <1>1, <1>8, <3>1 DEF Objs
    <3> DEFINE f == w.parent
               g == y.parent
    <3>3. \A b \in Outward(f, Bags, from) \cap Bags : g[b] = f[b]
      BY <3>2
    <3>4. IsFiniteSet(Bags)
      BY <3>1
    <3> HIDE DEF f, g
    <3>5. Outward(g, Bags, from) = Outward(f, Bags, from)
      BY <3>3, <3>4, OutSame
    <3> QED BY <3>5 DEF f, g
  <2> QED BY <1>10, <1>13, <2>1, <2>3, <2>4
<1>14. z = v
  BY <1>2 DEF v
<1>15. Cleared(w, z, c, i)
  BY <1>7, <1>8, <1>10, <1>11, <1>12, <1>13, <1>14 DEF Cleared
<1> QED BY <1>15 DEF z, c

LEMMA LeastIs ==
  ASSUME NEW S0 \in SUBSET Nat, S0 # {} PROVE I!Least(S0) \in S0
<1>1. \E x \in S0 : \A y \in S0 : x <= y
  BY LeastExists
<1> QED BY <1>1 DEF I!Least

Somewhere(w, d) ==
  /\ d = I!There(d.c, d.at, d.to) /\ Reaches(w, d)
  /\ d.c \in Slots => d.to \notin Bags

LEMMA ThereIs ==
  ASSUME NEW c, NEW at, NEW to
  PROVE  LET d == I!There(c, at, to) IN d.c = c /\ d.at = at /\ d.to = to /\ d = I!There(d.c, d.at, d.to)
BY DEF I!There

LEMMA ToBag ==
  ASSUME I!ItemsAssumption, NEW w, NEW b \in Bags, NEW at, I!At(w, b, at) = None
  PROVE  Somewhere(w, I!There(b, at, None))
<1> DEFINE d == I!There(b, at, None)
<1>1. d.c = b /\ d.at = at /\ d.to = None /\ d = I!There(d.c, d.at, d.to)
  BY ThereIs
<1> HIDE DEF d
<1>2. b \notin Slots /\ b \in Cyls
  BY Apart DEF Cyls
<1>3. Somewhere(w, d)
  BY <1>1, <1>2 DEF Somewhere, Reaches
<1> QED BY <1>3 DEF d

LEMMA AtNowhere ==
  ASSUME I!ItemsAssumption, NEW w \in ItemWorlds, NEW b \in Bags
  PROVE  I!At(w, b, 0) = None /\ I!At(w, b, Len(w.lies[b]) + 1) = None
<1>1. Len(w.lies[b]) \in Nat
  <2>1. w.lies[b] \in Seq(Objs)
    BY WorldIs DEF Cyls
  <2> QED BY <2>1
<1> DEFINE n == Len(w.lies[b])
<1>2. n \in Nat
  BY <1>1
<1> HIDE DEF n
<1>3. 0 \notin 1 .. n /\ n + 1 \notin 1 .. n
  BY <1>2
<1> QED BY <1>3 DEF I!At, n

LEMMA FirstOfIs ==
  ASSUME I!ItemsAssumption, NEW w \in ItemWorlds, NEW empty \in SUBSET Slots, NEW open \in SUBSET Slots,
         \A s \in empty : I!Held(w, s) = None, \A s \in open : I!Held(w, s) \in Bags
  PROVE  Somewhere(w, I!FirstOf(w, empty, open))
<1>0. w \in ItemWorlds /\ empty \in SUBSET Nat /\ open \in SUBSET Nat
  BY ItemsAssumed
<1>1. CASE empty # {}
  <2> DEFINE s == I!Least(empty)
             d == I!There(s, s, None)
  <2>1. s \in empty
    BY <1>0, <1>1, LeastIs
  <2>2. I!FirstOf(w, empty, open) = d
    BY <1>1 DEF I!FirstOf
  <2>3. d.c = s /\ d.at = s /\ d.to = None /\ d = I!There(d.c, d.at, d.to)
    BY ThereIs
  <2> HIDE DEF d, s
  <2>4. s \in Slots /\ s \in Cyls /\ s \notin Bags /\ None \notin Bags /\ I!Held(w, s) = None
    BY <2>1, Apart DEF Cyls, Objs
  <2>5. Somewhere(w, d)
    BY <2>3, <2>4 DEF Somewhere, Reaches
  <2> QED BY <2>2, <2>5
<1>2. CASE empty = {} /\ open # {}
  <2> DEFINE b == I!Held(w, I!Least(open))
             at == Len(w.lies[b]) + 1
  <2>1. b \in Bags
    BY <1>0, <1>2, LeastIs
  <2>2. I!FirstOf(w, empty, open) = I!There(b, at, None)
    BY <1>2 DEF I!FirstOf
  <2> HIDE DEF b
  <2>3. I!At(w, b, at) = None
    BY <1>0, <2>1, AtNowhere
  <2> HIDE DEF at
  <2>4. Somewhere(w, I!There(b, at, None))
    BY <2>1, <2>3, ToBag
  <2> QED BY <2>2, <2>4
<1>3. CASE empty = {} /\ open = {}
  <2> DEFINE d == I!There(Player, 0, None)
  <2>1. I!FirstOf(w, empty, open) = d
    BY <1>3 DEF I!FirstOf, I!Wherever
  <2>2. d.c = Player /\ d = I!There(d.c, d.at, d.to)
    BY ThereIs
  <2> HIDE DEF d
  <2>3. Somewhere(w, d)
    BY <2>2, Apart DEF Somewhere, Reaches
  <2> QED BY <2>1, <2>3
<1> QED BY <1>1, <1>2, <1>3

LEMMA AnyPlaceIs ==
  ASSUME I!ItemsAssumption, NEW w \in ItemWorlds, NEW i PROVE Somewhere(w, I!AnyPlace(w, i))
<1> DEFINE empty == {s \in Slots : I!Held(w, s) = None /\ I!QueryAdd(w, s, s, i, w.count[i]) = "ok"}
           open == {s \in Slots : /\ I!Held(w, s) \in Bags \ {i}
                                  /\ Len(w.lies[I!Held(w, s)]) < Capacity[I!Held(w, s)]
                                  /\ I!QueryAdd(w, I!Held(w, s), 1, i, w.count[i]) = "ok"}
<1>1. I!AnyPlace(w, i) = I!FirstOf(w, empty, open)
  BY DEF I!AnyPlace
<1>2. /\ empty \in SUBSET Slots /\ open \in SUBSET Slots
      /\ \A s \in empty : I!Held(w, s) = None
      /\ \A s \in open : I!Held(w, s) \in Bags
  OBVIOUS
<1> HIDE DEF empty, open
<1>3. Somewhere(w, I!FirstOf(w, empty, open))
  BY <1>2, FirstOfIs
<1> QED BY <1>1, <1>3

LEMMA InsideIs ==
  ASSUME I!ItemsAssumption, NEW w \in ItemWorlds, NEW c \in Slots \cup Bags, NEW at, NEW to,
         c \in Bags => to = I!At(w, c, at), c \in Slots => to = I!Held(w, c)
  PROVE  Somewhere(w, I!Inside(c, at, to))
<1>1. CASE to \in Bags
  <2>1. I!Inside(c, at, to) = I!There(to, 0, None)
    BY <1>1 DEF I!Inside, I!Wherever
  <2>2. I!At(w, to, 0) = None
    BY <1>1, AtNowhere
  <2>3. Somewhere(w, I!There(to, 0, None))
    BY <1>1, <2>2, ToBag
  <2> QED BY <2>1, <2>3
<1>2. CASE to \notin Bags
  <2> DEFINE d == I!There(c, at, to)
  <2>1. I!Inside(c, at, to) = d
    BY <1>2 DEF I!Inside
  <2>2. d.c = c /\ d.at = at /\ d.to = to /\ d = I!There(d.c, d.at, d.to)
    BY ThereIs
  <2> HIDE DEF d
  <2>3. c \in Cyls
    BY DEF Cyls
  <2>4. Somewhere(w, d)
    BY <1>2, <2>2, <2>3 DEF Somewhere, Reaches
  <2> QED BY <2>1, <2>4
<1> QED BY <1>1, <1>2

LEMMA DestinationIs ==
  ASSUME I!ItemsAssumption, NEW w \in ItemWorlds, NEW c \in Cyls \cup {Player}, NEW at, NEW i
  PROVE  Somewhere(w, I!Destination(w, c, at, i))
<1>0. w \in ItemWorlds
  OBVIOUS
<1>1. CASE c = Ground
  <2> DEFINE d == I!There(Ground, 0, I!At(w, Ground, 1))
  <2>1. I!Destination(w, c, at, i) = d
    BY <1>1, Apart DEF I!Destination, I!Wherever
  <2>2. d.c = Ground /\ d = I!There(d.c, d.at, d.to)
    BY ThereIs
  <2> HIDE DEF d
  <2>3. Somewhere(w, d)
    BY <2>2, Apart DEF Somewhere, Reaches, Cyls
  <2> QED BY <2>1, <2>3
<1>2. CASE c = Player
  <2>1. I!Destination(w, c, at, i) = I!AnyPlace(w, i)
    BY <1>2, Apart DEF I!Destination
  <2> QED BY <2>1, AnyPlaceIs
<1>3. CASE c \in Bags
  <2>1. c # Ground /\ c # Player
    BY <1>3, Apart
  <2> DEFINE arm == IF at > Capacity[c] THEN I!There(c, 0, None) ELSE I!Inside(c, at, I!At(w, c, at))
             arms == I!Inside(c, c, I!Held(w, c))
  <2>2. I!Destination(w, c, at, i) = arm
    <3>1. I!Destination(w, c, at, i)
            = CASE c = Ground -> I!There(Ground, 0, I!At(w, Ground, 1))
                [] c = Player -> I!AnyPlace(w, i)
                [] c \in Bags -> arm
                [] c \in Slots -> arms
      BY DEF I!Destination, I!Wherever
    <3> HIDE DEF arm, arms
    <3> QED BY <1>3, <2>1, <3>1, Apart
  <2>3. Somewhere(w, I!There(c, 0, None))
    BY <1>0, <1>3, AtNowhere, ToBag
  <2> DEFINE to == I!At(w, c, at)
  <2>4. c \notin Slots
    BY <1>3, Apart
  <2> HIDE DEF to
  <2>5. c \in Bags => to = I!At(w, c, at)
    BY DEF to
  <2>6. c \in Slots => to = I!Held(w, c)
    BY <2>4
  <2>7. c \in Slots \cup Bags
    BY <1>3
  <2>8. Somewhere(w, I!Inside(c, at, to))
    BY <1>0, <2>5, <2>6, <2>7, InsideIs
  <2> QED BY <2>2, <2>3, <2>8 DEF to
<1>4. CASE c \in Slots
  <2>1. c # Ground /\ c # Player /\ c \notin Bags
    BY <1>4, Apart
  <2> DEFINE to == I!Held(w, c)
  <2>2. I!Destination(w, c, at, i) = I!Inside(c, c, to)
    BY <1>4, <2>1 DEF I!Destination
  <2> HIDE DEF to
  <2>3. c \in Bags => to = I!At(w, c, c)
    BY <2>1
  <2>4. c \in Slots => to = I!Held(w, c)
    BY DEF to
  <2>5. c \in Slots \cup Bags
    BY <1>4
  <2>6. Somewhere(w, I!Inside(c, c, to))
    BY <1>0, <2>3, <2>4, <2>5, InsideIs
  <2> QED BY <2>2, <2>6
<1> QED BY <1>1, <1>2, <1>3, <1>4 DEF Cyls

LEMMA AfterExchangeFine ==
  ASSUME I!ItemsAssumption, NEW w, NEW i, LiesSomewhere(w, i), NEW d, Somewhere(w, d), d.to # i, NEW k \in 1 .. w.count[i],
         I!Unused(w) # {}, I!QueryAdd(w, d.c, d.at, i, k) = "exchange"
  PROVE  Goes(w, I!AfterExchange(w, I!Exchanged(w, d, i, k), d, i, k), i)
<1> DEFINE x == I!Exchanged(w, d, i, k)
           z == I!AfterExchange(w, x, d, i, k)
           d0 == [d EXCEPT !.to = None]
<1>0. Sound(w, {}) /\ w \in ItemWorlds /\ i \in Objs /\ w.what[i] # "none"
  BY DEF LiesSomewhere, Sound
<1>1. CASE x = w
  <2>1. z = I!MoveTo(w, d, i, k)
    BY <1>1 DEF I!AfterExchange
  <2>2. I!MoveTo(w, d, i, k) = w
    BY DEF I!MoveTo
  <2>3. Goes(w, w, i)
    BY <1>0, StaysFine
  <2> QED BY <2>1, <2>2, <2>3
<1>2. CASE x # w
  <2>1. Reaches(w, d) /\ d = I!There(d.c, d.at, d.to) /\ (d.c \in Slots => d.to \notin Bags)
    BY DEF Somewhere
  <2>2. d.c \in Slots
    <3>1. d.c = Ground => I!QueryAdd(w, d.c, d.at, i, k) \in {"no", "ok"}
      BY <2>1, AddIs DEF Reaches, I!TileTakes
    <3>2. d.c = Player => I!QueryAdd(w, d.c, d.at, i, k) \in {"no", "ok"}
      BY <2>1, AddIs DEF Reaches
    <3>3. d.c \in Bags => I!QueryAdd(w, d.c, d.at, i, k) \in {"no", "ok"}
      BY <2>1, AddIs DEF Reaches, I!BagTakes
    <3> QED BY <2>1, <3>1, <3>2, <3>3 DEF Reaches, Cyls
  <2>3. Cleared(w, x, d.c, i)
    BY <1>2, <2>1, <2>2, ExchangeFine
  <2>4. z = I!MoveTo(x, d0, i, k)
    BY <1>2 DEF I!AfterExchange
  <2>5. d0.c = d.c /\ d0.at = d.at /\ d0.to = None
    BY <2>1 DEF I!There
  <2> HIDE DEF x, d0, z
  <2>6. /\ Sound(x, {}) /\ Rich(x) = Rich(w) /\ x.what = w.what /\ x.count = w.count /\ x.lies[d.c] = <<>>
        /\ i \in Bags => x.total[i] = w.total[i]
        /\ \A F \in [Bags -> Int] : Weighed(w, F) => Weighed(x, F)
    BY <2>3 DEF Cleared, Moves
  <2>7. LiesSomewhere(x, i) /\ k \in 1 .. x.count[i] /\ x \in ItemWorlds
    BY <1>0, <2>6 DEF LiesSomewhere, Sound
  <2>8. I!Unused(x) # {}
    BY <2>6 DEF I!Unused, I!Exists
  <2>9. Reaches(x, d0)
    <3>1. I!Held(x, d.c) = None
      BY <2>6 DEF I!Held
    <3> QED BY <2>2, <2>5, <3>1, Apart DEF Reaches, Cyls
  <2>10. d0.to # i
    BY <1>0, <2>5, Apart
  <2>11. Goes(x, I!MoveTo(x, d0, i, k), i)
    BY <2>7, <2>8, <2>9, <2>10, MoveToFine
  <2> DEFINE y == I!MoveTo(x, d0, i, k)
  <2>12. Moves(x, y) /\ Keeps(x, y, i)
    BY <2>11 DEF Goes
  <2> HIDE DEF y
  <2>13. Moves(w, y)
    BY <2>6, <2>12 DEF Moves
  <2>14. ASSUME NEW F \in [Bags -> Int], Weighed(w, F), i \in Bags => Tells(w, F, i) PROVE Weighed(y, F)
    <3>1. Weighed(x, F)
      BY <2>6, <2>14
    <3>2. i \in Bags => Tells(x, F, i)
      BY <1>0, <2>6, <2>7, <2>14, TellsStill
    <3> QED BY <2>12, <3>1, <3>2 DEF Keeps
  <2>15. Goes(w, y, i)
    BY <2>13, <2>14 DEF Goes, Keeps
  <2>16. Goes(w, z, i)
    BY <2>4, <2>15 DEF y
  <2> QED BY <2>16 DEF z, x
<1> QED BY <1>1, <1>2

LEMMA MovedToFine ==
  ASSUME I!ItemsAssumption, NEW w, NEW i, LiesSomewhere(w, i), NEW d, Somewhere(w, d), NEW k \in 1 .. w.count[i],
         I!Unused(w) # {}
  PROVE  Goes(w, I!MovedTo(w, d, i, k), i)
<1>0. Sound(w, {}) /\ Reaches(w, d)
  BY DEF LiesSomewhere, Somewhere
<1>1. CASE d.to = i
  <2>1. I!MovedTo(w, d, i, k) = w
    BY <1>1 DEF I!MovedTo
  <2> QED BY <1>0, <2>1, StaysFine
<1>2. CASE d.to # i /\ I!QueryAdd(w, d.c, d.at, i, k) = "exchange"
  <2>1. I!MovedTo(w, d, i, k) = I!AfterExchange(w, I!Exchanged(w, d, i, k), d, i, k)
    BY <1>2 DEF I!MovedTo
  <2>2. Goes(w, I!AfterExchange(w, I!Exchanged(w, d, i, k), d, i, k), i)
    BY <1>2, AfterExchangeFine
  <2> QED BY <2>1, <2>2
<1>3. CASE d.to # i /\ I!QueryAdd(w, d.c, d.at, i, k) # "exchange"
  <2>1. I!MovedTo(w, d, i, k) = I!MoveTo(w, d, i, k)
    BY <1>3 DEF I!MovedTo, I!AfterExchange
  <2>2. Goes(w, I!MoveTo(w, d, i, k), i)
    BY <1>0, <1>3, MoveToFine
  <2> QED BY <2>1, <2>2
<1> QED BY <1>1, <1>2, <1>3

LEMMA MovedFine ==
  ASSUME I!ItemsAssumption, NEW w, NEW i, LiesSomewhere(w, i), NEW k \in 1 .. w.count[i], I!Unused(w) # {},
         NEW c \in Cyls \cup {Player}, NEW at
  PROVE  Goes(w, I!Moved(w, i, k, c, at), i)
<1> DEFINE d == I!Destination(w, c, at, i)
<1>1. w \in ItemWorlds
  BY DEF LiesSomewhere, Sound
<1>2. Somewhere(w, d)
  BY <1>1, DestinationIs
<1> HIDE DEF d
<1>3. Goes(w, I!MovedTo(w, d, i, k), i)
  BY <1>2, MovedToFine
<1> QED BY <1>3 DEF I!Moved, d

\* Where a new stack may go: where there is nothing to be added to but on the ground.
Offered(w, d) ==
  /\ d.c \in Cyls \cup {Player}
  /\ d.c = Ground => d.to = I!At(w, Ground, 1)
  /\ d.c # Ground => d.to = None
  /\ d.c \in Bags => d.at = 0 \/ Len(w.lies[d.c]) < Capacity[d.c]
  /\ d.c \in Slots => w.lies[d.c] = <<>>

LEMMA OfferedBag ==
  ASSUME I!ItemsAssumption, NEW w, NEW b \in Bags, NEW at, at = 0 \/ Len(w.lies[b]) < Capacity[b]
  PROVE  Offered(w, I!There(b, at, None))
<1> DEFINE d == I!There(b, at, None)
<1>1. d.c = b /\ d.at = at /\ d.to = None
  BY ThereIs
<1> HIDE DEF d
<1>2. Offered(w, d)
  BY <1>1, Apart DEF Offered, Cyls
<1> QED BY <1>2 DEF d

LEMMA OfferedSlot ==
  ASSUME I!ItemsAssumption, NEW w, NEW hand, Sound(w, hand), NEW s \in Slots, NEW at, I!Held(w, s) = None
  PROVE  Offered(w, I!There(s, at, None))
<1> DEFINE d == I!There(s, at, None)
<1>1. d.c = s /\ d.at = at /\ d.to = None
  BY ThereIs
<1> HIDE DEF d
<1>2. w.lies[s] = <<>>
  BY HeldIs
<1>3. Offered(w, d)
  BY <1>1, <1>2, Apart DEF Offered, Cyls
<1> QED BY <1>3 DEF d

LEMMA OfferedAny ==
  ASSUME I!ItemsAssumption, NEW w, NEW hand, Sound(w, hand), NEW i PROVE Offered(w, I!AnyPlace(w, i))
<1> DEFINE empty == {s \in Slots : I!Held(w, s) = None /\ I!QueryAdd(w, s, s, i, w.count[i]) = "ok"}
           open == {s \in Slots : /\ I!Held(w, s) \in Bags \ {i}
                                  /\ Len(w.lies[I!Held(w, s)]) < Capacity[I!Held(w, s)]
                                  /\ I!QueryAdd(w, I!Held(w, s), 1, i, w.count[i]) = "ok"}
<1>1. I!AnyPlace(w, i) = I!FirstOf(w, empty, open)
  BY DEF I!AnyPlace
<1>2. /\ empty \in SUBSET Slots /\ open \in SUBSET Slots
      /\ \A s \in empty : I!Held(w, s) = None
      /\ \A s \in open : I!Held(w, s) \in Bags /\ Len(w.lies[I!Held(w, s)]) < Capacity[I!Held(w, s)]
  OBVIOUS
<1> HIDE DEF empty, open
<1>3. empty \in SUBSET Nat /\ open \in SUBSET Nat
  BY <1>2, ItemsAssumed
<1>4. CASE empty # {}
  <2> DEFINE s == I!Least(empty)
  <2>1. s \in empty
    BY <1>3, <1>4, LeastIs
  <2>2. I!FirstOf(w, empty, open) = I!There(s, s, None)
    BY <1>4 DEF I!FirstOf
  <2> HIDE DEF s
  <2>3. s \in Slots /\ I!Held(w, s) = None
    BY <1>2, <2>1
  <2>4. Offered(w, I!There(s, s, None))
    BY <2>3, OfferedSlot
  <2> QED BY <1>1, <2>2, <2>4
<1>5. CASE empty = {} /\ open # {}
  <2> DEFINE b == I!Held(w, I!Least(open))
             at == Len(w.lies[b]) + 1
  <2>1. b \in Bags /\ Len(w.lies[b]) < Capacity[b]
    BY <1>2, <1>3, <1>5, LeastIs
  <2>2. I!FirstOf(w, empty, open) = I!There(b, at, None)
    BY <1>5 DEF I!FirstOf
  <2> HIDE DEF b, at
  <2>3. Offered(w, I!There(b, at, None))
    BY <2>1, OfferedBag
  <2> QED BY <1>1, <2>2, <2>3
<1>6. CASE empty = {} /\ open = {}
  <2> DEFINE d == I!There(Player, 0, None)
  <2>1. I!FirstOf(w, empty, open) = d
    BY <1>6 DEF I!FirstOf, I!Wherever
  <2>2. d.c = Player /\ d.to = None
    BY ThereIs
  <2> HIDE DEF d
  <2>3. Offered(w, d)
    BY <2>2, Apart DEF Offered
  <2> QED BY <1>1, <2>1, <2>3
<1> QED BY <1>4, <1>5, <1>6

\* Where something is added: on the ground, to the player, or in a slot that is empty or has a bag.
Open(w, c) == c \in {Ground, Player} \/ (c \in Slots /\ I!Held(w, c) \in Bags \cup {None})

LEMMA OfferedIs ==
  ASSUME I!ItemsAssumption, NEW w, NEW hand, Sound(w, hand), NEW c, Open(w, c), NEW at, NEW i
  PROVE  Offered(w, I!Destination(w, c, at, i))
<1>1. CASE c = Ground
  <2> DEFINE to == I!At(w, Ground, 1)
             d == I!There(Ground, 0, to)
  <2>1. I!Destination(w, c, at, i) = d
    BY <1>1, Apart DEF I!Destination, I!Wherever
  <2>2. d.c = Ground /\ d.to = to
    BY ThereIs
  <2> HIDE DEF d
  <2>3. Offered(w, d)
    BY <2>2, Apart DEF Offered, Cyls
  <2> QED BY <2>1, <2>3
<1>2. CASE c = Player
  <2>1. I!Destination(w, c, at, i) = I!AnyPlace(w, i)
    BY <1>2, Apart DEF I!Destination
  <2> QED BY <2>1, OfferedAny
<1>3. CASE c \in Slots /\ I!Held(w, c) \in Bags \cup {None}
  <2>1. c # Ground /\ c # Player /\ c \notin Bags
    BY <1>3, Apart
  <2> DEFINE to == I!Held(w, c)
  <2>2. I!Destination(w, c, at, i) = I!Inside(c, c, to)
    BY <1>3, <2>1 DEF I!Destination
  <2>3. CASE to \in Bags
    <3> HIDE DEF to
    <3>1. I!Inside(c, c, to) = I!There(to, 0, None)
      BY <2>3 DEF I!Inside, I!Wherever
    <3>2. Offered(w, I!There(to, 0, None))
      BY <2>3, OfferedBag
    <3> QED BY <2>2, <3>1, <3>2
  <2>4. CASE to \notin Bags
    <3>1. to = None /\ c \in Slots
      BY <1>3, <2>4
    <3>2. Offered(w, I!There(c, c, None))
      BY <3>1, OfferedSlot
    <3>3. I!Inside(c, c, to) = I!There(c, c, None)
      BY <2>4, <3>1 DEF I!Inside
    <3> QED BY <2>2, <3>2, <3>3
  <2> QED BY <2>3, <2>4
<1> QED BY <1>1, <1>2, <1>3 DEF Open

\* z is w with the stack i, which was in hand.
LaidAt(w, z, i) ==
  /\ Sound(z, {}) /\ Rich(z) = Rich(w) /\ \A y \in Objs \ {i} : z.what[y] = w.what[y]
  /\ \A F \in [Bags -> Int] : Weighed(w, F) => Weighed(z, F)

LEMMA OfferFine ==
  ASSUME I!ItemsAssumption, NEW w, NEW i \in Stacks, Sound(w, {i}), NEW d, Offered(w, d), NEW k,
         I!QueryAdd(w, d.c, d.at, i, k) = "ok", NEW m, m = w.count[i]
  PROVE  LET n == I!Min2(I!Space(w, i, d.to), m) IN Settles(w, {i}, i, w.what[i], m, n, d.to, d.c)
<1> DEFINE sp == I!Space(w, i, d.to)
           n == I!Min2(sp, m)
           to == d.to
           c == d.c
<1>0. /\ w \in ItemWorlds /\ i \in Objs /\ w.what[i] # "none" /\ w.parent[i] = Nowhere
      /\ w.what[i] \in {"gold", "platinum"} /\ m \in 1 .. Full /\ Full \in Nat
  <2>1. w \in ItemWorlds /\ Real(w.what, w.count) /\ InPlace(w.what, w.lies, w.parent, {i})
    BY DEF Sound
  <2>2. w.what[i] # "none" /\ w.parent[i] = Nowhere /\ i \in Objs
    BY <2>1 DEF InPlace
  <2>3. w.what[i] \in {"none", "gold", "platinum"} /\ w.count[i] \in 0 .. Full /\ w.count[i] # 0
    BY <2>1, <2>2 DEF Real
  <2> QED BY <2>1, <2>2, <2>3, ItemsAssumed
<1>1. /\ sp \in 0 .. Full
      /\ sp > 0 => /\ to \in Stacks /\ w.what[to] = w.what[i]
                   /\ w.count[to] + sp <= Full /\ w.count[to] \in Nat
                   /\ to \in {i} \/ Lies(w, to)
  <2>1. /\ I!Space(w, i, to) \in 0 .. Full
        /\ I!Space(w, i, to) > 0 => /\ i \in Stacks /\ to \in Stacks /\ w.what[to] = w.what[i]
                                    /\ w.count[to] + I!Space(w, i, to) <= Full /\ w.count[to] \in Nat
                                    /\ to \in {i} \/ Lies(w, to)
    BY <1>0, SpaceIs
  <2> QED BY <2>1
<1>2. c # Player
  BY AddIs DEF Offered
<1>3. to # i
  <2>1. CASE c = Ground
    <3>1. to = I!At(w, Ground, 1)
      BY <2>1 DEF Offered
    <3> SUFFICES ASSUME to = i PROVE FALSE
      OBVIOUS
    <3>2. Ground \in Cyls /\ InPlace(w.what, w.lies, w.parent, {i}) /\ Nowhere \notin Cyls
      BY Apart DEF Sound, Cyls
    <3>3. i # None
      BY <1>0, Apart
    <3>4. 1 \in 1 .. Len(w.lies[Ground]) /\ w.lies[Ground][1] = i
      BY <3>1, <3>3 DEF I!At
    <3>5. i \in Members(w.lies[Ground])
      BY <3>4 DEF Members
    <3>6. w.parent[i] = Ground
      BY <1>0, <3>2, <3>5 DEF InPlace
    <3> QED BY <1>0, <3>2, <3>6
  <2>2. CASE c # Ground
    <3>1. to = None
      BY <2>2 DEF Offered
    <3> QED BY <1>0, <3>1, Apart
  <2> QED BY <2>1, <2>2
<1>4. RoomFor(w, c)
  <2>1. c \in Cyls
    BY <1>2 DEF Offered
  <2>2. c \in Bags => Len(w.lies[c]) < Capacity[c]
    <3> SUFFICES ASSUME c \in Bags PROVE Len(w.lies[c]) < Capacity[c]
      OBVIOUS
    <3>1. d.at = 0 => ~(Len(w.lies[c]) >= Capacity[c])
      BY BagTakesIs
    <3>2. Len(w.lies[c]) \in Nat /\ Capacity[c] \in Nat
      <4>1. w.lies \in [Cyls -> Seq(Objs)] /\ Capacity \in [Bags -> Nat]
        BY <1>0, WorldIs, ItemsAssumed
      <4>2. w.lies[c] \in Seq(Objs) /\ Capacity[c] \in Nat
        BY <2>1, <4>1
      <4> QED BY <4>2
    <3>3. d.at = 0 \/ Len(w.lies[c]) < Capacity[c]
      BY DEF Offered
    <3> QED BY <3>1, <3>2, <3>3
  <2>3. c \in Slots => w.lies[c] = <<>>
    BY DEF Offered
  <2> QED BY <2>1, <2>2, <2>3 DEF RoomFor
<1> HIDE DEF sp
<1>5. n \in Nat /\ n <= sp /\ n <= m
  <2>1. sp \in Nat /\ m \in Nat
    BY <1>0, <1>1
  <2> QED BY <2>1, MinIs
<1> HIDE DEF n, to, c
<1>6. n \in 0 .. m
  BY <1>0, <1>5
<1>7. Grows(w, w.what[i], to, n)
  <2> SUFFICES ASSUME n > 0 PROVE Lies(w, to) /\ w.what[to] = w.what[i] /\ w.count[to] + n \in 1 .. Full
    BY DEF Grows
  <2>1. sp > 0
    BY <1>1, <1>5
  <2>2. Lies(w, to) /\ w.what[to] = w.what[i] /\ w.count[to] + sp <= Full /\ w.count[to] \in Nat
    BY <1>1, <1>3, <2>1
  <2> DEFINE u == w.count[to]
  <2>3. u \in Nat /\ u + sp <= Full
    BY <2>2
  <2> HIDE DEF u
  <2>4. u + n \in 1 .. Full
    BY <1>0, <1>1, <1>5, <2>3
  <2> QED BY <2>2, <2>4 DEF u
<1>8. Settles(w, {i}, i, w.what[i], m, n, to, c)
  BY <1>0, <1>4, <1>6, <1>7 DEF Settles
<1> QED BY <1>8 DEF n, sp, to, c

LEMMA StackedIs ==
  ASSUME I!ItemsAssumption, NEW w, NEW i \in Stacks, NEW d, NEW n \in Nat, NEW m, m = w.count[i],
         Settles(w, {i}, i, w.what[i], m, n, d.to, d.c)
  PROVE  I!Stacked(w, d, i, n) = Settled(w, i, w.what[i], m, n, d.to, d.c)
<1> DEFINE to == d.to
           c == d.c
           kind == w.what[i]
           g == GrownBy(w, to, n)
<1>0. Sound(w, {i}) /\ Grows(w, kind, to, n) /\ w.parent[i] = Nowhere
  BY DEF Settles
<1> HIDE DEF kind, to
<1>1. /\ Sound(g, {i}) /\ g.what = w.what /\ g.lies = w.lies /\ g.parent = w.parent
      /\ \A y \in Stacks : (n > 0 /\ y = to) \/ g.count[y] = w.count[y]
      /\ Rich(g) = Rich(w) + OneWorth(kind, n)
  BY <1>0, GrownSound
<1> HIDE DEF g
<1>2. g \in ItemWorlds
  BY <1>1 DEF Sound
<1>3. g.count[i] = m
  <2>1. n > 0 => to # i
    BY <1>0, Apart DEF Grows, Lies
  <2> QED BY <1>1, <2>1
<1>4. I!Vanish(g, i) = CountedAs(g, i, "none", 0)
  BY <1>2, VanishIs
<1>5. [g EXCEPT !.count[i] = m - n] = CountedAs(g, i, kind, m - n)
  <2> DEFINE r == m - n
  <2> HIDE DEF r
  <2>1. [g EXCEPT !.count[i] = r] = CountedAs(g, i, g.what[i], r)
    BY <1>2, RecountIs
  <2> QED BY <1>1, <2>1 DEF kind, r
<1>6. [g EXCEPT !.count[i] = @ - n] = [g EXCEPT !.count[i] = m - n]
  BY <1>3
<1>7. I!Stacked(w, d, i, n)
        = IF n = m THEN I!Vanish(g, i) ELSE I!Put([g EXCEPT !.count[i] = @ - n], c, i)
  BY DEF I!Stacked, GrownBy, g, to
<1>8. I!Stacked(w, d, i, n) = IF n = m THEN CountedAs(g, i, "none", 0) ELSE I!Put(CountedAs(g, i, kind, m - n), c, i)
  BY <1>4, <1>5, <1>6, <1>7
<1> QED BY <1>8 DEF Settled, g, kind, to

LEMMA SettledLaid ==
  ASSUME I!ItemsAssumption, NEW w, NEW i \in Stacks, NEW m, m = w.count[i], NEW n, NEW to, NEW c,
         Settles(w, {i}, i, w.what[i], m, n, to, c)
  PROVE  LaidAt(w, Settled(w, i, w.what[i], m, n, to, c), i)
<1> DEFINE kind == w.what[i]
           z == Settled(w, i, kind, m, n, to, c)
<1>0. w \in ItemWorlds
  BY DEF Settles, Sound
<1> HIDE DEF kind
<1>a. Settles(w, {i}, i, kind, m, n, to, c)
  BY DEF kind
<1>1. /\ Sound(z, {}) /\ \A y \in Objs \ {i} : z.what[y] = w.what[y]
      /\ Rich(z) = Rich(w) + OneWorth(kind, m) - WorthAt(w, i)
  BY <1>a, SettledSound
<1>2. ASSUME NEW F \in [Bags -> Int], Weighed(w, F) PROVE Weighed(z, F)
  BY <1>a, <1>2, SettledWeighed
<1> HIDE DEF z
<1>3. Rich(z) = Rich(w)
  <2> DEFINE a == OneWorth(kind, m)
             b == WorthAt(w, i)
             r == Rich(w)
  <2>1. a = b
    BY DEF WorthAt, kind
  <2>2. r \in Int /\ b \in Int
    <3>1. OneWorth(w.what[i], w.count[i]) \in Int
      BY <1>0, RichNat
    <3> QED BY <1>0, <3>1, RichNat DEF WorthAt
  <2>3. Rich(z) = r + a - b
    BY <1>1
  <2> HIDE DEF a, b, r
  <2>4. Rich(z) = r
    BY <2>1, <2>2, <2>3
  <2> QED BY <2>4 DEF r
<1>4. LaidAt(w, z, i)
  BY <1>1, <1>2, <1>3 DEF LaidAt
<1> QED BY <1>4 DEF z, kind

LEMMA AddedFine ==
  ASSUME I!ItemsAssumption, NEW w, NEW i \in Stacks, Sound(w, {i}), NEW c, Open(w, c), NEW at,
         I!Added(w, c, at, i) # w
  PROVE  LaidAt(w, I!Added(w, c, at, i), i)
<1> DEFINE d == I!Destination(w, c, at, i)
           m == w.count[i]
           sp == I!Space(w, i, d.to)
           n == I!Min2(sp, m)
           z == I!Stacked(w, d, i, n)
<1>1. Offered(w, d)
  BY OfferedIs
<1>2. I!Added(w, c, at, i) = I!AddedAt(w, c, i, d)
  BY DEF I!Added
<1> HIDE DEF d
<1>3. I!AddedAt(w, c, i, d) # w
  BY <1>2
<1>4. I!QueryAdd(w, d.c, d.at, i, m) = "ok" /\ I!AddedAt(w, c, i, d) = z
  BY <1>3 DEF I!AddedAt
<1> HIDE DEF m
<1>a. m = w.count[i]
  BY DEF m
<1>5. Settles(w, {i}, i, w.what[i], m, n, d.to, d.c)
  BY <1>1, <1>4, <1>a, OfferFine
<1> HIDE DEF n
<1>6. n \in Nat
  BY <1>5 DEF Settles
<1>7. z = Settled(w, i, w.what[i], m, n, d.to, d.c)
  BY <1>5, <1>6, <1>a, StackedIs
<1> DEFINE to == d.to
           e == d.c
<1> HIDE DEF to, e
<1>8. Settles(w, {i}, i, w.what[i], m, n, to, e)
  BY <1>5 DEF to, e
<1>9. LaidAt(w, Settled(w, i, w.what[i], m, n, to, e), i)
  BY <1>8, <1>a, SettledLaid
<1> QED BY <1>2, <1>4, <1>7, <1>9 DEF to, e

LEMMA GivenFine ==
  ASSUME I!ItemsAssumption, NEW w, NEW i \in Stacks, Sound(w, {i}), I!Given(w, i) # w
  PROVE  LaidAt(w, I!Given(w, i), i)
<1> DEFINE takes == {s \in Slots : I!Held(w, s) \in Bags \cup {None} /\ I!Added(w, s, s, i) # w}
           free == {s \in takes : I!Held(w, s) = None}
           few == IF free # {} THEN free ELSE takes
           s == I!Least(few)
<1>1. I!Given(w, i) = IF takes = {} THEN I!Added(w, Ground, 0, i) ELSE I!Added(w, s, s, i)
  BY DEF I!Given, I!GivenFirst, I!Wherever
<1>2. takes \in SUBSET Slots /\ few \in SUBSET takes /\ (takes # {} => few # {})
  OBVIOUS
<1>3. \A t \in takes : Open(w, t)
  BY DEF Open
<1>4. Open(w, Ground)
  BY DEF Open
<1> HIDE DEF takes, few
<1>5. CASE takes = {}
  <2>1. I!Given(w, i) = I!Added(w, Ground, 0, i)
    BY <1>1, <1>5
  <2>2. I!Added(w, Ground, 0, i) # w
    BY <2>1
  <2>3. LaidAt(w, I!Added(w, Ground, 0, i), i)
    BY <1>4, <2>2, AddedFine
  <2> QED BY <2>1, <2>3
<1>6. CASE takes # {}
  <2>1. few \in SUBSET Nat
    BY <1>2, ItemsAssumed
  <2>2. s \in few
    BY <1>2, <1>6, <2>1, LeastIs
  <2> HIDE DEF s
  <2>3. Open(w, s)
    BY <1>2, <1>3, <2>2
  <2>4. I!Given(w, i) = I!Added(w, s, s, i)
    BY <1>1, <1>6
  <2>5. I!Added(w, s, s, i) # w
    BY <2>4
  <2>6. LaidAt(w, I!Added(w, s, s, i), i)
    BY <2>3, <2>5, AddedFine
  <2> QED BY <2>4, <2>6
<1> QED BY <1>5, <1>6

\* v is w with a new stack i in hand.
MadeOf(w, v, i, kind, k) ==
  /\ i \in Stacks /\ w.what[i] = "none" /\ Sound(v, {i}) /\ \A y \in Objs \ {i} : v.what[y] = w.what[y]
  /\ Rich(v) = Rich(w) + OneWorth(kind, k) /\ I!Worth(v, i) = OneWorth(kind, k)
  /\ \A F \in [Bags -> Int] : Weighed(w, F) => Weighed(v, F)

LEMMA MadeFine ==
  ASSUME I!ItemsAssumption, NEW w, Sound(w, {}), I!Unused(w) # {}, NEW kind, NEW k, Counts(kind, k)
  PROVE  MadeOf(w, I!Made(w, kind, k), I!Fresh(w), kind, k)
<1> DEFINE i == I!Fresh(w)
           v == I!Made(w, kind, k)
           u == CountedAs(w, i, kind, k)
<1>1. i \in Stacks /\ w.what[i] = "none"
  BY FreshIs
<1>2. w \in ItemWorlds /\ Real(w.what, w.count)
  BY DEF Sound
<1>3. v = Recounted(w, i, kind, k)
  BY DEF I!Made, Recounted
<1> HIDE DEF i, v
<1>4. w.parent[i] = Nowhere /\ w.count[i] = 0 /\ WorthAt(w, i) = 0 /\ i \in Objs
  BY <1>1, UnusedIs
<1>5. v = u
  BY <1>2, <1>3, CountedIs
<1>6. Sound(u, {i})
  <2> DEFINE hand == {}
             hold == {i}
  <2>1. Sound(w, hand) /\ hand \subseteq {i} /\ hold = {i}
    OBVIOUS
  <2> HIDE DEF hand, hold
  <2>2. (Counts(kind, k) /\ hold = {i}) \/ (kind = "none" /\ k = 0 /\ hold = {})
    BY <2>1
  <2>3. Sound(CountedAs(w, i, kind, k), hold)
    BY <1>1, <1>4, <2>1, <2>2, InHandSound
  <2> QED BY <2>3 DEF hold
<1>7. ASSUME NEW F \in [Bags -> Int], Weighed(w, F) PROVE Weighed(u, F)
  BY <1>1, <1>4, <1>7, InHandWeighed
<1>8. u.what = [w.what EXCEPT ![i] = kind] /\ u.count = [w.count EXCEPT ![i] = k]
  BY DEF CountedAs, WorldOf
<1> HIDE DEF u
<1>9. u \in ItemWorlds
  BY <1>6 DEF Sound
<1>10. w.what \in [Objs -> Kinds] /\ w.count \in [Objs -> Int]
  BY <1>2, WorldIs
<1>11. \A y \in Objs \ {i} : u.what[y] = w.what[y] /\ u.count[y] = w.count[y]
  BY <1>8, <1>10
<1>12. u.what[i] = kind /\ u.count[i] = k
  BY <1>4, <1>8, <1>10
<1>13. ButFor(w, u, i)
  BY <1>11 DEF ButFor, Objs
<1>14. Rich(u) = Rich(w) + (WorthAt(u, i) - WorthAt(w, i))
  BY <1>1, <1>2, <1>9, <1>13, RichChanged
<1>15. WorthAt(u, i) = OneWorth(kind, k) /\ I!Worth(u, i) = OneWorth(kind, k)
  BY <1>12, WorthIs DEF WorthAt
<1>16. Rich(u) = Rich(w) + OneWorth(kind, k)
  <2> DEFINE a == OneWorth(kind, k)
             r == Rich(w)
  <2>1. a \in Int /\ r \in Int
    BY <1>2, OneWorthAdds, RichNat DEF Counts
  <2>2. Rich(u) = r + (a - 0)
    BY <1>4, <1>14, <1>15
  <2> HIDE DEF a, r
  <2>3. Rich(u) = r + a
    BY <2>1, <2>2
  <2> QED BY <2>3 DEF a, r
<1>17. MadeOf(w, u, i, kind, k)
  BY <1>1, <1>6, <1>7, <1>11, <1>15, <1>16 DEF MadeOf
<1> QED BY <1>5, <1>17 DEF i, v

\* y is x, and m was added: it is there, or lost.
Handing(x, y, m, j) ==
  /\ Sound(y.w, {}) /\ y = [w |-> y.w, lost |-> y.lost] /\ y.lost \in Int
  /\ Rich(y.w) + y.lost = Rich(x.w) + x.lost + m
  /\ \A i \in Stacks \ {j} : y.w.what[i] = x.w.what[i]
  /\ \A F \in [Bags -> Int] : Weighed(x.w, F) => Weighed(y.w, F)

LEMMA HandedAsFine ==
  ASSUME I!ItemsAssumption, NEW x, x = [w |-> x.w, lost |-> x.lost], x.lost \in Int, Sound(x.w, {}),
         NEW kind, NEW k, NEW v, NEW i, MadeOf(x.w, v, i, kind, k), OneWorth(kind, k) \in Int
  PROVE  Handing(x, I!HandedAs(x, v, i), OneWorth(kind, k), i)
<1> DEFINE m == OneWorth(kind, k)
           to == I!OrDropped(v, i, I!Added(v, Player, 0, i))
           y == I!HandedAs(x, v, i)
           w == x.w
<1>1. /\ i \in Stacks /\ Sound(v, {i}) /\ \A j \in Objs \ {i} : v.what[j] = w.what[j]
      /\ Rich(v) = Rich(w) + m /\ I!Worth(v, i) = m
      /\ \A F \in [Bags -> Int] : Weighed(w, F) => Weighed(v, F)
  BY DEF MadeOf
<1>2. Open(v, Player) /\ Open(v, Ground)
  BY DEF Open
<1>3. to # v => LaidAt(v, to, i)
  <2> DEFINE one == I!Added(v, Player, 0, i)
             two == I!Added(v, Ground, 0, i)
  <2>1. one # v => LaidAt(v, one, i)
    BY <1>1, <1>2, AddedFine
  <2>2. two # v => LaidAt(v, two, i)
    BY <1>1, <1>2, AddedFine
  <2>3. to = IF one = v THEN two ELSE one
    BY DEF I!OrDropped, I!Wherever
  <2> HIDE DEF one, two, to
  <2> QED BY <2>1, <2>2, <2>3
<1>4. y = IF to = v THEN [x EXCEPT !.lost = @ + I!Worth(v, i)] ELSE [x EXCEPT !.w = to]
  BY DEF I!HandedAs, I!HandedOver, I!Wherever
<1>5. w \in ItemWorlds /\ Rich(w) \in Int
  <2>1. w \in ItemWorlds
    BY DEF Sound
  <2> QED BY <2>1, RichNat
<1> HIDE DEF m, to, y, w
<1>a. m \in Int /\ x = [w |-> w, lost |-> x.lost] /\ w = x.w /\ Sound(w, {})
  BY DEF m, w
<1>6. CASE to = v
  <2>1. y = [x EXCEPT !.lost = x.lost + m]
    BY <1>1, <1>4, <1>6
  <2>2. y.w = w /\ y.lost = x.lost + m /\ y = [w |-> y.w, lost |-> y.lost]
    BY <1>a, <2>1
  <2> DEFINE r == Rich(w)
             l == x.lost
  <2>3. r + (l + m) = r + l + m /\ l + m \in Int
    <3>1. r \in Int /\ l \in Int
      BY <1>5
    <3> HIDE DEF r, l
    <3> QED BY <1>a, <3>1
  <2>4. Handing(x, y, m, i)
    BY <1>a, <2>2, <2>3 DEF Handing
  <2> QED BY <2>4 DEF y, m
<1>7. CASE to # v
  <2>1. y.w = to /\ y.lost = x.lost /\ y = [w |-> y.w, lost |-> y.lost]
    BY <1>a, <1>4, <1>7
  <2>2. /\ Sound(to, {}) /\ Rich(to) = Rich(v) /\ \A j \in Objs \ {i} : to.what[j] = v.what[j]
        /\ \A F \in [Bags -> Int] : Weighed(v, F) => Weighed(to, F)
    BY <1>3, <1>7 DEF LaidAt
  <2> DEFINE r == Rich(w)
             l == x.lost
  <2>3. r + m + l = r + l + m
    <3>1. r \in Int /\ l \in Int
      BY <1>5
    <3> HIDE DEF r, l
    <3> QED BY <1>a, <3>1
  <2>4. Rich(to) + y.lost = r + m + l
    BY <1>1, <2>1, <2>2
  <2>5. \A j \in Stacks \ {i} : to.what[j] = w.what[j]
    BY <1>1, <2>2 DEF Objs
  <2>6. Handing(x, y, m, i)
    BY <1>1, <1>a, <2>1, <2>2, <2>3, <2>4, <2>5 DEF Handing
  <2> QED BY <2>6 DEF y, m
<1> QED BY <1>6, <1>7

LEMMA HandedFine ==
  ASSUME I!ItemsAssumption, NEW x, x = [w |-> x.w, lost |-> x.lost], x.lost \in Int, Sound(x.w, {}),
         NEW kind \in {"gold", "platinum"}, NEW k \in 0 .. Full, k # 0 => I!Unused(x.w) # {}
  PROVE  /\ \E j : Handing(x, I!Handed(x, kind, k), OneWorth(kind, k), j)
         /\ k = 0 => I!Handed(x, kind, k) = x
<1> DEFINE y == I!Handed(x, kind, k)
           m == OneWorth(kind, k)
<1>0. Full \in Nat \ {0} /\ k \in Int
  BY ItemsAssumed
<1>1. m \in Int
  BY <1>0, OneWorthAdds
<1>2. CASE k = 0
  <2>1. y = x /\ m = 0
    BY <1>0, <1>2 DEF I!Handed, OneWorth
  <2>2. Rich(x.w) \in Int
    BY RichNat DEF Sound
  <2> DEFINE r == Rich(x.w)
             l == x.lost
  <2>3. r + l = r + l + 0
    <3>1. r \in Int /\ l \in Int
      BY <2>2
    <3> HIDE DEF r, l
    <3> QED BY <3>1
  <2> HIDE DEF y, m
  <2>4. Handing(x, y, m, 0)
    BY <2>1, <2>3 DEF Handing
  <2> QED BY <2>1, <2>4 DEF y, m
<1>3. CASE k # 0
  <2> DEFINE v == I!Made(x.w, kind, k)
             i == I!Fresh(x.w)
             w == x.w
  <2>1. y = I!HandedAs(x, v, i)
    BY <1>3 DEF I!Handed
  <2>2. Counts(kind, k)
    BY <1>0, <1>3 DEF Counts
  <2>3. MadeOf(w, v, i, kind, k)
    <3>1. I!Unused(w) # {}
      BY <1>3
    <3>2. Sound(w, {})
      OBVIOUS
    <3> HIDE DEF w
    <3>3. MadeOf(w, I!Made(w, kind, k), I!Fresh(w), kind, k)
      BY <2>2, <3>1, <3>2, MadeFine
    <3> QED BY <3>3 DEF w
  <2> HIDE DEF v, i, y
  <2>4. Handing(x, I!HandedAs(x, v, i), OneWorth(kind, k), i)
    BY <1>1, <2>3, HandedAsFine
  <2>5. Handing(x, y, m, i)
    BY <2>1, <2>4
  <2> QED BY <1>3, <2>5 DEF y
<1> QED BY <1>2, <1>3

LEMMA DivIs ==
  ASSUME NEW n \in Nat \ {0}, NEW a \in Nat
  PROVE  a = (a % n) + ((a \div n) * n) /\ a % n \in 0 .. n - 1 /\ a \div n \in Nat
<1>1. a \div n \in Int /\ a % n \in 0 .. n - 1
  OBVIOUS
<1>2. a = n * (a \div n) + (a % n)
  OBVIOUS
<1>3. a \div n \in Nat
  OBVIOUS
<1> QED BY <1>1, <1>2, <1>3

LEMMA TimesNat == ASSUME NEW a \in Nat, NEW b \in Nat PROVE a * b \in Nat
OBVIOUS

\* At most as many platinum coins as make a stack.
LEMMA FewPlatinum ==
  ASSUME NEW n \in Nat \ {0}, NEW a \in Nat, NEW q \in Nat, NEW r \in Nat, a = r + (q * n), a < n * (n + 1)
  PROVE  q <= n
<1> SUFFICES ASSUME q > n PROVE FALSE
  OBVIOUS
<1> DEFINE e == q - (n + 1)
<1>1. e \in Nat /\ q = (n + 1) + e
  OBVIOUS
<1> HIDE DEF e
<1>2. q * n = ((n + 1) * n) + (e * n)
  BY <1>1
<1>3. e * n \in Nat /\ (n + 1) * n = n * (n + 1) /\ n * (n + 1) \in Nat
  BY <1>1, TimesNat
<1> DEFINE b == e * n
           c == n * (n + 1)
<1>4. b \in Nat /\ c \in Nat /\ a = r + (c + b) /\ a < c
  BY <1>2, <1>3
<1> HIDE DEF b, c
<1> QED BY <1>4

\* x is w, and m was added: it is there, or lost.
AddsMoney(w, x, m) ==
  /\ Sound(x.w, {}) /\ x = [w |-> x.w, lost |-> x.lost] /\ x.lost \in Int
  /\ Rich(x.w) + x.lost = Rich(w) + m
  /\ \A F \in [Bags -> Int] : Weighed(w, F) => Weighed(x.w, F)

LEMMA AddMoneyFine ==
  ASSUME I!ItemsAssumption, NEW w, Sound(w, {}), NEW m \in Nat, m < Full * (Full + 1), I!Unused(w) # {},
         m >= Full => \A j : I!Unused(w) \ {j} # {}
  PROVE  AddsMoney(w, I!AddMoney(w, m), m)
<1> DEFINE r == m % Full
           q == m \div Full
           x == [w |-> w, lost |-> 0]
           y == I!Handed(x, "gold", r)
           z == I!Handed(y, "platinum", q)
           a == OneWorth("gold", r)
           b == OneWorth("platinum", q)
<1>0. Full \in Nat \ {0}
  BY ItemsAssumed
<1>1. m = r + (q * Full) /\ r \in 0 .. Full - 1 /\ q \in Nat
  BY <1>0, DivIs
<1>2. z = I!AddMoney(w, m)
  BY DEF I!AddMoney
<1>3. a = r /\ b = q * Full
  BY DEF OneWorth
<1> HIDE DEF r, q
<1>4. q \in 0 .. Full /\ r \in 0 .. Full /\ (m < Full => q = 0)
  <2>1. q <= Full
    BY <1>0, <1>1, FewPlatinum
  <2>2. ASSUME q # 0 PROVE m >= Full
    <3> DEFINE e == q - 1
    <3>1. e \in Nat /\ q = e + 1
      BY <1>1, <2>2
    <3> HIDE DEF e
    <3>2. q * Full = (e * Full) + Full /\ e * Full \in Nat
      BY <1>0, <3>1, TimesNat
    <3> DEFINE g == e * Full
    <3>3. g \in Nat /\ m = r + (g + Full)
      BY <1>1, <3>2
    <3> HIDE DEF g
    <3> QED BY <1>0, <1>1, <3>3
  <2> QED BY <1>0, <1>1, <2>1, <2>2
<1>5. x.w = w /\ x.lost = 0 /\ x = [w |-> x.w, lost |-> x.lost] /\ Sound(x.w, {}) /\ x.lost \in Int
  OBVIOUS
<1> HIDE DEF x
<1>6. (\E j : Handing(x, y, a, j)) /\ (r = 0 => y = x)
  BY <1>4, <1>5, HandedFine
<1>7. PICK j : Handing(x, y, a, j)
  BY <1>6
<1> HIDE DEF y, a
<1>8. /\ Sound(y.w, {}) /\ y = [w |-> y.w, lost |-> y.lost] /\ y.lost \in Int
      /\ Rich(y.w) + y.lost = Rich(w) + 0 + a
      /\ \A i \in Stacks \ {j} : y.w.what[i] = w.what[i]
      /\ \A F \in [Bags -> Int] : Weighed(w, F) => Weighed(y.w, F)
  BY <1>5, <1>7 DEF Handing
<1>9. q # 0 => I!Unused(y.w) # {}
  <2> SUFFICES ASSUME q # 0 PROVE I!Unused(y.w) # {}
    OBVIOUS
  <2>1. m >= Full
    BY <1>0, <1>4
  <2>2. PICK i \in I!Unused(w) : i # j
    BY <2>1
  <2>3. i \in Stacks /\ w.what[i] = "none"
    BY DEF I!Unused, I!Exists
  <2>4. y.w.what[i] = "none"
    BY <1>8, <2>2, <2>3
  <2> QED BY <2>3, <2>4 DEF I!Unused, I!Exists
<1>10. \E l : Handing(y, z, b, l)
  BY <1>4, <1>8, <1>9, HandedFine
<1>11. PICK l : Handing(y, z, b, l)
  BY <1>10
<1> HIDE DEF z, b
<1>12. /\ Sound(z.w, {}) /\ z = [w |-> z.w, lost |-> z.lost] /\ z.lost \in Int
       /\ Rich(z.w) + z.lost = Rich(y.w) + y.lost + b
       /\ \A F \in [Bags -> Int] : Weighed(y.w, F) => Weighed(z.w, F)
  BY <1>11 DEF Handing
<1>13. Rich(z.w) + z.lost = Rich(w) + m
  <2>1. Rich(w) \in Int /\ Rich(y.w) \in Int /\ Rich(z.w) \in Int
    <3>1. w \in ItemWorlds /\ y.w \in ItemWorlds /\ z.w \in ItemWorlds
      BY <1>8, <1>12 DEF Sound
    <3> QED BY <3>1, RichNat
  <2>2. b \in Int /\ a \in Int /\ m = a + b
    <3>1. q * Full \in Nat
      BY <1>0, <1>1, TimesNat
    <3> QED BY <1>1, <1>3, <3>1
  <2> DEFINE rw == Rich(w)
             ry == Rich(y.w)
             rz == Rich(z.w)
             ly == y.lost
             lz == z.lost
  <2>3. rw \in Int /\ ry \in Int /\ rz \in Int /\ ly \in Int /\ lz \in Int /\ ry + ly = rw + 0 + a /\ rz + lz = ry + ly + b
    BY <1>8, <1>12, <2>1
  <2> HIDE DEF rw, ry, rz, ly, lz
  <2>4. rz + lz = rw + m
    BY <2>2, <2>3
  <2> QED BY <2>4 DEF rw, rz, lz
<1>14. AddsMoney(w, z, m)
  BY <1>8, <1>12, <1>13 DEF AddsMoney
<1> QED BY <1>2, <1>14 DEF z

\* z is w with k coins less in the stack i, or without it.
AwayFrom(w, z, i, k) ==
  /\ Sound(z, {}) /\ Rich(z) = Rich(w) - OneWorth(w.what[i], k) /\ ButFor(w, z, i)
  /\ k = w.count[i] => z.what[i] = "none"
  /\ \A F \in [Bags -> Int] : Weighed(w, F) => Weighed(z, F)

LEMMA TakeAwayFine ==
  ASSUME I!ItemsAssumption, NEW w, NEW i \in Stacks, LiesSomewhere(w, i), NEW k \in 1 .. w.count[i]
  PROVE  AwayFrom(w, I!TakeAway(w, i, k), i, k)
<1> DEFINE t == I!Take(w, i, k)
           z == I!TakeAway(w, i, k)
           kind == w.what[i]
<1>0. w \in ItemWorlds /\ w.parent[i] \in Cyls /\ i \in Objs /\ Nowhere \notin Cyls
      /\ w.count \in [Objs -> Int] /\ w.what \in [Objs -> Kinds]
      /\ w.parent \in [Objs -> Cyls \cup {Nowhere}]
  <2>1. w \in ItemWorlds /\ w.parent[i] \in Cyls /\ i \in Objs
    BY LyingIs DEF LiesSomewhere
  <2> QED BY <2>1, WorldIs, Apart
<1>1. z = IF t.parent[i] = Nowhere THEN I!Vanish(t, i) ELSE t
  BY DEF I!TakeAway
<1>2. CASE k # w.count[i]
  <2>1. k \in 1 .. w.count[i] - 1
    BY <1>0, <1>2
  <2>2. PartTaken(w, t, i, k)
    BY <2>1, TakePart
  <2>3. ASSUME NEW F \in [Bags -> Int], Weighed(w, F) PROVE Weighed(t, F)
    BY <2>1, <2>3, PartWeighed
  <2> HIDE DEF t, z
  <2>4. /\ Sound(t, {}) /\ t.what = w.what /\ t.parent = w.parent
        /\ (\A y \in Stacks \ {i} : t.count[y] = w.count[y])
        /\ Rich(t) = Rich(w) - OneWorth(w.what[i], k)
    BY <2>2 DEF PartTaken
  <2>5. z = t
    BY <1>0, <1>1, <2>4
  <2>6. ButFor(w, t, i)
    BY <2>4 DEF ButFor
  <2>7. AwayFrom(w, t, i, k)
    BY <1>2, <2>3, <2>4, <2>6 DEF AwayFrom
  <2> QED BY <2>5, <2>7 DEF z
<1>3. CASE k = w.count[i]
  <2>1. Whole(w, i, k)
    BY <1>3 DEF Whole
  <2>2. Taken(w, t, i)
    BY <2>1, TakeSound
  <2>3. ASSUME NEW F \in [Bags -> Int], Weighed(w, F) PROVE Weighed(t, F)
    <3>1. Tells(w, F, i)
      BY <1>0, StackTells
    <3> QED BY <2>1, <2>3, <3>1, TakeWeighed
  <2> HIDE DEF t, z
  <2>4. Sound(t, {i}) /\ t.what = w.what /\ t.count = w.count /\ t.parent = [w.parent EXCEPT ![i] = Nowhere]
    BY <2>2 DEF Taken
  <2>5. t.parent[i] = Nowhere /\ t \in ItemWorlds
    BY <1>0, <2>4 DEF Sound
  <2> DEFINE u == CountedAs(t, i, "none", 0)
  <2>6. z = u
    BY <1>1, <2>5, VanishIs
  <2>7. Sound(u, {})
    <3> DEFINE hand == {i}
               hold == {}
    <3>1. Sound(t, hand) /\ hand \subseteq {i} /\ hold = {}
      BY <2>4
    <3> HIDE DEF hand, hold
    <3> DEFINE none == "none"
               n == 0
    <3>2. none = "none" /\ n = 0
      OBVIOUS
    <3> HIDE DEF none, n
    <3>3. (Counts(none, n) /\ hold = {i}) \/ (none = "none" /\ n = 0 /\ hold = {})
      BY <3>1, <3>2
    <3>4. Sound(CountedAs(t, i, none, n), hold)
      BY <2>5, <3>1, <3>3, InHandSound
    <3> QED BY <3>4 DEF hold, none, n
  <2>8. ASSUME NEW F \in [Bags -> Int], Weighed(w, F) PROVE Weighed(u, F)
    <3>1. Weighed(t, F)
      BY <2>3, <2>8
    <3> QED BY <2>4, <2>5, <3>1, InHandWeighed
  <2>9. u.what = [t.what EXCEPT ![i] = "none"] /\ u.count = [t.count EXCEPT ![i] = 0]
    BY DEF CountedAs, WorldOf
  <2> HIDE DEF u
  <2>10. u.what[i] = "none" /\ u.count[i] = 0 /\ \A y \in Objs \ {i} : u.what[y] = w.what[y] /\ u.count[y] = w.count[y]
    BY <1>0, <2>4, <2>9
  <2>11. ButFor(w, u, i)
    BY <2>10 DEF ButFor, Objs
  <2>12. u \in ItemWorlds
    BY <2>7 DEF Sound
  <2>13. Rich(u) = Rich(w) + (WorthAt(u, i) - WorthAt(w, i))
    BY <1>0, <2>11, <2>12, RichChanged
  <2>14. WorthAt(u, i) = 0 /\ WorthAt(w, i) = OneWorth(kind, k)
    BY <1>3, <2>10 DEF WorthAt, OneWorth
  <2>15. Rich(u) = Rich(w) - OneWorth(kind, k)
    <3> DEFINE a == OneWorth(kind, k)
               r == Rich(w)
    <3>1. r \in Int /\ a \in Int
      <4>1. OneWorth(w.what[i], w.count[i]) \in Int
        BY <1>0, RichNat
      <4> QED BY <1>0, <1>3, <4>1, RichNat
    <3>2. Rich(u) = r + (0 - a)
      BY <2>13, <2>14
    <3> HIDE DEF a, r
    <3>3. Rich(u) = r - a
      BY <3>1, <3>2
    <3> QED BY <3>3 DEF a, r
  <2>16. AwayFrom(w, u, i, k)
    BY <2>7, <2>8, <2>10, <2>11, <2>15 DEF AwayFrom
  <2> QED BY <2>6, <2>16 DEF z
<1> QED BY <1>2, <1>3

\* While m is paid from the world w: x is what became of it.
Pays(w, m, x) ==
  /\ x = [w |-> x.w, lost |-> x.lost, left |-> x.left] /\ Sound(x.w, {}) /\ x.lost \in Int /\ x.left \in Nat
  /\ Rich(x.w) + x.lost = Rich(w) - m + x.left
  /\ x.left > 0 => x.lost = 0 /\ I!Unused(x.w) # {}
  /\ \A F \in [Bags -> Int] : Weighed(w, F) => Weighed(x.w, F)
\* The stacks in R are as they were, and worth what is left to pay.
Owes(w, x, R) ==
  x.left > 0 => /\ \A i \in R : x.w.what[i] = w.what[i] /\ x.w.count[i] = w.count[i]
                /\ x.left <= SumOver(WorthIn(w.what, w.count), R)

\* A stack of n that are worth one each: so many of it are enough, and not too many.
LEMMA CeilIs ==
  ASSUME NEW n \in Nat \ {0}, NEW one \in Nat \ {0}, NEW left \in Nat \ {0}, left < n * one
  PROVE  /\ I!Ceil(left, one) \in 1 .. n
         /\ (one * I!Ceil(left, one)) - left \in 0 .. one - 1
<1> DEFINE a == (left + one) - 1
           k == I!Ceil(left, one)
           p == k * one
           r == a % one
<1>1. a \in Nat /\ k = a \div one
  BY DEF I!Ceil
<1> HIDE DEF a
<1>2. a = r + p /\ r \in 0 .. one - 1 /\ k \in Nat
  BY <1>1, DivIs
<1> HIDE DEF k, r
<1>3. p = one * k
  BY <1>2
<1>a. p \in Nat
  BY <1>2, TimesNat
<1>4. p - left \in 0 .. one - 1 /\ p # 0
  <2> HIDE DEF p
  <2>1. (left + one) - 1 = r + p
    BY <1>2 DEF a
  <2> QED BY <1>2, <1>a, <2>1
<1>5. k # 0
  <2> SUFFICES ASSUME k = 0 PROVE FALSE
    OBVIOUS
  <2>1. k * one = 0
    OBVIOUS
  <2> QED BY <1>4, <2>1
<1>6. k <= n
  <2> SUFFICES ASSUME k > n PROVE FALSE
    BY <1>2
  <2> DEFINE e == k - (n + 1)
  <2>1. e \in Nat /\ k = (n + 1) + e
    BY <1>2
  <2> HIDE DEF e
  <2>2. p = ((n * one) + one) + (e * one)
    BY <2>1
  <2>3. e * one \in Nat /\ n * one \in Nat
    BY <2>1, TimesNat
  <2> DEFINE b == e * one
             c == n * one
  <2>4. b \in Nat /\ c \in Nat /\ left < c /\ p = (c + one) + b
    BY <2>2, <2>3
  <2> HIDE DEF b, c, p
  <2> QED BY <1>4, <2>4
<1>7. k \in 1 .. n
  BY <1>2, <1>5, <1>6
<1>8. (one * k) - left \in 0 .. one - 1
  BY <1>3, <1>4
<1> QED BY <1>7, <1>8 DEF k

LEMMA OneCoin ==
  ASSUME I!ItemsAssumption, NEW kind \in {"gold", "platinum"}, NEW n \in Nat \ {0}
  PROVE  LET one == OneWorth(kind, n) \div n
         IN /\ one \in 1 .. Full /\ \A k \in Nat : OneWorth(kind, k) = k * one
<1> DEFINE one == OneWorth(kind, n) \div n
<1>0. Full \in Nat \ {0}
  BY ItemsAssumed
<1>1. CASE kind = "gold"
  <2>1. OneWorth(kind, n) = n
    BY <1>1 DEF OneWorth
  <2>2. n \div n = 1
    <3>1. n = (n % n) + ((n \div n) * n) /\ n % n \in 0 .. n - 1 /\ n \div n \in Nat
      BY DivIs
    <3> DEFINE q == n \div n
               r == n % n
    <3>2. n = r + (q * n) /\ r \in 0 .. n - 1 /\ q \in Nat
      BY <3>1
    <3> HIDE DEF q, r
    <3>3. q # 0
      <4> SUFFICES ASSUME q = 0 PROVE FALSE
        OBVIOUS
      <4>1. q * n = 0
        OBVIOUS
      <4> QED BY <3>2, <4>1
    <3> DEFINE e == q - 1
    <3>4. e \in Nat /\ q = e + 1
      BY <3>2, <3>3
    <3> HIDE DEF e
    <3>5. q * n = (e * n) + n /\ e * n \in Nat
      BY <3>4, TimesNat
    <3>6. e * n = 0
      <4> DEFINE b == e * n
      <4>1. b \in Nat /\ n = r + (b + n)
        BY <3>2, <3>5
      <4> HIDE DEF b
      <4>2. b = 0
        BY <3>2, <4>1
      <4> QED BY <4>2 DEF b
    <3>7. e = 0
      <4> SUFFICES ASSUME e # 0 PROVE FALSE
        OBVIOUS
      <4> DEFINE g == e - 1
      <4>1. g \in Nat /\ e = g + 1
        BY <3>4
      <4> HIDE DEF g
      <4>2. e * n = (g * n) + n /\ g * n \in Nat
        BY <4>1, TimesNat
      <4> DEFINE b == g * n
      <4>3. b \in Nat /\ 0 = b + n
        BY <3>6, <4>2
      <4> HIDE DEF b
      <4> QED BY <4>3
    <3>8. q = 1
      BY <3>4, <3>7
    <3> QED BY <3>8 DEF q
  <2>3. one = 1
    BY <2>1, <2>2
  <2> HIDE DEF one
  <2>4. \A k \in Nat : OneWorth(kind, k) = k * one
    BY <1>1, <2>3 DEF OneWorth
  <2> QED BY <1>0, <2>3, <2>4 DEF one
<1>2. CASE kind = "platinum"
  <2>1. OneWorth(kind, n) = n * Full
    BY <1>2 DEF OneWorth
  <2> DEFINE a == n * Full
  <2>2. a \in Nat
    BY <1>0, TimesNat
  <2> DEFINE q == a \div n
             r == a % n
  <2>3. one = q
    BY <2>1
  <2>4. q = Full
    <3>1. a = r + (q * n) /\ r \in 0 .. n - 1 /\ q \in Nat
      <4> HIDE DEF a
      <4> QED BY <2>2, DivIs
    <3> HIDE DEF q, r
    <3>2. ~(q < Full)
      <4> SUFFICES ASSUME q < Full PROVE FALSE
        OBVIOUS
      <4> DEFINE e == Full - (q + 1)
      <4>1. e \in Nat /\ Full = (q + 1) + e
        BY <1>0, <3>1
      <4> HIDE DEF e
      <4>2. a = ((q * n) + n) + (e * n) /\ e * n \in Nat /\ q * n \in Nat
        BY <3>1, <4>1, TimesNat
      <4> DEFINE b == e * n
                 c == q * n
      <4>3. b \in Nat /\ c \in Nat /\ a = (c + n) + b /\ a = r + c
        BY <3>1, <4>2
      <4> HIDE DEF a, b, c
      <4> QED BY <2>2, <3>1, <4>3
    <3>3. ~(q > Full)
      <4> SUFFICES ASSUME q > Full PROVE FALSE
        OBVIOUS
      <4> DEFINE e == q - (Full + 1)
      <4>1. e \in Nat /\ q = (Full + 1) + e
        BY <1>0, <3>1
      <4> HIDE DEF e
      <4>2. q * n = (a + n) + (e * n) /\ e * n \in Nat
        BY <1>0, <4>1, TimesNat
      <4> DEFINE b == e * n
                 c == q * n
      <4>3. b \in Nat /\ c = (a + n) + b /\ a = r + c
        BY <3>1, <4>2
      <4> HIDE DEF a, b, c
      <4> QED BY <2>2, <3>1, <4>3
    <3> QED BY <1>0, <3>1, <3>2, <3>3
  <2>5. one = Full
    BY <2>3, <2>4
  <2> HIDE DEF one
  <2>6. \A k \in Nat : OneWorth(kind, k) = k * one
    BY <1>2, <2>5 DEF OneWorth
  <2> QED BY <1>0, <2>5, <2>6 DEF one
<1> QED BY <1>1, <1>2

Change0(w, i, left) == LiesSomewhere(w, i) /\ i \in Stacks /\ I!Unused(w) # {} /\ left \in Nat \ {0} /\ left < WorthAt(w, i)

GaveChange(w, y, left) ==
  /\ Sound(y.w, {}) /\ y = [w |-> y.w, lost |-> y.lost] /\ y.lost \in Int
  /\ Rich(y.w) + y.lost = Rich(w) - left
  /\ \A F \in [Bags -> Int] : Weighed(w, F) => Weighed(y.w, F)

\* Of a stack worth more than is left a part is taken, and change given.
LEMMA GivesChange ==
  ASSUME I!ItemsAssumption, NEW w, NEW i, NEW left, Change0(w, i, left), NEW one, one = I!Worth(w, i) \div w.count[i],
         NEW k, k = I!Ceil(left, one)
  PROVE  GaveChange(w, I!AddMoney(I!TakeAway(w, i, k), (one * k) - left), left)
<1> DEFINE kind == w.what[i]
           n == w.count[i]
           t == I!TakeAway(w, i, k)
           back == (one * k) - left
           y == I!AddMoney(t, back)
<1>0. /\ LiesSomewhere(w, i) /\ i \in Stacks /\ left \in Nat \ {0} /\ left < OneWorth(kind, n) /\ I!Unused(w) # {}
      /\ w \in ItemWorlds /\ Full \in Nat \ {0}
  BY ItemsAssumed DEF Change0, WorthAt, LiesSomewhere, Sound
<1>1. kind \in {"gold", "platinum"} /\ n \in Nat \ {0} /\ kind # "none"
  <2>1. Real(w.what, w.count) /\ kind # "none"
    BY <1>0 DEF LiesSomewhere, Sound
  <2>2. kind \in {"none", "gold", "platinum"} /\ n \in 0 .. Full /\ (kind = "none" <=> n = 0)
    BY <1>0, <2>1 DEF Real
  <2> QED BY <1>0, <2>1, <2>2
<1>2. one = OneWorth(kind, n) \div n
  BY WorthIs
<1> HIDE DEF kind, n
<1>3. one \in 1 .. Full /\ \A j \in Nat : OneWorth(kind, j) = j * one
  <2> DEFINE u == OneWorth(kind, n) \div n
  <2>1. u \in 1 .. Full /\ \A j \in Nat : OneWorth(kind, j) = j * u
    BY <1>1, OneCoin
  <2>2. one = u
    BY <1>2
  <2> HIDE DEF u
  <2> QED BY <2>1, <2>2
<1>4. k \in 1 .. n /\ back \in 0 .. one - 1
  <2>1. one \in Nat \ {0}
    BY <1>0, <1>3
  <2>2. left < n * one
    BY <1>0, <1>1, <1>3
  <2>3. /\ I!Ceil(left, one) \in 1 .. n
        /\ (one * I!Ceil(left, one)) - left \in 0 .. one - 1
    BY <1>0, <1>1, <2>1, <2>2, CeilIs
  <2> QED BY <2>3
<1>5. AwayFrom(w, t, i, k)
  <2>1. k \in 1 .. w.count[i]
    BY <1>4 DEF n
  <2> QED BY <1>0, <2>1, TakeAwayFine
<1>6. OneWorth(kind, k) = one * k /\ one * k \in Nat
  <2>1. k \in Nat /\ one \in Nat
    BY <1>0, <1>1, <1>3, <1>4
  <2> QED BY <1>3, <2>1, TimesNat
<1> HIDE DEF t
<1>7. /\ Sound(t, {}) /\ Rich(t) = Rich(w) - OneWorth(kind, k) /\ ButFor(w, t, i)
      /\ \A F \in [Bags -> Int] : Weighed(w, F) => Weighed(t, F)
  BY <1>5 DEF AwayFrom, kind
<1>8. I!Unused(t) # {}
  <2>1. PICK j \in I!Unused(w) : TRUE
    BY <1>0
  <2>2. j \in Stacks /\ w.what[j] = "none" /\ j # i
    BY <1>1 DEF I!Unused, I!Exists, kind
  <2>3. t.what[j] = "none"
    BY <1>7, <2>2 DEF ButFor
  <2> QED BY <2>2, <2>3 DEF I!Unused, I!Exists
<1> DEFINE b == back
<1>9. b \in Nat /\ b < Full
  BY <1>0, <1>3, <1>4
<1>10. y = I!AddMoney(t, b)
  OBVIOUS
<1>11. b = (one * k) - left
  OBVIOUS
<1> HIDE DEF b, y
<1>12. b < Full * (Full + 1)
  <2>1. Full * (Full + 1) = (Full * Full) + Full /\ Full * Full \in Nat
    BY <1>0, TimesNat
  <2> DEFINE c == Full * Full
  <2>2. c \in Nat /\ b < c + Full
    BY <1>0, <1>9, <2>1
  <2> HIDE DEF c
  <2>3. b < c + Full
    BY <2>2
  <2> QED BY <2>1, <2>3 DEF c
<1>13. AddsMoney(t, I!AddMoney(t, b), b)
  <2>1. b >= Full => \A j : I!Unused(t) \ {j} # {}
    BY <1>0, <1>9
  <2> QED BY <1>7, <1>8, <1>9, <1>12, <2>1, AddMoneyFine
<1>14. /\ Sound(y.w, {}) /\ y = [w |-> y.w, lost |-> y.lost] /\ y.lost \in Int
       /\ Rich(y.w) + y.lost = Rich(t) + b
       /\ \A F \in [Bags -> Int] : Weighed(t, F) => Weighed(y.w, F)
  BY <1>10, <1>13 DEF AddsMoney
<1>15. Rich(y.w) + y.lost = Rich(w) - left
  <2> DEFINE r == Rich(w)
             q == Rich(t)
             p == one * k
             v == Rich(y.w) + y.lost
  <2>1. r \in Int /\ p \in Nat /\ q = r - p /\ b = p - left /\ v = q + b
    <3>1. r \in Int
      BY <1>0, RichNat
    <3> QED BY <1>6, <1>7, <1>11, <1>14, <3>1
  <2> HIDE DEF r, q, p, v
  <2>2. v = r - left
    BY <1>0, <2>1
  <2> QED BY <2>2 DEF v, r
<1>16. GaveChange(w, y, left)
  BY <1>7, <1>14, <1>15 DEF GaveChange
<1> QED BY <1>16 DEF y, b, t

\* i is the next stack to pay from, and those in R come after it.
NextOf(w, x, R, i) ==
  /\ w \in ItemWorlds /\ R \in SUBSET Stacks /\ i \in Stacks \ R /\ w.what[i] # "none"
  /\ Owes(w, x, R \cup {i}) /\ x.left > 0

LEMMA NextIs ==
  ASSUME I!ItemsAssumption, NEW w, NEW m, NEW x, NEW R, NEW i, Pays(w, m, x), NextOf(w, x, R, i)
  PROVE  /\ LiesSomewhere(x.w, i) /\ x.w.count[i] \in Nat \ {0} /\ x.lost = 0 /\ I!Unused(x.w) # {} /\ x.w \in ItemWorlds
         /\ I!Worth(x.w, i) = WorthAt(x.w, i) /\ WorthAt(x.w, i) \in Nat
         /\ x.left <= WorthAt(x.w, i) + SumOver(WorthIn(w.what, w.count), R)
         /\ SumOver(WorthIn(w.what, w.count), R) \in Int
<1> DEFINE tab == WorthIn(w.what, w.count)
           v == x.w
<1>1. /\ w \in ItemWorlds /\ R \in SUBSET Stacks /\ i \in Stacks /\ i \notin R /\ w.what[i] # "none" /\ x.left > 0
      /\ \A j \in R \cup {i} : v.what[j] = w.what[j] /\ v.count[j] = w.count[j]
      /\ x.left <= SumOver(tab, R \cup {i})
  BY DEF NextOf, Owes
<1>2. Sound(v, {}) /\ x.lost = 0 /\ I!Unused(v) # {}
  BY <1>1 DEF Pays
<1>3. v.what[i] # "none" /\ v \in ItemWorlds /\ Real(v.what, v.count) /\ i \in Objs
  BY <1>1, <1>2 DEF Sound, Objs
<1>4. LiesSomewhere(v, i)
  BY <1>2, <1>3 DEF LiesSomewhere
<1>5. v.count[i] \in Nat \ {0}
  <2>1. v.count[i] \in 0 .. Full /\ v.count[i] # 0
    BY <1>1, <1>3 DEF Real
  <2> QED BY <2>1, ItemsAssumed
<1>6. I!Worth(v, i) = WorthAt(v, i)
  BY WorthIs DEF WorthAt
<1>7. WorthAt(v, i) \in Nat
  BY <1>1, <1>3, RichNat DEF WorthAt
<1>8. SumOver(tab, R \cup {i}) = tab[i] + SumOver(tab, R) /\ SumOver(tab, R) \in Int
  <2>1. \A j \in Stacks : tab[j] \in Int
    BY <1>1, RichNat
  <2>2. IsFiniteSet(R)
    BY <1>1, ItemsAssumed, FS_Subset
  <2> HIDE DEF tab
  <2>3. \A j \in R \cup {i} : tab[j] \in Int
    BY <1>1, <2>1
  <2> QED BY <1>1, <2>2, <2>3, SumOneMore
<1>9. tab[i] = WorthAt(v, i)
  <2>1. tab[i] = OneWorth(w.what[i], w.count[i])
    BY <1>1 DEF WorthIn
  <2> QED BY <1>1, <2>1 DEF WorthAt
<1> QED BY <1>1, <1>2, <1>3, <1>4, <1>5, <1>6, <1>7, <1>8, <1>9

LEMMA PaysAll ==
  ASSUME I!ItemsAssumption, NEW w, NEW m \in Int, NEW x, NEW R, NEW i, Pays(w, m, x), NextOf(w, x, R, i),
         NEW t, AwayFrom(x.w, t, i, x.w.count[i]), WorthAt(x.w, i) <= x.left,
         NEW y, y = [w |-> t, lost |-> x.lost, left |-> x.left - WorthAt(x.w, i)]
  PROVE  Pays(w, m, y) /\ Owes(w, y, R)
<1> DEFINE v == x.w
           a == WorthAt(v, i)
           tab == WorthIn(w.what, w.count)
<1>1. /\ LiesSomewhere(v, i) /\ x.lost = 0 /\ v \in ItemWorlds /\ a \in Nat
      /\ x.left <= a + SumOver(tab, R) /\ SumOver(tab, R) \in Int
  <2>1. /\ LiesSomewhere(x.w, i) /\ x.w.count[i] \in Nat \ {0} /\ x.lost = 0 /\ I!Unused(x.w) # {} /\ x.w \in ItemWorlds
        /\ I!Worth(x.w, i) = WorthAt(x.w, i) /\ WorthAt(x.w, i) \in Nat
        /\ x.left <= WorthAt(x.w, i) + SumOver(WorthIn(w.what, w.count), R)
        /\ SumOver(WorthIn(w.what, w.count), R) \in Int
    BY NextIs
  <2> QED BY <2>1
<1>2. /\ x = [w |-> v, lost |-> x.lost, left |-> x.left] /\ x.lost \in Int /\ x.left \in Nat
      /\ Rich(v) + x.lost = Rich(w) - m + x.left
      /\ \A F \in [Bags -> Int] : Weighed(w, F) => Weighed(v, F)
  BY DEF Pays
<1>3. /\ Sound(t, {}) /\ Rich(t) = Rich(v) - a /\ ButFor(v, t, i) /\ t.what[i] = "none"
      /\ \A F \in [Bags -> Int] : Weighed(v, F) => Weighed(t, F)
  BY DEF AwayFrom, WorthAt
<1>4. /\ w \in ItemWorlds /\ R \in SUBSET Stacks /\ i \in Stacks /\ i \notin R /\ x.left > 0
      /\ \A j \in R \cup {i} : v.what[j] = w.what[j] /\ v.count[j] = w.count[j]
  BY DEF NextOf, Owes
<1> HIDE DEF v, a, tab
<1>5. y = [w |-> t, lost |-> x.lost, left |-> x.left - a]
  BY DEF a, v
<1>6. y.w = t /\ y.lost = x.lost /\ y.left = x.left - a /\ y = [w |-> y.w, lost |-> y.lost, left |-> y.left]
  BY <1>5
<1>7. y.left \in Nat
  BY <1>1, <1>2, <1>6 DEF a, v
<1>8. I!Unused(t) # {}
  BY <1>3, <1>4 DEF I!Unused, I!Exists
<1>9. Rich(t) + x.lost = Rich(w) - m + (x.left - a)
  <2> DEFINE rt == Rich(t)
             rv == Rich(v)
             rw == Rich(w)
             l == x.lost
             n == x.left
  <2>1. rv \in Int /\ rw \in Int /\ l \in Int /\ n \in Nat /\ rt = rv - a /\ rv + l = rw - m + n
    <3>1. rv \in Int /\ rw \in Int
      BY <1>1, <1>4, RichNat
    <3> QED BY <1>2, <1>3, <3>1
  <2> HIDE DEF rt, rv, rw, l, n
  <2>2. rt + l = rw - m + (n - a)
    BY <1>1, <2>1
  <2> QED BY <2>2 DEF rt, rw, l, n
<1>10. Pays(w, m, y)
  BY <1>1, <1>2, <1>3, <1>6, <1>7, <1>8, <1>9 DEF Pays
<1>11. y.left <= SumOver(tab, R)
  <2> DEFINE s == SumOver(tab, R)
             n == x.left
  <2>1. s \in Int /\ n \in Nat /\ n <= a + s /\ y.left = n - a
    BY <1>1, <1>2, <1>6
  <2> HIDE DEF s, n
  <2>2. y.left <= s
    BY <1>1, <2>1
  <2> QED BY <2>2 DEF s
<1>12. \A j \in R : t.what[j] = w.what[j] /\ t.count[j] = w.count[j]
  BY <1>3, <1>4 DEF ButFor
<1>13. Owes(w, y, R)
  BY <1>6, <1>11, <1>12 DEF Owes, tab
<1> QED BY <1>10, <1>13

LEMMA PaysPart ==
  ASSUME I!ItemsAssumption, NEW w \in ItemWorlds, NEW m \in Int, NEW x, NEW R, Pays(w, m, x),
         NEW back, GaveChange(x.w, back, x.left), x.lost = 0,
         NEW y, y = [w |-> back.w, lost |-> back.lost, left |-> 0]
  PROVE  Pays(w, m, y) /\ Owes(w, y, R)
<1> DEFINE v == x.w
<1>1. /\ x.left \in Nat /\ Rich(v) + x.lost = Rich(w) - m + x.left /\ Sound(v, {})
      /\ \A F \in [Bags -> Int] : Weighed(w, F) => Weighed(v, F)
  BY DEF Pays
<1>2. /\ Sound(back.w, {}) /\ back.lost \in Int /\ Rich(back.w) + back.lost = Rich(v) - x.left
      /\ \A F \in [Bags -> Int] : Weighed(v, F) => Weighed(back.w, F)
  BY DEF GaveChange
<1> HIDE DEF v
<1>3. y.w = back.w /\ y.lost = back.lost /\ y.left = 0 /\ y = [w |-> y.w, lost |-> y.lost, left |-> y.left]
  OBVIOUS
<1>4. Rich(y.w) + y.lost = Rich(w) - m + y.left
  <2> DEFINE rv == Rich(v)
             rw == Rich(w)
             n == x.left
             b == Rich(back.w) + back.lost
  <2>1. rv \in Int /\ rw \in Int /\ n \in Nat /\ rv + 0 = rw - m + n /\ b = rv - n
    <3>1. v \in ItemWorlds
      BY <1>1 DEF Sound
    <3>2. rv \in Int /\ rw \in Int
      BY <3>1, RichNat
    <3> QED BY <1>1, <1>2, <3>2
  <2> HIDE DEF rv, rw, n, b
  <2>2. b = rw - m + 0
    BY <2>1
  <2> QED BY <1>3, <2>2 DEF b, rw
<1>5. Pays(w, m, y)
  BY <1>1, <1>2, <1>3, <1>4 DEF Pays
<1>6. Owes(w, y, R)
  BY <1>3 DEF Owes
<1> QED BY <1>5, <1>6

LEMMA PayFromFine ==
  ASSUME I!ItemsAssumption, NEW w \in ItemWorlds, NEW m \in Int, NEW x, NEW R \in SUBSET Stacks, NEW i \in Stacks \ R,
         w.what[i] # "none", Pays(w, m, x), Owes(w, x, R \cup {i})
  PROVE  Pays(w, m, I!PayFrom(x, i)) /\ Owes(w, I!PayFrom(x, i), R)
<1> DEFINE y == I!PayFrom(x, i)
           v == x.w
           worth == I!Worth(v, i)
           one == worth \div v.count[i]
           k == I!Ceil(x.left, one)
           t == I!TakeAway(v, i, v.count[i])
           back == I!AddMoney(I!TakeAway(v, i, k), (one * k) - x.left)
<1>0. x.left \in Nat
  BY DEF Pays
<1>1. y = IF x.left = 0 THEN x
          ELSE IF worth <= x.left THEN [x EXCEPT !.w = t, !.left = @ - worth]
          ELSE [w |-> back.w, lost |-> back.lost, left |-> 0]
  BY DEF I!PayFrom, I!WithChange
<1> HIDE DEF back, t, y
<1>2. CASE x.left = 0
  <2>1. y = x
    BY <1>1, <1>2
  <2>2. Owes(w, x, R)
    BY <1>2 DEF Owes
  <2> QED BY <2>1, <2>2 DEF y
<1>3. CASE x.left # 0
  <2>1. NextOf(w, x, R, i)
    BY <1>0, <1>3 DEF NextOf
  <2>2. /\ LiesSomewhere(v, i) /\ v.count[i] \in Nat \ {0} /\ x.lost = 0 /\ I!Unused(v) # {}
        /\ worth = WorthAt(v, i) /\ WorthAt(v, i) \in Nat
    <3>1. /\ LiesSomewhere(x.w, i) /\ x.w.count[i] \in Nat \ {0} /\ x.lost = 0 /\ I!Unused(x.w) # {} /\ x.w \in ItemWorlds
          /\ I!Worth(x.w, i) = WorthAt(x.w, i) /\ WorthAt(x.w, i) \in Nat
          /\ x.left <= WorthAt(x.w, i) + SumOver(WorthIn(w.what, w.count), R)
          /\ SumOver(WorthIn(w.what, w.count), R) \in Int
      BY <2>1, NextIs
    <3> QED BY <3>1
  <2>3. CASE worth <= x.left
    <3>1. y = [w |-> t, lost |-> x.lost, left |-> x.left - WorthAt(x.w, i)]
      <4>1. y = [x EXCEPT !.w = t, !.left = x.left - worth]
        BY <1>1, <1>3, <2>3
      <4>2. x = [w |-> x.w, lost |-> x.lost, left |-> x.left]
        BY DEF Pays
      <4> DEFINE n == x.left - worth
      <4> HIDE DEF n
      <4>3. y = [w |-> t, lost |-> x.lost, left |-> n]
        BY <4>1, <4>2 DEF n
      <4> QED BY <2>2, <4>3 DEF n
    <3>2. AwayFrom(x.w, t, i, x.w.count[i])
      <4> DEFINE n == v.count[i]
      <4>1. n \in 1 .. v.count[i]
        BY <2>2
      <4>2. AwayFrom(v, I!TakeAway(v, i, n), i, n)
        BY <2>2, <4>1, TakeAwayFine
      <4> QED BY <4>2 DEF t
    <3>3. WorthAt(x.w, i) <= x.left
      BY <2>2, <2>3
    <3>4. Pays(w, m, y) /\ Owes(w, y, R)
      BY <2>1, <3>1, <3>2, <3>3, PaysAll
    <3> QED BY <3>4 DEF y
  <2>4. CASE ~(worth <= x.left)
    <3>1. y = [w |-> back.w, lost |-> back.lost, left |-> 0]
      BY <1>1, <1>3, <2>4
    <3>2. Change0(v, i, x.left)
      BY <1>0, <1>3, <2>2, <2>4 DEF Change0
    <3>3. GaveChange(v, back, x.left)
      <4> DEFINE left == x.left
      <4>1. Change0(v, i, left) /\ one = I!Worth(v, i) \div v.count[i] /\ k = I!Ceil(left, one)
        BY <3>2
      <4>2. back = I!AddMoney(I!TakeAway(v, i, k), (one * k) - left)
        BY DEF back
      <4> HIDE DEF v, one, k, left
      <4>3. GaveChange(v, I!AddMoney(I!TakeAway(v, i, k), (one * k) - left), left)
        BY <4>1, GivesChange
      <4> QED BY <4>2, <4>3 DEF left
    <3>4. Pays(w, m, y) /\ Owes(w, y, R)
      BY <2>2, <3>1, <3>3, PaysPart
    <3> QED BY <3>4 DEF y
  <2> QED BY <2>3, <2>4
<1> QED BY <1>2, <1>3

AfterStep(f, x, stacks, n) == IF n = 0 THEN x ELSE I!PayFrom(f[n - 1], stacks[n])

AfterFits(f, x, stacks, size) == f = [n \in 0 .. size |-> AfterStep(f, x, stacks, n)]

LEMMA AfterExists ==
  ASSUME NEW x, NEW stacks, NEW size \in Nat
  PROVE  \E f : AfterFits(f, x, stacks, size)
<1> DEFINE Fits(f, j) == \A k \in 0 .. j : f[k] = AfterStep(f, x, stacks, k)
           P == {j \in Nat : \E f : Fits(f, j)}
<1>1. 0 \in P
  <2>1. Fits([k \in {0} |-> x], 0)
    BY DEF AfterStep
  <2> QED BY <2>1
<1>2. ASSUME NEW j \in Nat, j \in P PROVE j + 1 \in P
  <2>1. PICK f : Fits(f, j)
    BY <1>2
  <2> DEFINE next == I!PayFrom(f[j], stacks[j + 1])
             g == [k \in 0 .. j + 1 |-> IF k <= j THEN f[k] ELSE next]
  <2>2. ASSUME NEW k \in 0 .. j + 1 PROVE g[k] = AfterStep(g, x, stacks, k)
    <3>1. CASE k = j + 1
      <4>1. g[k] = next /\ k # 0 /\ k - 1 = j /\ g[j] = f[j]
        BY <3>1
      <4> HIDE DEF g
      <4> QED BY <3>1, <4>1 DEF AfterStep
    <3>2. CASE k \in 1 .. j
      <4>1. g[k] = f[k] /\ g[k - 1] = f[k - 1] /\ k # 0
        BY <3>2
      <4>2. f[k] = AfterStep(f, x, stacks, k)
        BY <2>1, <3>2
      <4> HIDE DEF g
      <4> QED BY <4>1, <4>2 DEF AfterStep
    <3>3. CASE k = 0
      <4>1. g[k] = f[k]
        BY <3>3
      <4>2. f[k] = AfterStep(f, x, stacks, k)
        BY <2>1, <3>3
      <4> HIDE DEF g
      <4> QED BY <3>3, <4>1, <4>2 DEF AfterStep
    <3> QED BY <3>1, <3>2, <3>3
  <2>3. Fits(g, j + 1)
    <3> HIDE DEF g
    <3> QED BY <2>2
  <2> HIDE DEF Fits, g
  <2>4. j + 1 \in Nat
    OBVIOUS
  <2> QED BY <2>3, <2>4
<1>3. Nat \subseteq P
  <2> HIDE DEF P
  <2> QED BY <1>1, <1>2, AllNumbers
<1>4. PICK f : Fits(f, size)
  BY <1>3
<1> DEFINE g == [k \in 0 .. size |-> f[k]]
<1>5. \A n \in 0 .. size : g[n] = f[n] /\ (n # 0 => g[n - 1] = f[n - 1])
  OBVIOUS
<1>6. \A n \in 0 .. size : f[n] = AfterStep(g, x, stacks, n)
  <2> HIDE DEF g
  <2> QED BY <1>4, <1>5 DEF AfterStep
<1>7. g = [n \in 0 .. size |-> AfterStep(g, x, stacks, n)]
  <2> DEFINE h == [n \in 0 .. size |-> AfterStep(g, x, stacks, n)]
  <2> HIDE DEF g
  <2>1. h = [n \in 0 .. size |-> f[n]]
    BY <1>6
  <2> QED BY <2>1 DEF g
<1> HIDE DEF g
<1> QED BY <1>7 DEF AfterFits

LEMMA PurseIs ==
  ASSUME I!ItemsAssumption, NEW w, NEW stacks \in I!ByWorth(w)
  PROVE  /\ stacks \in Seq(I!Purse(w)) /\ I!Purse(w) \in SUBSET Stacks
         /\ \A p \in 1 .. Len(stacks) : stacks[p] \in Stacks /\ w.what[stacks[p]] # "none"
         /\ \A p, q \in 1 .. Len(stacks) : stacks[p] = stacks[q] => p = q
         /\ {stacks[p] : p \in 1 .. Len(stacks)} = I!Purse(w)
<1> DEFINE T == I!Purse(w)
           n == Cardinality(T)
<1>1. T \in SUBSET Stacks /\ \A i \in T : w.what[i] # "none"
  BY DEF I!Purse, I!Exists
<1>2. IsFiniteSet(T)
  BY <1>1, ItemsAssumed, FS_Subset
<1> HIDE DEF T
<1>3. stacks \in Injection(1 .. n, T)
  <2>1. stacks \in I!Injection(1 .. I!Cardinality(I!Purse(w)), I!Purse(w))
    BY DEF I!ByWorth
  <2>2. stacks \in [1 .. n -> T] /\ \A a, b \in DOMAIN stacks : stacks[a] = stacks[b] => a = b
    BY <2>1, ItemsCount DEF I!Injection, I!IsInjective, T
  <2> QED BY <2>2 DEF Injection, IsInjective
<1>4. stacks \in [1 .. n -> T] /\ \A a, b \in DOMAIN stacks : stacks[a] = stacks[b] => a = b
  BY <1>3 DEF Injection, IsInjective
<1>5. n \in Nat
  BY <1>2, FS_CardinalityType
<1>6. Cardinality(1 .. n) = n
  BY <1>5, FS_Interval
<1>7. stacks \in Surjection(1 .. n, T)
  <2> DEFINE U == 1 .. n
  <2>1. stacks \in Injection(U, T) /\ Cardinality(U) = Cardinality(T)
    BY <1>3, <1>6
  <2> HIDE DEF U
  <2>2. stacks \in Surjection(U, T)
    BY <1>2, <2>1, FS_Injection
  <2> QED BY <2>2 DEF U
<1>8. \A t \in T : \E p \in 1 .. n : stacks[p] = t
  BY <1>7 DEF Surjection
<1> HIDE DEF n
<1>9. stacks \in Seq(T) /\ Len(stacks) = n
  BY <1>4, <1>5
<1>10. \A p \in 1 .. n : stacks[p] \in T
  BY <1>4
<1>11. {stacks[p] : p \in 1 .. n} = T
  BY <1>8, <1>10
<1>12. \A p, q \in 1 .. n : stacks[p] = stacks[q] => p = q
  BY <1>4
<1>13. \A p \in 1 .. n : stacks[p] \in Stacks /\ w.what[stacks[p]] # "none"
  BY <1>1, <1>10
<1> QED BY <1>1, <1>9, <1>11, <1>12, <1>13 DEF T

RestOf(stacks, n) == {stacks[p] : p \in n + 1 .. Len(stacks)}

\* What is paid with the first n stacks.
LEMMA PaysOn ==
  ASSUME I!ItemsAssumption, NEW w, Sound(w, {}), NEW m \in Nat, NEW stacks \in I!ByWorth(w),
         NEW x, Pays(w, m, x), Owes(w, x, RestOf(stacks, 0)),
         NEW f, f = [n \in 0 .. Len(stacks) |-> AfterStep(f, x, stacks, n)], NEW n \in 0 .. Len(stacks)
  PROVE  Pays(w, m, f[n]) /\ Owes(w, f[n], RestOf(stacks, n))
<1> DEFINE len == Len(stacks)
           P == {k \in Nat : k <= len => Pays(w, m, f[k]) /\ Owes(w, f[k], RestOf(stacks, k))}
<1>0. /\ len \in Nat /\ w \in ItemWorlds /\ m \in Int
      /\ \A p \in 1 .. len : stacks[p] \in Stacks /\ w.what[stacks[p]] # "none"
      /\ \A p, q \in 1 .. len : stacks[p] = stacks[q] => p = q
  <2>1. stacks \in Seq(I!Purse(w)) /\ I!Purse(w) \in SUBSET Stacks
        /\ (\A p \in 1 .. Len(stacks) : stacks[p] \in Stacks /\ w.what[stacks[p]] # "none")
        /\ (\A p, q \in 1 .. Len(stacks) : stacks[p] = stacks[q] => p = q)
    <3>1. /\ stacks \in Seq(I!Purse(w)) /\ I!Purse(w) \in SUBSET Stacks
          /\ \A p \in 1 .. Len(stacks) : stacks[p] \in Stacks /\ w.what[stacks[p]] # "none"
          /\ \A p, q \in 1 .. Len(stacks) : stacks[p] = stacks[q] => p = q
          /\ {stacks[p] : p \in 1 .. Len(stacks)} = I!Purse(w)
      BY PurseIs
    <3> QED BY <3>1
  <2>2. len \in Nat
    BY <2>1
  <2> QED BY <2>1, <2>2 DEF Sound
<1> HIDE DEF len
<1>a. f = [k \in 0 .. len |-> AfterStep(f, x, stacks, k)]
  BY DEF len
<1>b. \A k \in 0 .. len : f[k] = AfterStep(f, x, stacks, k)
  <2> DEFINE g == [k \in 0 .. len |-> AfterStep(f, x, stacks, k)]
  <2>1. \A k \in 0 .. len : g[k] = AfterStep(f, x, stacks, k)
    OBVIOUS
  <2>2. f = g
    BY <1>a
  <2> HIDE DEF g
  <2> QED BY <2>1, <2>2
<1>1. 0 \in P
  <2>1. f[0] = x
    BY <1>0, <1>b DEF AfterStep
  <2> QED BY <2>1
<1>2. ASSUME NEW k \in Nat, k \in P PROVE k + 1 \in P
  <2> SUFFICES ASSUME k + 1 <= len PROVE Pays(w, m, f[k + 1]) /\ Owes(w, f[k + 1], RestOf(stacks, k + 1))
    OBVIOUS
  <2> DEFINE i == stacks[k + 1]
             R == RestOf(stacks, k + 1)
             y == f[k]
  <2>1. k <= len /\ k + 1 \in 1 .. len /\ k + 1 \in 0 .. len /\ k + 1 # 0 /\ (k + 1) - 1 = k
    BY <1>0
  <2>2. Pays(w, m, y) /\ Owes(w, y, RestOf(stacks, k))
    BY <1>2, <2>1
  <2>3. f[k + 1] = I!PayFrom(y, i)
    BY <1>b, <2>1 DEF AfterStep
  <2>4. R \in SUBSET Stacks /\ i \in Stacks /\ w.what[i] # "none" /\ i \notin R
    <3>1. \A p \in (k + 1) + 1 .. len : p \in 1 .. len /\ p # k + 1
      BY <1>0
    <3> QED BY <1>0, <2>1, <3>1 DEF RestOf, len
  <2>5. RestOf(stacks, k) = R \cup {i}
    <3>1. k + 1 .. len = {k + 1} \cup ((k + 1) + 1 .. len)
      BY <1>0, <2>1
    <3> QED BY <3>1 DEF RestOf, len
  <2> HIDE DEF i, R, y
  <2>6. Owes(w, y, R \cup {i})
    BY <2>2, <2>5
  <2>7. i \in Stacks \ R
    BY <2>4
  <2>8. Pays(w, m, I!PayFrom(y, i)) /\ Owes(w, I!PayFrom(y, i), R)
    BY <1>0, <2>2, <2>4, <2>6, <2>7, PayFromFine
  <2> QED BY <2>3, <2>8 DEF R
<1>3. Nat \subseteq P
  <2> HIDE DEF P
  <2> QED BY <1>1, <1>2, AllNumbers
<1>4. n \in Nat /\ n <= len
  BY <1>0 DEF len
<1> QED BY <1>3, <1>4

LEMMA PurseSum ==
  ASSUME I!ItemsAssumption, NEW w
  PROVE  I!SumFunction([i \in I!Purse(w) |-> I!Worth(w, i)]) = SumOver(WorthIn(w.what, w.count), I!Purse(w))
<1> DEFINE T == I!Purse(w)
           f == [i \in T |-> I!Worth(w, i)]
           g == WorthIn(w.what, w.count)
<1>1. I!SumFunction(f) = SumOver(f, T)
  BY ItemsSum DEF I!SumFunction
<1>2. T \in SUBSET Stacks
  BY DEF I!Purse
<1>3. IsFiniteSet(T)
  BY <1>2, ItemsAssumed, FS_Subset
<1>4. \A i \in T : f[i] = g[i]
  BY <1>2, WorthIs DEF WorthIn
<1> HIDE DEF T, f, g
<1>5. SumOver(f, T) = SumOver(g, T)
  BY <1>3, <1>4, SumSame
<1> QED BY <1>1, <1>5 DEF T, f, g

\* x is w without m, which was paid, and without what was lost of the change.
Paid(w, x, m) ==
  /\ Sound(x.w, {}) /\ x.lost \in Int /\ Rich(x.w) + x.lost = Rich(w) - m
  /\ \A F \in [Bags -> Int] : Weighed(w, F) => Weighed(x.w, F)

LEMMA RemoveMoneyFine ==
  ASSUME I!ItemsAssumption, NEW w, Sound(w, {}), NEW m \in Nat, I!Unused(w) # {}, NEW stacks \in I!ByWorth(w),
         I!SumFunction([i \in I!Purse(w) |-> I!Worth(w, i)]) >= m
  PROVE  Paid(w, I!RemoveMoney(w, m, stacks), m)
<1> DEFINE x == [w |-> w, lost |-> 0, left |-> m]
           len == Len(stacks)
           after == CHOOSE f : f = [n \in 0 .. len |-> AfterStep(f, x, stacks, n)]
           tab == WorthIn(w.what, w.count)
<1>0. w \in ItemWorlds /\ Rich(w) \in Int
  BY RichNat DEF Sound
<1>1. /\ stacks \in Seq(I!Purse(w)) /\ I!Purse(w) \in SUBSET Stacks
      /\ \A p \in 1 .. Len(stacks) : stacks[p] \in Stacks /\ w.what[stacks[p]] # "none"
      /\ \A p, q \in 1 .. Len(stacks) : stacks[p] = stacks[q] => p = q
      /\ {stacks[p] : p \in 1 .. Len(stacks)} = I!Purse(w)
  BY PurseIs
<1>2. len \in Nat
  BY <1>1
<1>3. I!RemoveMoney(w, m, stacks) = after[len]
  BY DEF I!RemoveMoney, AfterStep
<1>4. after = [n \in 0 .. len |-> AfterStep(after, x, stacks, n)]
  <2> HIDE DEF x, len
  <2>1. \E f : AfterFits(f, x, stacks, len)
    BY <1>2, AfterExists
  <2>2. after = CHOOSE f : AfterFits(f, x, stacks, len)
    BY DEF AfterFits
  <2>3. AfterFits(after, x, stacks, len)
    BY <2>1, <2>2
  <2> QED BY <2>3 DEF AfterFits
<1>5. x.w = w /\ x.lost = 0 /\ x.left = m /\ x = [w |-> x.w, lost |-> x.lost, left |-> x.left]
  OBVIOUS
<1> HIDE DEF x, after
<1>6. Pays(w, m, x)
  <2>1. Rich(w) + 0 = Rich(w) - m + m
    <3> DEFINE r == Rich(w)
    <3>1. r \in Int
      BY <1>0
    <3> HIDE DEF r
    <3>2. r + 0 = r - m + m
      BY <3>1
    <3> QED BY <3>2 DEF r
  <2> QED BY <1>5, <2>1 DEF Pays
<1>7. Owes(w, x, RestOf(stacks, 0))
  <2>1. RestOf(stacks, 0) = I!Purse(w)
    BY <1>1 DEF RestOf
  <2>2. SumOver(tab, I!Purse(w)) >= m
    BY PurseSum
  <2>3. SumOver(tab, I!Purse(w)) \in Int
    <3>1. \A i \in Stacks : tab[i] \in Int
      BY <1>0, RichNat
    <3>2. IsFiniteSet(I!Purse(w))
      BY <1>1, ItemsAssumed, FS_Subset
    <3> HIDE DEF tab
    <3>3. \A i \in I!Purse(w) : tab[i] \in Int
      BY <1>1, <3>1
    <3> QED BY <3>2, <3>3, SumInt
  <2>4. m <= SumOver(tab, I!Purse(w))
    <3> DEFINE s == SumOver(tab, I!Purse(w))
    <3>1. s \in Int /\ s >= m
      BY <2>2, <2>3
    <3> HIDE DEF s
    <3>2. m <= s
      BY <3>1
    <3> QED BY <3>2 DEF s
  <2> QED BY <1>5, <2>1, <2>4 DEF Owes
<1> DEFINE z == after[len]
<1>8. Pays(w, m, z) /\ Owes(w, z, RestOf(stacks, len))
  <2>1. len \in 0 .. Len(stacks)
    BY <1>2
  <2> QED BY <1>4, <1>6, <1>7, <2>1, PaysOn
<1> HIDE DEF z
<1>9. z.left = 0
  <2>1. z.left \in Nat
    BY <1>8 DEF Pays
  <2>2. RestOf(stacks, len) = {}
    <3>1. len + 1 .. len = {}
      BY <1>2
    <3> QED BY <3>1 DEF RestOf
  <2>3. z.left > 0 => z.left <= 0
    BY <1>8, <2>2, SumOfNone DEF Owes
  <2> QED BY <2>1, <2>3
<1>10. /\ Sound(z.w, {}) /\ z.lost \in Int /\ Rich(z.w) + z.lost = Rich(w) - m + 0
       /\ \A F \in [Bags -> Int] : Weighed(w, F) => Weighed(z.w, F)
  BY <1>8, <1>9 DEF Pays
<1>11. Rich(w) - m + 0 = Rich(w) - m
  <2> DEFINE r == Rich(w)
  <2>1. r \in Int
    BY <1>0
  <2> HIDE DEF r
  <2>2. r - m + 0 = r - m
    BY <2>1
  <2> QED BY <2>2 DEF r
<1>12. Paid(w, z, m)
  BY <1>10, <1>11 DEF Paid
<1> QED BY <1>3, <1>12 DEF z

\* A stack that lies somewhere becomes one of another kind, of n coins.
Turned(w, i, kind, n) == I!Resize([w EXCEPT !.what[i] = kind], i, n)
TurnedTo(w, z, i, kind, n) ==
  /\ Sound(z, {}) /\ Rich(z) = Rich(w) + (OneWorth(kind, n) - WorthAt(w, i))
  /\ \A F \in [Bags -> Int] : Weighed(w, F) => Weighed(z, F)

LEMMA RenamedIs ==
  ASSUME NEW w \in ItemWorlds, NEW i, NEW kind
  PROVE  [w EXCEPT !.what[i] = kind] = CountedAs(w, i, kind, w.count[i])
<1>1. w = WorldOf(w.what, w.count, w.lies, w.parent, w.total) /\ w.count \in [Objs -> Int]
  BY WorldIs
<1> DEFINE wh == [w.what EXCEPT ![i] = kind]
           v == [w EXCEPT !.what[i] = kind]
           ct == [w.count EXCEPT ![i] = w.count[i]]
<1>2. v = [w EXCEPT !.what = wh]
  BY DEF ItemWorlds
<1>3. ct = w.count
  BY <1>1
<1>4. CountedAs(w, i, kind, w.count[i]) = WorldOf(wh, ct, w.lies, w.parent, w.total)
  BY DEF CountedAs
<1> HIDE DEF v, wh, ct
<1>5. v = WorldOf(wh, w.count, w.lies, w.parent, w.total)
  BY <1>1, <1>2 DEF WorldOf
<1> QED BY <1>3, <1>4, <1>5 DEF v

LEMMA TurnedFine ==
  ASSUME I!ItemsAssumption, NEW w, NEW i \in Stacks, LiesSomewhere(w, i), NEW kind, NEW n, Counts(kind, n)
  PROVE  TurnedTo(w, Turned(w, i, kind, n), i, kind, n)
<1> DEFINE m == w.count[i]
           v == CountedAs(w, i, kind, m)
           z == I!Resize(v, i, n)
<1>0. /\ w \in ItemWorlds /\ Real(w.what, w.count) /\ InPlace(w.what, w.lies, w.parent, {}) /\ Roomy(w.lies)
      /\ NoLoop(w.parent, Bags) /\ \A b \in Bags : w.total[b] \in 0 .. Wrap - 1
  BY DEF Sound, LiesSomewhere
<1>a. w.parent[i] \in Cyls /\ i \in Objs /\ Full \in Nat \ {0}
  BY LyingIs, ItemsAssumed DEF LiesSomewhere
<1>b. w.what \in [Objs -> Kinds] /\ w.count \in [Objs -> Int]
  BY <1>0, WorldIs
<1>1. Counts(kind, m)
  <2>1. w.what[i] # "none" /\ m \in 0 .. Full /\ m # 0
    BY <1>0 DEF Real, LiesSomewhere
  <2>2. m \in 1 .. Full
    BY <1>a, <2>1
  <2> QED BY <2>2 DEF Counts
<1>2. v \in ItemWorlds /\ Real(v.what, v.count)
  BY <1>0, <1>1, CountedReal
<1>3. /\ v.what = [w.what EXCEPT ![i] = kind] /\ v.count = [w.count EXCEPT ![i] = m]
      /\ v.lies = w.lies /\ v.parent = w.parent /\ v.total = w.total
  BY DEF CountedAs, WorldOf
<1>4. Turned(w, i, kind, n) = z
  BY <1>0, RenamedIs DEF Turned
<1> HIDE DEF v, z
<1>5. v.count = w.count
  BY <1>3, <1>b
<1>6. v.what[i] = kind /\ kind # "none" /\ \A y \in Objs \ {i} : v.what[y] = w.what[y]
  BY <1>3, <1>a, <1>b DEF Counts
<1>7. InPlace(v.what, v.lies, v.parent, {})
  <2>1. \A y \in Objs : v.what[y] = "none" <=> w.what[y] = "none"
    BY <1>6 DEF LiesSomewhere
  <2> QED BY <1>0, <1>3, <2>1 DEF InPlace
<1>8. Sound(v, {})
  BY <1>0, <1>2, <1>3, <1>7 DEF Sound
<1>9. Lies(v, i) /\ n \in 1 .. Full
  BY <1>3, <1>a DEF Lies, Counts
<1>10. /\ Sound(z, {}) /\ z.what = v.what /\ z.count = [v.count EXCEPT ![i] = n]
  <2> DEFINE hand == {}
  <2>1. Sound(v, hand)
    BY <1>8
  <2> HIDE DEF hand
  <2>2. Sound(I!Resize(v, i, n), hand) /\ I!Resize(v, i, n).what = v.what
        /\ I!Resize(v, i, n).count = [v.count EXCEPT ![i] = n]
    BY <1>9, <2>1, ResizeSound
  <2> QED BY <2>2 DEF hand, z
<1>11. ASSUME NEW F \in [Bags -> Int], Weighed(w, F) PROVE Weighed(z, F)
  <2>1. Weighed(v, F)
    BY <1>3, <1>5, <1>11 DEF Weighed
  <2> QED BY <1>8, <1>9, <2>1, ResizeWeighed DEF z
<1>12. z \in ItemWorlds
  BY <1>10 DEF Sound
<1>13. ButFor(w, z, i)
  <2>1. \A y \in Objs \ {i} : z.what[y] = w.what[y] /\ z.count[y] = w.count[y]
    BY <1>10, <1>5, <1>6, <1>b
  <2> QED BY <2>1 DEF ButFor, Objs
<1>14. Rich(z) = Rich(w) + (WorthAt(z, i) - WorthAt(w, i))
  BY <1>0, <1>12, <1>13, RichChanged
<1>15. WorthAt(z, i) = OneWorth(kind, n)
  <2>1. z.what[i] = kind /\ z.count[i] = n
    BY <1>10, <1>5, <1>6, <1>a, <1>b
  <2> QED BY <2>1 DEF WorthAt
<1>16. TurnedTo(w, z, i, kind, n)
  BY <1>10, <1>11, <1>14, <1>15 DEF TurnedTo
<1> QED BY <1>4, <1>16

\* Full gold and one platinum are worth the same.
SameWorth(w, z) == Sound(z, {}) /\ Rich(z) = Rich(w) /\ \A F \in [Bags -> Int] : Weighed(w, F) => Weighed(z, F)

LEMMA TurnedSame ==
  ASSUME I!ItemsAssumption, NEW w, NEW i \in Stacks, LiesSomewhere(w, i), NEW kind, NEW n, Counts(kind, n),
         OneWorth(kind, n) = WorthAt(w, i)
  PROVE  SameWorth(w, Turned(w, i, kind, n))
<1> DEFINE z == Turned(w, i, kind, n)
           r == Rich(w)
           a == WorthAt(w, i)
<1>1. Sound(z, {}) /\ Rich(z) = r + (a - a) /\ \A F \in [Bags -> Int] : Weighed(w, F) => Weighed(z, F)
  BY TurnedFine DEF TurnedTo
<1>2. r \in Int /\ a \in Int
  <2>1. w \in ItemWorlds
    BY LyingIs
  <2> QED BY <2>1, RichNat DEF WorthAt
<1> HIDE DEF z, r, a
<1>3. r + (a - a) = r
  BY <1>2
<1>4. SameWorth(w, z)
  BY <1>1, <1>3 DEF SameWorth, r
<1> QED BY <1>4 DEF z

-----------------------------------------------------------------------------
(* What a state is: World, with the weights that are known.                *)

\* Sums of what is the same modulo a word are the same.
LEMMA SumCongruent ==
  ASSUME Wrap \in Nat \ {0}, NEW S0, IsFiniteSet(S0), NEW w, NEW v,
         \A x \in S0 : w[x] \in Int /\ v[x] \in Int /\ Congruent(w[x], v[x])
  PROVE  Congruent(SumOver(w, S0), SumOver(v, S0))
<1> DEFINE N == {n \in Nat : \A s \in SUBSET S0 : Cardinality(s) = n => Congruent(SumOver(w, s), SumOver(v, s))}
<1>1. 0 \in N
  <2>1. \A s \in SUBSET S0 : Cardinality(s) = 0 => s = {}
    BY FS_Subset, FS_EmptySet
  <2>2. SumOver(w, {}) = 0 /\ SumOver(v, {}) = 0
    BY SumOfNone
  <2>3. Congruent(0, 0)
    <3>1. 0 \in Int
      OBVIOUS
    <3> QED BY <3>1, CongruentSelf
  <2> QED BY <2>1, <2>2, <2>3
<1>2. ASSUME NEW n \in Nat, n \in N PROVE n + 1 \in N
  <2> SUFFICES ASSUME NEW s \in SUBSET S0, Cardinality(s) = n + 1
               PROVE Congruent(SumOver(w, s), SumOver(v, s))
    OBVIOUS
  <2>1. IsFiniteSet(s)
    BY FS_Subset
  <2>2. s # {}
    BY <2>1, FS_EmptySet
  <2>3. PICK x \in s : TRUE
    BY <2>2
  <2> DEFINE t == s \ {x}
  <2>4. IsFiniteSet(t) /\ Cardinality(t) = n
    <3>1. Cardinality(t) = Cardinality(s) - 1
      BY <2>1, <2>3, FS_RemoveElement
    <3> QED BY <2>1, <3>1, FS_Subset
  <2>5. t \in SUBSET S0 /\ \A y \in t : w[y] \in Int /\ v[y] \in Int
    OBVIOUS
  <2>6. Congruent(SumOver(w, t), SumOver(v, t))
    BY <1>2, <2>4, <2>5
  <2>7. SumOver(w, s) = w[x] + SumOver(w, t) /\ SumOver(v, s) = v[x] + SumOver(v, t)
    BY <2>1, <2>3, SumTake
  <2> HIDE DEF t
  <2>8. SumOver(w, t) \in Int /\ SumOver(v, t) \in Int
    BY <2>4, <2>5, SumInt
  <2>9. w[x] \in Int /\ v[x] \in Int /\ Congruent(w[x], v[x])
    BY <2>3
  <2> QED BY <2>6, <2>7, <2>8, <2>9, CongruentSum
<1>3. Nat \subseteq N
  <2> HIDE DEF N
  <2> QED BY <1>1, <1>2, AllNumbers
<1>4. Cardinality(S0) \in Nat
  BY FS_CardinalityType
<1> QED BY <1>3, <1>4

\* What a bag adds besides its content, now.
Own(w) == [b \in Bags |-> IF b \in Reduced THEN I!Weight(w, b) - w.total[b] ELSE 10]

LEMMA OwnTells ==
  ASSUME I!ItemsAssumption, NEW w \in ItemWorlds
  PROVE  Own(w) \in [Bags -> Int] /\ Offsets(Own(w)) /\ \A i \in Objs : Tells(w, Own(w), i)
<1> DEFINE F == Own(w)
<1>0. Reduced \subseteq Bags /\ w.total \in [Bags -> Int]
  BY ItemsAssumed, WorldIs
<1>1. \A b \in Bags : I!Weight(w, b) \in Int /\ w.total[b] \in Int
  BY <1>0, WeightInt DEF Objs
<1>2. \A b \in Bags : F[b] = IF b \in Reduced THEN I!Weight(w, b) - w.total[b] ELSE 10
  BY DEF Own
<1>3. \A b \in Bags : (IF b \in Reduced THEN I!Weight(w, b) - w.total[b] ELSE 10) \in Int
  <2> TAKE b \in Bags
  <2> DEFINE n == I!Weight(w, b)
             m == w.total[b]
  <2>1. n \in Int /\ m \in Int
    BY <1>1
  <2> HIDE DEF n, m
  <2>2. n - m \in Int /\ 10 \in Int
    BY <2>1
  <2> QED BY <2>2 DEF n, m
<1>4. F \in [Bags -> Int]
  BY <1>3 DEF Own
<1> HIDE DEF F
<1>5. Offsets(F)
  BY <1>2, <1>4 DEF Offsets
<1>6. ASSUME NEW i \in Objs PROVE Tells(w, F, i)
  <2>1. CASE i \in Stacks
    BY <2>1, StackTells
  <2>2. CASE i \in Bags
    BY <1>2, <1>5, <2>2, BagTells
  <2> QED BY <2>1, <2>2 DEF Objs
<1> QED BY <1>4, <1>5, <1>6 DEF F

\* Sound, and the bags know their weights if k is 0.
Stands(w, money, k) ==
  Sound(w, {}) /\ Rich(w) = money /\ k \in Nat /\ (k = 0 => Weighed(w, Own(w)))
ItemsIInv == Stands(I!World, u6, u7)

LEMMA WeightIsKnown ==
  ASSUME I!ItemsAssumption, NEW w, Sound(w, {}), Weighed(w, Own(w)), NEW b \in Bags
  PROVE  w.total[b] = I!SumFunction([i \in I!Range(w.lies[b]) |-> I!Weight(w, i)]) % Wrap
<1> DEFINE S0 == Members(w.lies[b])
           F == Own(w)
           tell == Telling(w.count, w.total, F)
           f == [i \in S0 |-> I!Weight(w, i)]
           a == SumOver(tell, S0)
           s == SumOver(f, S0)
           n == w.total[b]
<1>0. /\ w \in ItemWorlds /\ w.lies[b] \in Seq(Objs) /\ Wrap \in Nat \ {0} /\ n \in 0 .. Wrap - 1
      /\ w.count \in [Objs -> Int] /\ w.total \in [Bags -> Int]
  <2>1. w \in ItemWorlds /\ n \in 0 .. Wrap - 1
    BY DEF Sound
  <2>2. w.lies \in [Cyls -> Seq(Objs)] /\ b \in Cyls
    BY <2>1, WorldIs DEF Cyls
  <2> QED BY <2>1, <2>2, WorldIs, ItemsAssumed
<1>1. S0 \subseteq Objs /\ IsFiniteSet(S0) /\ I!Range(w.lies[b]) = S0
  BY <1>0, MembersAre
<1>2. F \in [Bags -> Int] /\ \A i \in Objs : Tells(w, F, i)
  BY <1>0, OwnTells
<1>3. \A i \in Objs : tell[i] \in Int /\ I!Weight(w, i) \in Int
  BY <1>0, <1>2, TellingInt, WeightInt
<1>4. Congruent(n, a)
  BY DEF Weighed, Told
<1>5. I!SumFunction(f) = s
  BY ItemsSum DEF I!SumFunction
<1>6. \A i \in S0 : f[i] = I!Weight(w, i)
  OBVIOUS
<1>7. \A i \in S0 : f[i] \in Int /\ tell[i] \in Int /\ Congruent(f[i], tell[i])
  BY <1>1, <1>2, <1>3, <1>6 DEF Tells
<1> HIDE DEF f, S0, tell, F
<1>8. Congruent(s, a)
  BY <1>0, <1>1, <1>7, SumCongruent
<1>9. s \in Int /\ a \in Int /\ n \in Int
  BY <1>0, <1>1, <1>7, SumInt
<1> HIDE DEF s, a, n
<1>10. s % Wrap \in 0 .. Wrap - 1 /\ Congruent(s % Wrap, s)
  BY <1>0, <1>9, CongruentRest
<1>11. s % Wrap \in Int
  BY <1>10
<1>12. Congruent(a, s)
  BY <1>0, <1>8, <1>9, CongruentBack
<1>13. Congruent(n, s)
  BY <1>0, <1>4, <1>9, <1>12, CongruentOn
<1>14. Congruent(s, s % Wrap)
  BY <1>0, <1>9, <1>10, <1>11, CongruentBack
<1>15. Congruent(n, s % Wrap)
  BY <1>0, <1>9, <1>11, <1>13, <1>14, CongruentOn
<1>16. n = s % Wrap
  BY <1>0, <1>10, <1>15, CongruentOne
<1> QED BY <1>1, <1>5, <1>16 DEF n, f

LEMMA ItemsInvHolds == ASSUME I!ItemsAssumption, ItemsIInv PROVE I!ItemsInv
<1> DEFINE w == I!World
<1>0. /\ w.what = u1 /\ w.count = u2 /\ w.lies = u3 /\ w.parent = u4 /\ w.total = u5
  BY DEF I!World
<1> HIDE DEF w
<1>1. Sound(w, {}) /\ Rich(w) = u6 /\ u7 \in Nat /\ (u7 = 0 => Weighed(w, Own(w)))
  BY DEF ItemsIInv, Stands, w
<1>2. /\ w \in ItemWorlds /\ Real(w.what, w.count) /\ InPlace(w.what, w.lies, w.parent, {}) /\ Roomy(w.lies)
      /\ NoLoop(w.parent, Bags) /\ \A b \in Bags : w.total[b] \in 0 .. Wrap - 1
  BY <1>1 DEF Sound
<1>3. w.lies \in [Cyls -> Seq(Objs)] /\ w.total \in [Bags -> Int]
  BY <1>2, WorldIs
<1>4. I!Objects = Objs /\ I!Cylinders = Cyls
  BY ObjsAre
<1>5. I!ItemsTypeOK
  <2>1. \A i \in Stacks : u1[i] \in {"none", "gold", "platinum"} /\ u2[i] \in 0 .. Full
    BY <1>0, <1>2 DEF Real
  <2>2. \A i \in Objs : I!Exists(w, i) <=> u2[i] > 0
    <3> TAKE i \in Objs
    <3>1. CASE i \in Bags
      BY <1>0, <1>2, <3>1 DEF Real, I!Exists
    <3>2. CASE i \in Stacks
      <4>1. u2[i] \in 0 .. Full /\ (u1[i] = "none" <=> u2[i] = 0) /\ Full \in Nat
        BY <1>0, <1>2, <3>2, ItemsAssumed DEF Real
      <4>2. u2[i] > 0 <=> u2[i] # 0
        BY <4>1
      <4> QED BY <1>0, <4>1, <4>2 DEF I!Exists
    <3> QED BY <3>1, <3>2 DEF Objs
  <2>3. u5 \in [Bags -> 0 .. Wrap - 1]
    BY <1>0, <1>2, <1>3
  <2> QED BY <1>4, <2>1, <2>2, <2>3 DEF I!ItemsTypeOK, w
<1>6. I!OnePlace
  <2>1. \A c \in Cyls : I!IsInjective(u3[c]) /\ I!Range(u3[c]) = Members(u3[c])
    <3> TAKE c \in Cyls
    <3>1. u3[c] \in Seq(Objs) /\ Once(u3[c])
      BY <1>0, <1>2, <1>3 DEF InPlace
    <3>2. DOMAIN u3[c] = 1 .. Len(u3[c])
      BY <3>1
    <3>3. I!IsInjective(u3[c])
      BY <3>1, <3>2 DEF I!IsInjective, Once
    <3> QED BY <3>1, <3>3, MembersAre
  <2>2. \A i \in Objs, c \in Cyls : i \in I!Range(u3[c]) <=> u4[i] = c
    BY <1>0, <1>2, <2>1 DEF InPlace
  <2>3. \A i \in Objs : I!Exists(w, i) <=> u4[i] # Nowhere
    BY <1>0, <1>2 DEF InPlace, I!Exists
  <2>4. \A b \in Bags : b \notin I!Around(w, u4[b])
    BY <1>0, <1>2, ItemsAround DEF NoLoop
  <2> QED BY <1>4, <2>1, <2>2, <2>3, <2>4 DEF I!OnePlace, w
<1>7. I!NotTooMany
  BY <1>0, <1>2 DEF Roomy, I!NotTooMany
<1>8. I!NoCoinLost
  BY <1>1, MoneyIs DEF I!NoCoinLost, w
<1>9. I!WeightKnown
  <2> SUFFICES ASSUME u7 = 0, NEW b \in Bags
               PROVE u5[b] = I!SumFunction([i \in I!Range(u3[b]) |-> I!Weight(w, i)]) % Wrap
    BY DEF I!WeightKnown, w
  <2>1. w.total[b] = I!SumFunction([i \in I!Range(w.lies[b]) |-> I!Weight(w, i)]) % Wrap
    BY <1>1, WeightIsKnown
  <2> QED BY <1>0, <2>1
<1> QED BY <1>5, <1>6, <1>7, <1>8, <1>9 DEF I!ItemsInv

\* A step to z: what a bag of reduced weight adds changes only where it adds to nothing,
\* or the step is counted.
Follows(w, z, i) == Sound(z, {}) /\ \A F \in [Bags -> Int] : Weighed(w, F) /\ (i \in Bags => Tells(w, F, i)) => Weighed(z, F)

LEMMA OwnStill ==
  ASSUME I!ItemsAssumption, ItemsIInv, NEW z, Sound(z, {}), ~I!Drifts(z), Weighed(z, Own(I!World))
  PROVE  Weighed(z, Own(z))
<1> DEFINE w == I!World
           F == Own(w)
           G0 == Own(z)
<1>0. w.parent = u4 /\ w.total = u5 /\ w \in ItemWorlds /\ z \in ItemWorlds
  <2>1. w.parent = u4 /\ w.total = u5
    BY DEF I!World
  <2> QED BY <2>1 DEF ItemsIInv, Stands, Sound
<1>1. \A b \in Reduced : z.total[b] = w.total[b] \/ (z.parent[b] \notin Bags)
  BY <1>0 DEF I!Drifts
<1>2. Reduced \subseteq Bags /\ Reduced \cap Stacks = {} /\ Stacks \cap Bags = {}
  BY ItemsAssumed
<1>3. F \in [Bags -> Int] /\ G0 \in [Bags -> Int]
  BY <1>0, OwnTells
<1>4. \A b \in Bags : z.parent[b] \in Bags => F[b] = G0[b]
  <2> SUFFICES ASSUME NEW b \in Bags, z.parent[b] \in Bags PROVE F[b] = G0[b]
    OBVIOUS
  <2>1. CASE b \notin Reduced
    BY <2>1 DEF Own
  <2>2. CASE b \in Reduced
    <3>1. z.total[b] = w.total[b]
      BY <1>1, <2>2
    <3>2. I!Weight(z, b) = I!Weight(w, b)
      BY <1>2, <2>2, <3>1 DEF I!Weight
    <3> HIDE DEF w
    <3> QED BY <3>1, <3>2 DEF Own
  <2> QED BY <2>1, <2>2
<1> HIDE DEF w, F, G0
<1>5. \A x \in Objs, b \in Bags : x \in Members(z.lies[b]) <=> z.parent[x] = b
  BY DEF Sound, InPlace, Cyls
<1>6. z.lies \in [Cyls -> Seq(Objs)] /\ z.total \in [Bags -> Int] /\ z.count \in [Objs -> Int]
  BY <1>0, WorldIs
<1>7. ASSUME NEW b \in Bags PROVE Congruent(z.total[b], Told(z.count, z.total, G0, z.lies[b]))
  <2> DEFINE S0 == Members(z.lies[b])
             f == Telling(z.count, z.total, F)
             g == Telling(z.count, z.total, G0)
  <2>1. z.lies[b] \in Seq(Objs)
    BY <1>6 DEF Cyls
  <2>2. S0 \subseteq Objs /\ IsFiniteSet(S0)
    BY <2>1, MembersAre
  <2>3. \A x \in S0 : f[x] = g[x]
    <3> TAKE x \in S0
    <3>0. x \in Objs
      BY <2>2
    <3>1. f[x] = (IF x \in Stacks THEN z.count[x] * 10 ELSE z.total[x] + F[x])
          /\ g[x] = (IF x \in Stacks THEN z.count[x] * 10 ELSE z.total[x] + G0[x])
      BY <3>0 DEF Telling
    <3>2. CASE x \in Stacks
      BY <3>1, <3>2
    <3>3. CASE x \in Bags
      <4>1. z.parent[x] \in Bags
        BY <1>5, <3>0
      <4>2. F[x] = G0[x] /\ x \notin Stacks
        BY <1>2, <1>4, <3>3, <4>1
      <4> QED BY <3>1, <4>2
    <3> QED BY <3>0, <3>2, <3>3 DEF Objs
  <2>4. Congruent(z.total[b], SumOver(f, S0))
    BY DEF Weighed, Told, F, w
  <2> HIDE DEF S0, f, g
  <2>5. SumOver(f, S0) = SumOver(g, S0)
    BY <2>2, <2>3, SumSame
  <2> QED BY <2>4, <2>5 DEF Told, S0, g
<1> QED BY <1>7 DEF Weighed, G0

\* What z and money are worth is what Becomes makes of them.
LEMMA BecomesFine ==
  ASSUME I!ItemsAssumption, ItemsIInv, NEW z, NEW money, I!Becomes(z, money),
         NEW i \in Objs \cup {None}, Follows(I!World, z, i), Rich(z) = money
  PROVE  ItemsIInv'
<1> DEFINE w == I!World
           y == (I!World)'
<1>1. /\ u1' = z.what /\ u2' = z.count /\ u3' = z.lies /\ u4' = z.parent /\ u5' = z.total /\ u6' = money
      /\ u7' = IF I!Drifts(z) THEN u7 + 1 ELSE u7
  BY DEF I!Becomes
<1>2. z \in ItemWorlds /\ Sound(z, {})
  BY DEF Follows, Sound
<1>3. y = z
  <2>1. z = WorldOf(z.what, z.count, z.lies, z.parent, z.total)
    BY <1>2, WorldIs
  <2>2. y = WorldOf(u1', u2', u3', u4', u5')
    BY DEF I!World, WorldOf
  <2> QED BY <1>1, <2>1, <2>2
<1>4. u7 \in Nat /\ w \in ItemWorlds /\ (u7 = 0 => Weighed(w, Own(w)))
  BY DEF ItemsIInv, Stands, Sound
<1>5. u7' \in Nat
  BY <1>1, <1>4
<1>6. ASSUME u7' = 0 PROVE Weighed(z, Own(z))
  <2>1. u7 = 0 /\ ~I!Drifts(z)
    <3>1. u7 + 1 # 0
      BY <1>4
    <3> QED BY <1>1, <1>6, <3>1
  <2>2. Own(w) \in [Bags -> Int] /\ \A j \in Objs : Tells(w, Own(w), j)
    BY <1>4, OwnTells
  <2>3. Weighed(w, Own(w))
    BY <1>4, <2>1
  <2>4. i \in Bags => Tells(w, Own(w), i)
    BY <2>2 DEF Objs
  <2>5. Weighed(z, Own(w))
    BY <2>2, <2>3, <2>4 DEF Follows
  <2> QED BY <1>2, <2>1, <2>5, OwnStill
<1>7. Stands(z, money, u7')
  BY <1>2, <1>5, <1>6 DEF Stands
<1>8. ItemsIInv' <=> Stands(y, u6', u7')
  BY DEF ItemsIInv
<1> HIDE DEF y
<1> QED BY <1>1, <1>3, <1>7, <1>8

LEMMA BecomesKeeps ==
  ASSUME I!ItemsAssumption, ItemsIInv, NEW z, NEW money, I!Becomes(z, money), Sound(z, {}), Rich(z) = money,
         \A F \in [Bags -> Int] : Weighed(I!World, F) => Weighed(z, F)
  PROVE  ItemsIInv'
<1> DEFINE i == None
<1>1. i \in Objs \cup {None}
  OBVIOUS
<1> HIDE DEF i
<1>2. Follows(I!World, z, i)
  BY DEF Follows
<1> QED BY <1>1, <1>2, BecomesFine

-----------------------------------------------------------------------------
(* The steps.                                                              *)

LEMMA Standing ==
  ASSUME ItemsIInv
  PROVE  /\ Sound(I!World, {}) /\ Rich(I!World) = u6 /\ I!World \in ItemWorlds
         /\ (I!World).what = u1 /\ (I!World).count = u2
<1>1. (I!World).what = u1 /\ (I!World).count = u2
  BY DEF I!World
<1> QED BY <1>1 DEF ItemsIInv, Stands, Sound

LEMMA MoveItemKeeps == ASSUME I!ItemsAssumption, ItemsIInv, NEW i \in Objs, I!Move(i) PROVE ItemsIInv'
<1> DEFINE w == I!World
<1>1. PICK k \in 1 .. u2[i], c \in Cyls \cup {Player} : \E at : I!Becomes(I!Moved(w, i, k, c, at), u6)
  BY ObjsAre DEF I!Move
<1>11. PICK at : I!Becomes(I!Moved(w, i, k, c, at), u6)
  BY <1>1
<1>2. w.what[i] # "none" /\ I!Unused(w) # {}
  BY DEF I!Move, I!Exists
<1>3. Sound(w, {}) /\ Rich(w) = u6 /\ w.count = u2
  BY Standing
<1> DEFINE z == I!Moved(w, i, k, c, at)
<1> HIDE DEF w
<1>4. LiesSomewhere(w, i) /\ k \in 1 .. w.count[i]
  BY <1>2, <1>3 DEF LiesSomewhere
<1>5. Goes(w, z, i)
  BY <1>2, <1>4, MovedFine
<1> HIDE DEF z
<1>6. Follows(w, z, i) /\ Rich(z) = u6
  BY <1>3, <1>5 DEF Goes, Moves, Keeps, Follows
<1>7. i \in Objs \cup {None} /\ I!Becomes(z, u6)
  BY <1>11 DEF z
<1> QED BY <1>6, <1>7, BecomesFine DEF w

LEMMA CreateKeeps ==
  ASSUME I!ItemsAssumption, ItemsIInv, NEW kind \in {"gold", "platinum"}, I!Create(kind) PROVE ItemsIInv'
<1> DEFINE w == I!World
           i == I!Fresh(w)
<1>1. PICK k \in 1 .. Full : \E v \in {I!Made(w, kind, k)} : \E z \in {I!Given(v, i)} :
                                z # v /\ I!Becomes(z, u6 + I!Worth(v, i))
  BY DEF I!Create
<1> DEFINE v == I!Made(w, kind, k)
           z == I!Given(v, i)
           money == u6 + I!Worth(v, i)
<1>2. z # v /\ I!Becomes(z, money)
  BY <1>1
<1>3. I!Unused(w) # {}
  BY DEF I!Create
<1>4. Sound(w, {}) /\ Rich(w) = u6
  BY Standing
<1> HIDE DEF w
<1>5. MadeOf(w, v, i, kind, k)
  BY <1>3, <1>4, MadeFine DEF Counts
<1> HIDE DEF v, i
<1>6. LaidAt(v, z, i)
  BY <1>2, <1>5, GivenFine DEF MadeOf
<1> HIDE DEF z
<1>7. Sound(z, {}) /\ Rich(z) = money /\ \A F \in [Bags -> Int] : Weighed(w, F) => Weighed(z, F)
  BY <1>4, <1>5, <1>6 DEF MadeOf, LaidAt
<1> HIDE DEF money
<1> QED BY <1>2, <1>7, BecomesKeeps DEF w

LEMMA DestroyItemKeeps == ASSUME I!ItemsAssumption, ItemsIInv, NEW i \in Objs, I!Destroy(i) PROVE ItemsIInv'
<1> DEFINE w == I!World
<1>1. PICK k \in 1 .. u2[i] : I!Becomes(I!TakeAway(w, i, k), u6 - k * (I!Worth(w, i) \div u2[i]))
  BY DEF I!Destroy
<1>2. w.what[i] # "none" /\ i \in Stacks
  BY DEF I!Destroy, I!Exists
<1>3. Sound(w, {}) /\ Rich(w) = u6 /\ w.count = u2 /\ w \in ItemWorlds
  BY Standing
<1> DEFINE z == I!TakeAway(w, i, k)
           n == w.count[i]
           one == OneWorth(w.what[i], n) \div n
<1> HIDE DEF w
<1>4. LiesSomewhere(w, i) /\ k \in 1 .. n
  BY <1>2, <1>3 DEF LiesSomewhere
<1>5. AwayFrom(w, z, i, k)
  BY <1>2, <1>4, TakeAwayFine
<1>6. w.what[i] \in {"gold", "platinum"} /\ n \in Nat \ {0} /\ k \in Nat
  <2>1. Real(w.what, w.count) /\ Full \in Nat
    BY <1>3, ItemsAssumed DEF Sound
  <2>2. w.what[i] \in {"none", "gold", "platinum"} /\ n \in 0 .. Full /\ (w.what[i] = "none" <=> n = 0)
    BY <1>2, <2>1 DEF Real
  <2> HIDE DEF n
  <2>3. n \in Nat \ {0}
    BY <1>2, <2>1, <2>2
  <2>4. k \in Nat
    BY <1>4, <2>3
  <2> QED BY <1>2, <2>2, <2>3, <2>4
<1>7. OneWorth(w.what[i], k) = k * one
  BY <1>6, OneCoin
<1>8. I!Worth(w, i) = OneWorth(w.what[i], n)
  BY WorthIs
<1> DEFINE money == u6 - k * (I!Worth(w, i) \div u2[i])
<1>9. I!Becomes(z, money)
  BY <1>1, <1>3 DEF w
<1>10. Rich(z) = money
  <2>1. Rich(z) = u6 - OneWorth(w.what[i], k)
    BY <1>3, <1>5 DEF AwayFrom
  <2>2. I!Worth(w, i) \div u2[i] = one
    BY <1>3, <1>8
  <2> QED BY <1>7, <2>1, <2>2
<1> HIDE DEF z, money
<1>11. Sound(z, {}) /\ \A F \in [Bags -> Int] : Weighed(w, F) => Weighed(z, F)
  BY <1>5 DEF AwayFrom
<1> QED BY <1>9, <1>10, <1>11, BecomesKeeps DEF w

LEMMA ChangeKeeps == ASSUME I!ItemsAssumption, ItemsIInv, NEW i \in Objs, I!Change(i) PROVE ItemsIInv'
<1> DEFINE w == I!World
<1>1. w.what[i] # "none" /\ i \in Stacks
  BY DEF I!Change, I!Exists
<1>2. Sound(w, {}) /\ Rich(w) = u6 /\ w.count = u2 /\ w.what = u1 /\ w \in ItemWorlds
  BY Standing
<1>3. Full \in Nat \ {0}
  BY ItemsAssumed
<1>4. \/ w.what[i] = "gold" /\ w.count[i] = Full /\ I!Becomes(Turned(w, i, "platinum", 1), u6)
      \/ w.what[i] = "platinum" /\ w.count[i] = 1 /\ I!Becomes(Turned(w, i, "gold", Full), u6)
  BY <1>2 DEF I!Change, Turned
<1> HIDE DEF w
<1>5. LiesSomewhere(w, i)
  BY <1>1, <1>2 DEF LiesSomewhere
<1>6. ASSUME NEW kind, NEW n, Counts(kind, n), OneWorth(kind, n) = WorthAt(w, i), I!Becomes(Turned(w, i, kind, n), u6)
      PROVE  ItemsIInv'
  <2> DEFINE z == Turned(w, i, kind, n)
  <2>1. SameWorth(w, z)
    BY <1>1, <1>5, <1>6, TurnedSame
  <2>2. I!Becomes(z, u6)
    BY <1>6
  <2> HIDE DEF z
  <2>3. Sound(z, {}) /\ Rich(z) = u6 /\ \A F \in [Bags -> Int] : Weighed(w, F) => Weighed(z, F)
    BY <1>2, <2>1 DEF SameWorth
  <2> QED BY <2>2, <2>3, BecomesKeeps DEF w
<1>7. CASE w.what[i] = "gold" /\ w.count[i] = Full /\ I!Becomes(Turned(w, i, "platinum", 1), u6)
  <2>1. OneWorth("platinum", 1) = 1 * Full /\ WorthAt(w, i) = Full
    BY <1>7 DEF OneWorth, WorthAt
  <2>2. 1 * Full = Full /\ 1 \in 1 .. Full
    BY <1>3
  <2> QED BY <1>6, <1>7, <2>1, <2>2 DEF Counts
<1>8. CASE w.what[i] = "platinum" /\ w.count[i] = 1 /\ I!Becomes(Turned(w, i, "gold", Full), u6)
  <2>1. OneWorth("gold", Full) = Full /\ WorthAt(w, i) = 1 * Full
    BY <1>8 DEF OneWorth, WorthAt
  <2>2. 1 * Full = Full /\ Full \in 1 .. Full
    BY <1>3
  <2> QED BY <1>6, <1>8, <2>1, <2>2 DEF Counts
<1> QED BY <1>4, <1>7, <1>8

LEMMA FewIn ==
  ASSUME NEW S0, IsFiniteSet(S0)
  PROVE  /\ Cardinality(S0) >= 1 => S0 # {}
         /\ Cardinality(S0) >= 2 => \A j : S0 \ {j} # {}
<1>1. Cardinality(S0) >= 1 => S0 # {}
  BY FS_EmptySet
<1>2. ASSUME Cardinality(S0) >= 2, NEW j, S0 \ {j} = {} PROVE FALSE
  <2>1. S0 \subseteq {j} /\ IsFiniteSet({j}) /\ Cardinality({j}) = 1
    BY <1>2, FS_Singleton
  <2>2. Cardinality(S0) <= 1
    BY <2>1, FS_Subset
  <2>3. Cardinality(S0) \in Nat
    BY FS_CardinalityType
  <2> QED BY <1>2, <2>2, <2>3
<1> QED BY <1>1, <1>2

LEMMA UnusedFinite == ASSUME I!ItemsAssumption, NEW w PROVE IsFiniteSet(I!Unused(w))
<1>1. I!Unused(w) \subseteq Stacks
  BY DEF I!Unused
<1> QED BY <1>1, ItemsAssumed, FS_Subset

LEMMA EarnKeeps == ASSUME I!ItemsAssumption, ItemsIInv, NEW m \in 1 .. MaxWorth, I!Earn(m) PROVE ItemsIInv'
<1> DEFINE w == I!World
           x == I!AddMoney(w, m)
           money == u6 + m - x.lost
           free == I!Unused(w)
<1>1. I!Becomes(x.w, money)
  BY DEF I!Earn
<1>2. Cardinality(free) >= 2
  BY ItemsCount DEF I!Earn
<1>3. Sound(w, {}) /\ Rich(w) = u6 /\ w \in ItemWorlds
  BY Standing
<1> HIDE DEF w
<1>4. free # {} /\ \A j : free \ {j} # {}
  <2>1. IsFiniteSet(free)
    BY UnusedFinite
  <2> HIDE DEF free
  <2>2. Cardinality(free) \in Nat
    BY <2>1, FS_CardinalityType
  <2>3. Cardinality(free) >= 1
    BY <1>2, <2>2
  <2> QED BY <1>2, <2>1, <2>3, FewIn
<1>5. m \in Nat /\ m < Full * (Full + 1)
  <2>1. MaxWorth \in Nat /\ MaxWorth < Full * (Full + 1) /\ Full \in Nat
    BY ItemsAssumed
  <2> DEFINE top == Full * (Full + 1)
  <2>2. top \in Nat
    <3>1. Full + 1 \in Nat
      BY <2>1
    <3> QED BY <2>1, <3>1, TimesNat
  <2>3. MaxWorth < top
    BY <2>1
  <2> HIDE DEF top
  <2>4. m \in Nat /\ m < top
    BY <2>1, <2>2, <2>3
  <2> QED BY <2>4 DEF top
<1>6. AddsMoney(w, x, m)
  BY <1>3, <1>4, <1>5, AddMoneyFine
<1>7. u6 \in Int
  BY <1>3, RichNat
<1> HIDE DEF x
<1>8. /\ Sound(x.w, {}) /\ x.lost \in Int /\ Rich(x.w) + x.lost = u6 + m
      /\ \A F \in [Bags -> Int] : Weighed(w, F) => Weighed(x.w, F)
  BY <1>3, <1>6 DEF AddsMoney
<1>9. Rich(x.w) = money
  <2> DEFINE r == Rich(x.w)
             a == x.lost
  <2>1. r \in Int
    BY <1>8, RichNat DEF Sound
  <2>2. a \in Int /\ r + a = u6 + m
    BY <1>8
  <2>3. m \in Int
    BY <1>5
  <2> HIDE DEF r, a
  <2>4. r = u6 + m - a
    BY <1>7, <2>1, <2>2, <2>3
  <2> QED BY <2>4 DEF r, a
<1> DEFINE z == x.w
<1>10. I!Becomes(z, money) /\ Sound(z, {}) /\ Rich(z) = money
       /\ \A F \in [Bags -> Int] : Weighed(I!World, F) => Weighed(z, F)
  BY <1>1, <1>8, <1>9 DEF w
<1> HIDE DEF z, money
<1> QED BY <1>10, BecomesKeeps

LEMMA PayKeeps == ASSUME I!ItemsAssumption, ItemsIInv, NEW m \in 1 .. MaxWorth, I!Pay(m) PROVE ItemsIInv'
<1> DEFINE w == I!World
           free == I!Unused(w)
<1>1. PICK stacks \in I!ByWorth(w) : LET x == I!RemoveMoney(w, m, stacks) IN I!Becomes(x.w, u6 - m - x.lost)
  BY DEF I!Pay
<1>2. Cardinality(free) >= 1
  BY ItemsCount DEF I!Pay
<1>3. Sound(w, {}) /\ Rich(w) = u6 /\ w \in ItemWorlds
  BY Standing
<1>4. I!SumFunction([i \in I!Purse(w) |-> I!Worth(w, i)]) >= m
  BY DEF I!Pay
<1> DEFINE x == I!RemoveMoney(w, m, stacks)
           money == u6 - m - x.lost
<1>5. I!Becomes(x.w, money)
  BY <1>1
<1> HIDE DEF w
<1>6. free # {}
  <2>1. IsFiniteSet(free)
    BY UnusedFinite
  <2> HIDE DEF free
  <2> QED BY <1>2, <2>1, FewIn
<1>7. m \in Nat
  BY ItemsAssumed
<1>8. Paid(w, x, m)
  BY <1>3, <1>4, <1>6, <1>7, RemoveMoneyFine
<1>9. u6 \in Int
  BY <1>3, RichNat
<1> HIDE DEF x
<1>10. /\ Sound(x.w, {}) /\ x.lost \in Int /\ Rich(x.w) + x.lost = u6 - m
       /\ \A F \in [Bags -> Int] : Weighed(w, F) => Weighed(x.w, F)
  BY <1>3, <1>8 DEF Paid
<1>11. Rich(x.w) = money
  <2> DEFINE r == Rich(x.w)
             a == x.lost
  <2>1. r \in Int
    BY <1>10, RichNat DEF Sound
  <2>2. a \in Int /\ r + a = u6 - m
    BY <1>10
  <2>3. m \in Int
    BY <1>7
  <2> HIDE DEF r, a
  <2>4. r = u6 - m - a
    BY <1>9, <2>1, <2>2, <2>3
  <2> QED BY <2>4 DEF r, a
<1> DEFINE z == x.w
<1>12. I!Becomes(z, money) /\ Sound(z, {}) /\ Rich(z) = money
       /\ \A F \in [Bags -> Int] : Weighed(I!World, F) => Weighed(z, F)
  BY <1>5, <1>10, <1>11 DEF w
<1> HIDE DEF z, money
<1> QED BY <1>12, BecomesKeeps

LEMMA ItemsStep == ASSUME I!ItemsAssumption, ItemsIInv, [I!Next]_(I!vars) PROVE ItemsIInv'
<1>1. CASE \E i \in Objs : I!Move(i) \/ I!Destroy(i) \/ I!Change(i)
  BY <1>1, MoveItemKeeps, DestroyItemKeeps, ChangeKeeps
<1>2. CASE \E kind \in {"gold", "platinum"} : I!Create(kind)
  BY <1>2, CreateKeeps
<1>3. CASE \E m \in 1 .. MaxWorth : I!Earn(m) \/ I!Pay(m)
  BY <1>3, EarnKeeps, PayKeeps
<1>4. CASE UNCHANGED I!vars
  <2>1. UNCHANGED <<u1, u2, u3, u4, u5, u6, u7>>
    BY <1>4 DEF I!vars
  <2>2. (I!World)' = I!World
    BY <2>1 DEF I!World
  <2> QED BY <2>1, <2>2 DEF ItemsIInv
<1> QED BY <1>1, <1>2, <1>3, <1>4, ObjsAre DEF I!Next

-----------------------------------------------------------------------------
(* The beginning: all bags lie on the ground.                              *)

LEMMA InARowIs ==
  ASSUME I!ItemsAssumption
  PROVE  I!InARow \in Seq(Bags) /\ Once(I!InARow) /\ Members(I!InARow) = Bags
<1> DEFINE n == Cardinality(Bags)
           row == I!InARow
<1>1. IsFiniteSet(Bags) /\ n \in Nat
  BY ItemsAssumed, FS_CardinalityType
<1>2. I!Injection(1 .. I!Cardinality(Bags), Bags) = Injection(1 .. n, Bags)
  BY ItemsCount DEF I!Injection, I!IsInjective, Injection, IsInjective
<1>3. Injection(1 .. n, Bags) # {}
  <2>1. \E f : f \in Bijection(1 .. n, Bags)
    <3>1. ExistsBijection(1 .. n, Bags)
      BY <1>1, FS_CardinalityType
    <3> QED BY <3>1 DEF ExistsBijection
  <2> QED BY <2>1 DEF Bijection
<1>4. row \in Injection(1 .. n, Bags)
  BY <1>2, <1>3 DEF I!InARow
<1> HIDE DEF row
<1>5. row \in [1 .. n -> Bags] /\ \A a, b \in DOMAIN row : row[a] = row[b] => a = b
  BY <1>4 DEF Injection, IsInjective
<1>6. Cardinality(1 .. n) = n
  BY <1>1, FS_Interval
<1>7. row \in Surjection(1 .. n, Bags)
  <2> DEFINE U == 1 .. n
  <2>1. row \in Injection(U, Bags) /\ Cardinality(U) = Cardinality(Bags)
    BY <1>4, <1>6
  <2> HIDE DEF U
  <2>2. row \in Surjection(U, Bags)
    BY <1>1, <2>1, FS_Injection
  <2> QED BY <2>2 DEF U
<1>8. \A t \in Bags : \E p \in 1 .. n : row[p] = t
  BY <1>7 DEF Surjection
<1> HIDE DEF n
<1>9. row \in Seq(Bags) /\ Len(row) = n
  BY <1>1, <1>5
<1>10. \A p \in 1 .. n : row[p] \in Bags
  BY <1>5
<1>11. Members(row) = Bags
  BY <1>8, <1>9, <1>10 DEF Members
<1>12. Once(row)
  BY <1>5, <1>9 DEF Once
<1> QED BY <1>9, <1>11, <1>12 DEF row

\* A sum of nothing but zeros.
LEMMA SumOfZeros ==
  ASSUME NEW S0, IsFiniteSet(S0), NEW w, \A x \in S0 : w[x] = 0 PROVE SumOver(w, S0) = 0
<1> DEFINE N == {n \in Nat : \A s \in SUBSET S0 : Cardinality(s) = n => SumOver(w, s) = 0}
<1>1. 0 \in N
  <2>1. \A s \in SUBSET S0 : Cardinality(s) = 0 => s = {}
    BY FS_Subset, FS_EmptySet
  <2> QED BY <2>1, SumOfNone
<1>2. ASSUME NEW n \in Nat, n \in N PROVE n + 1 \in N
  <2> SUFFICES ASSUME NEW s \in SUBSET S0, Cardinality(s) = n + 1 PROVE SumOver(w, s) = 0
    OBVIOUS
  <2>1. IsFiniteSet(s) /\ \A x \in s : w[x] \in Int
    BY FS_Subset
  <2>2. s # {}
    BY <2>1, FS_EmptySet
  <2>3. PICK x \in s : TRUE
    BY <2>2
  <2> DEFINE t == s \ {x}
  <2>4. Cardinality(t) = n
    <3>1. Cardinality(t) = Cardinality(s) - 1
      BY <2>1, <2>3, FS_RemoveElement
    <3> QED BY <3>1
  <2>5. t \in SUBSET S0
    OBVIOUS
  <2>6. SumOver(w, t) = 0
    BY <1>2, <2>4, <2>5
  <2>7. SumOver(w, s) = w[x] + SumOver(w, t) /\ w[x] = 0
    BY <2>1, <2>3, SumTake
  <2> QED BY <2>6, <2>7
<1>3. Nat \subseteq N
  <2> HIDE DEF N
  <2> QED BY <1>1, <1>2, AllNumbers
<1>4. Cardinality(S0) \in Nat
  BY FS_CardinalityType
<1> QED BY <1>3, <1>4

LEMMA ItemsInit == ASSUME I!ItemsAssumption, I!Init PROVE ItemsIInv
<1> DEFINE w == I!World
           row == I!InARow
<1>0. /\ u1 = [i \in Objs |-> IF i \in Bags THEN "bag" ELSE "none"]
      /\ u2 = [i \in Objs |-> IF i \in Bags THEN 1 ELSE 0]
      /\ u3 = [c \in Cyls |-> IF c = Ground THEN row ELSE <<>>]
      /\ u4 = [i \in Objs |-> IF i \in Bags THEN Ground ELSE Nowhere]
      /\ u5 = [b \in Bags |-> 0] /\ u6 = 0 /\ u7 = 0
  BY ObjsAre DEF I!Init
<1>1. row \in Seq(Bags) /\ Once(row) /\ Members(row) = Bags
  BY InARowIs
<1>2. w = WorldOf(u1, u2, u3, u4, u5)
  BY DEF I!World, WorldOf
<1> HIDE DEF row
<1>3. /\ Stacks \cap Bags = {} /\ Slots \cap Objs = {} /\ Ground \notin Objs /\ Ground \notin Slots /\ Ground # Nowhere
      /\ Nowhere \notin Objs /\ Nowhere \notin Slots
      /\ Full \in Nat \ {0} /\ Wrap \in Nat \ {0} /\ Capacity \in [Bags -> Nat] /\ IsFiniteSet(Bags) /\ IsFiniteSet(Stacks)
      /\ Ground \notin Bags
  BY ItemsAssumed DEF Objs
<1>4. u1 \in [Objs -> Kinds] /\ u2 \in [Objs -> Int] /\ u4 \in [Objs -> Cyls \cup {Nowhere}] /\ u5 \in [Bags -> Int]
  BY <1>0 DEF Kinds, Cyls
<1>5. u3 \in [Cyls -> Seq(Objs)]
  <2>1. row \in Seq(Objs)
    BY <1>1 DEF Objs
  <2>2. <<>> \in Seq(Objs)
    OBVIOUS
  <2> QED BY <1>0, <2>1, <2>2
<1>6. w \in ItemWorlds /\ w.what = u1 /\ w.count = u2 /\ w.lies = u3 /\ w.parent = u4 /\ w.total = u5
  <2> HIDE DEF w
  <2> DEFINE y == WorldOf(u1, u2, u3, u4, u5)
  <2>1. y \in ItemWorlds /\ y.what = u1 /\ y.count = u2 /\ y.lies = u3 /\ y.parent = u4 /\ y.total = u5
    BY <1>4, <1>5 DEF ItemWorlds, WorldOf
  <2> HIDE DEF y
  <2>2. w = y
    BY <1>2 DEF y
  <2> QED BY <2>1, <2>2
<1> HIDE DEF w
<1>7. Real(w.what, w.count)
  <2>1. \A b \in Bags : u1[b] = "bag" /\ u2[b] = 1
    BY <1>0 DEF Objs
  <2>2. \A i \in Stacks : u1[i] = "none" /\ u2[i] = 0
    BY <1>0, <1>3 DEF Objs
  <2>3. 0 \in 0 .. Full
    BY <1>3
  <2> QED BY <1>6, <2>1, <2>2, <2>3 DEF Real
<1>8. Ground \in Cyls /\ u3[Ground] = row /\ \A c \in Cyls \ {Ground} : u3[c] = <<>>
  BY <1>0 DEF Cyls
<1>9. Members(<<>>) = {} /\ Once(<<>>)
  BY DEF Members, Once
<1>10. InPlace(w.what, w.lies, w.parent, {})
  <2>1. \A c \in Cyls : Once(u3[c])
    BY <1>1, <1>8, <1>9
  <2>2. \A i \in Objs, c \in Cyls : i \in Members(u3[c]) <=> u4[i] = c
    <3> TAKE i \in Objs, c \in Cyls
    <3>1. u4[i] = IF i \in Bags THEN Ground ELSE Nowhere
      BY <1>0
    <3>2. Nowhere # c
      BY <1>3 DEF Cyls, Objs
    <3>3. Members(u3[c]) = IF c = Ground THEN Bags ELSE {}
      BY <1>1, <1>8, <1>9
    <3> QED BY <3>1, <3>2, <3>3
  <2>3. \A i \in Objs : u4[i] = Nowhere <=> u1[i] = "none"
    BY <1>0, <1>3
  <2> QED BY <1>6, <2>1, <2>2, <2>3 DEF InPlace
<1>11. Roomy(w.lies)
  <2>1. \A b \in Bags : u3[b] = <<>>
    BY <1>3, <1>8 DEF Cyls
  <2>2. \A s \in Slots : u3[s] = <<>>
    BY <1>3, <1>8 DEF Cyls
  <2>3. \A b \in Bags : 0 <= Capacity[b]
    BY <1>3
  <2> QED BY <1>6, <2>1, <2>2, <2>3 DEF Roomy
<1>12. NoLoop(w.parent, Bags)
  <2> SUFFICES ASSUME NEW b \in Bags, b \in Outward(u4, Bags, u4[b]) PROVE FALSE
    BY <1>6 DEF NoLoop
  <2>1. u4[b] = Ground
    BY <1>0 DEF Objs
  <2>2. Closed(u4, Bags, {Ground})
    BY <1>3 DEF Closed
  <2>3. Outward(u4, Bags, Ground) \subseteq {Ground}
    BY <1>3, <2>2, OutwardIs
  <2> QED BY <1>3, <2>1, <2>3
<1>13. \A b \in Bags : w.total[b] = 0 /\ 0 \in 0 .. Wrap - 1
  BY <1>0, <1>3, <1>6
<1>14. Sound(w, {})
  BY <1>6, <1>7, <1>10, <1>11, <1>12, <1>13 DEF Sound
<1>15. Rich(w) = 0
  <2> DEFINE f == WorthIn(w.what, w.count)
             g == [i \in Stacks |-> 0]
  <2>1. \A i \in Stacks : f[i] = 0
    <3> TAKE i \in Stacks
    <3>1. w.what[i] = "none"
      BY <1>0, <1>3, <1>6 DEF Objs
    <3> QED BY <3>1 DEF WorthIn, OneWorth
  <2> HIDE DEF f
  <2>2. SumOver(f, Stacks) = 0
    BY <1>3, <2>1, SumOfZeros
  <2> QED BY <2>2 DEF Rich, f
<1>16. Weighed(w, Own(w))
  <2> SUFFICES ASSUME NEW b \in Bags PROVE Congruent(w.total[b], Told(w.count, w.total, Own(w), w.lies[b]))
    BY DEF Weighed
  <2>1. w.total[b] = 0
    BY <1>13
  <2>2. w.lies[b] = <<>>
    BY <1>3, <1>6, <1>8 DEF Cyls
  <2>3. Told(w.count, w.total, Own(w), w.lies[b]) = 0
    BY <1>9, <2>2, SumOfNone DEF Told
  <2>4. 0 \in Int
    OBVIOUS
  <2>5. Congruent(0, 0)
    BY <1>3, <2>4, CongruentSelf
  <2> QED BY <2>1, <2>3, <2>5
<1>17. Stands(w, u6, u7)
  BY <1>0, <1>14, <1>15, <1>16 DEF Stands
<1> QED BY <1>17 DEF ItemsIInv, w
=============================================================================
