-------------------------------- MODULE Items --------------------------------
(***************************************************************************)
(* Where things lie and how they are moved (container.cpp, the cylinder    *)
(* functions of player.cpp and tile.cpp, and game.cpp's moving, adding,    *)
(* removing and paying): the ground under a player, the slots of his       *)
(* inventory, and bags that may lie in each other.  Coins lie in stacks.   *)
(* A bag keeps the weight of what it holds in a field.  The settings are   *)
(* those the server has by default: no autostack, no classic swap, no deep *)
(* search.                                                                 *)
(***************************************************************************)
EXTENDS Integers, Sequences, Functions, FiniteSets

CONSTANTS
  Coins,       \* objects that are stacks of coins, while they exist
  Bags,        \* objects that are containers
  Reduced,     \* ... those whose content weighs four fifths
  Capacity,    \* Container::maxSize
  Slots,       \* slots of the inventory, numbers in the order of the code
  Backpack,    \* the one of them that takes nothing but bags
  Full,        \* what a stack may hold; a platinum coin is worth as much gold
  TileLimit,   \* TILE_ITEM_LIMIT
  Strength,    \* the weight that the player can carry
  Wrap,        \* weights are counted modulo this
  MaxWorth, MaxDrifts,  \* bounds: of the money, of changes inside of Reduced
  Ground, Player, Nowhere, None

ItemsAssumption ==
  /\ IsFiniteSet(Coins) /\ IsFiniteSet(Bags) /\ IsFiniteSet(Slots)
  /\ Backpack \in Slots /\ Slots \subseteq Nat \ {0}
  /\ Coins \cap Bags = {} /\ Slots \cap (Coins \cup Bags) = {}
  /\ Ground \notin {Player, Nowhere, None} /\ Player \notin {Nowhere, None} /\ Nowhere # None
  /\ {Ground, Player, Nowhere, None} \cap (Coins \cup Bags \cup Slots) = {}
  /\ Reduced \subseteq Bags /\ Capacity \in [Bags -> Nat]
  /\ Full \in Nat \ {0} /\ Wrap \in Nat \ {0}
  /\ MaxWorth \in Nat /\ MaxWorth < Full * (Full + 1)

VARIABLES
  what,         \* "none", "gold", "platinum" or "bag"
  count,        \* Item::count
  lies,         \* what lies in each cylinder, the first first
  parent,       \* Item::parent
  totalWeight,  \* Container::totalWeight
  cash,         \* the money there should be
  drifts        \* how often something changed inside of one of Reduced in a bag

vars == <<what, count, lies, parent, totalWeight, cash, drifts>>

Objects == Coins \cup Bags
Cylinders == {Ground} \cup Slots \cup Bags
Wherever == 0       \* INDEX_WHEREEVER; places are counted from 1
Unit == 10          \* what a coin, or an empty bag, weighs

World == [what |-> what, count |-> count, lies |-> lies, parent |-> parent, total |-> totalWeight]

-----------------------------------------------------------------------------
(* Reading a world w.                                                      *)

Exists(w, i) == w.what[i] # "none"
Least(S) == CHOOSE x \in S : \A y \in S : x <= y

\* c and the cylinders around it
Around(w, c) ==
  LET up[n \in 0 .. Cardinality(Bags)] ==
        IF n = 0 THEN {c} ELSE up[n - 1] \cup {w.parent[b] : b \in up[n - 1] \cap Bags}
  IN up[Cardinality(Bags)]

\* getTopParent() is the player
Carried(w, c) == Around(w, c) \cap Slots # {}

Equal(w, i, j) == j # None /\ {i, j} \subseteq Coins /\ w.what[i] = w.what[j]

Worth(w, i) ==
  CASE w.what[i] = "gold" -> w.count[i]
    [] w.what[i] = "platinum" -> w.count[i] * Full
    [] OTHER -> 0
Money(w) == SumFunction([i \in Coins |-> Worth(w, i)])

\* getWeight
Weight(w, i) ==
  IF i \in Coins THEN w.count[i] * Unit
  ELSE (Unit + (IF i \in Reduced THEN (w.total[i] * 4) \div 5 ELSE w.total[i])) % Wrap

Held(w, s) == IF w.lies[s] = <<>> THEN None ELSE w.lies[s][1]
FreeCapacity(w) ==
  LET load == SumFunction([s \in Slots |-> IF Held(w, s) = None THEN 0 ELSE Weight(w, Held(w, s))])
  IN IF load >= Strength THEN 0 ELSE Strength - load
HasCapacity(w, i, k) ==
  Carried(w, w.parent[i]) \/ (IF i \in Coins THEN k * Unit ELSE Weight(w, i)) <= FreeCapacity(w)

-----------------------------------------------------------------------------
(* addThing, removeThing and updateThing of the cylinders.                 *)

\* updateItemWeight of the bags around what changed by diff
Weigh(w, c, diff) ==
  [w EXCEPT !.total = [b \in Bags |-> IF b \in Around(w, c)
                                      THEN (w.total[b] + diff + Wrap) % Wrap ELSE w.total[b]]]

\* A slot is assigned; a bag and the ground put it first.
Put(w, c, i) ==
  Weigh([w EXCEPT !.lies[c] = IF c \in Slots THEN <<i>> ELSE <<i>> \o @, !.parent[i] = c],
        c, Weight(w, i))

Resize(w, i, k) == Weigh([w EXCEPT !.count[i] = k], w.parent[i], (k - w.count[i]) * Unit)

\* s, in which x is, without x
Without(s, x) ==
  LET p == CHOOSE p \in 1 .. Len(s) : s[p] = x IN SubSeq(s, 1, p - 1) \o SubSeq(s, p + 1, Len(s))

\* k coins of a stack, or the object
Take(w, i, k) ==
  IF i \in Coins /\ k # w.count[i] THEN Resize(w, i, w.count[i] - k)
  ELSE [Weigh(w, w.parent[i], -Weight(w, i))
          EXCEPT !.lies[w.parent[i]] = Without(@, i), !.parent[i] = Nowhere]

Vanish(w, i) == [w EXCEPT !.what[i] = "none", !.count[i] = 0]
TakeAway(w, i, k) ==
  LET t == Take(w, i, k) IN IF t.parent[i] = Nowhere THEN Vanish(t, i) ELSE t

Unused(w) == {i \in Coins : ~Exists(w, i)}
Fresh(w) == CHOOSE i \in Unused(w) : TRUE
Made(w, kind, k) == [w EXCEPT !.what[Fresh(w)] = kind, !.count[Fresh(w)] = k]

-----------------------------------------------------------------------------
(* queryAdd, queryMaxCount and queryDestination of the cylinders.          *)

\* FLAG_CHILDISOWNER asks the player for the weight only.
BagTakes(w, b, at, i, k) ==
  IF \/ i \in Around(w, b)
     \/ at = Wherever /\ Len(w.lies[b]) >= Capacity[b]
     \/ Carried(w, b) /\ ~HasCapacity(w, i, k)
  THEN "no" ELSE "ok"

SlotTakes(w, s, i, k) ==
  IF (s = Backpack /\ i \notin Bags) \/ ~HasCapacity(w, i, k) THEN "no"
  ELSE IF Held(w, s) # None /\ ~Equal(w, i, Held(w, s)) THEN "exchange"
  ELSE "ok"

TileTakes(w) == IF Len(w.lies[Ground]) >= TileLimit THEN "no" ELSE "ok"

QueryAdd(w, c, at, i, k) ==
  CASE c = Ground -> TileTakes(w)
    [] c = Player -> "no"
    [] c \in Bags -> BagTakes(w, c, at, i, k)
    [] c \in Slots -> SlotTakes(w, c, i, k)

At(w, c, at) == IF at \in 1 .. Len(w.lies[c]) THEN w.lies[c][at] ELSE None
SpaceOfAny(w, i, j) == IF j \in Coins THEN Full - w.count[j] ELSE 0
Space(w, i, j) == IF Equal(w, i, j) THEN Full - w.count[j] ELSE 0

BagRoom(w, c, at, i, k) ==
  LET free == IF Len(w.lies[c]) >= Capacity[c] THEN 0 ELSE Capacity[c] - Len(w.lies[c])
      stacks == IF at = Wherever THEN Range(w.lies[c]) \ {i} ELSE {At(w, c, at)}
      n == SumFunction([j \in stacks |-> IF QueryAdd(w, c, 1, i, k) = "ok" THEN Space(w, i, j) ELSE 0])
  IN IF i \in Coins THEN free * Full + n ELSE free

SlotRoom(w, s, i, k) ==
  IF Held(w, s) # None THEN Space(w, i, Held(w, s))
  ELSE IF QueryAdd(w, s, s, i, k) # "ok" THEN 0
  ELSE IF i \in Coins THEN Full ELSE 1

\* the slots, and the bags in them, at any depth
PlayerRoom(w, i, k) ==
  LET bags(s) == {b \in Bags : Held(w, s) \in Around(w, b)}
  IN SumFunction([s \in Slots |-> IF Held(w, s) \notin Bags THEN SlotRoom(w, s, i, k)
                                  ELSE SumFunction([b \in bags(s) |-> BagRoom(w, b, Wherever, i, k)])])

MaxCount(w, c, at, i, k) ==
  CASE c = Ground -> k
    [] c = Player -> PlayerRoom(w, i, k)
    [] c \in Bags -> BagRoom(w, c, at, i, k)
    [] c \in Slots -> SlotRoom(w, c, i, k)

\* Where it goes, at which place, and the object that lies there.
There(c, at, to) == [c |-> c, at |-> at, to |-> to]
Inside(c, at, to) == IF to \in Bags THEN There(to, Wherever, None) ELSE There(c, at, to)

\* the first slot that takes it, or the first bag in a slot
FirstOf(w, empty, open) ==
  IF empty # {} THEN There(Least(empty), Least(empty), None)
  ELSE IF open # {} THEN There(Held(w, Least(open)), Len(w.lies[Held(w, Least(open))]) + 1, None)
  ELSE There(Player, Wherever, None)
AnyPlace(w, i) ==
  FirstOf(w, {s \in Slots : Held(w, s) = None /\ QueryAdd(w, s, s, i, w.count[i]) = "ok"},
             {s \in Slots : /\ Held(w, s) \in Bags \ {i}
                            /\ Len(w.lies[Held(w, s)]) < Capacity[Held(w, s)]
                            /\ QueryAdd(w, Held(w, s), 1, i, w.count[i]) = "ok"})

Destination(w, c, at, i) ==
  CASE c = Ground -> There(Ground, Wherever, At(w, Ground, 1))
    [] c = Player -> AnyPlace(w, i)
    [] c \in Bags -> IF at > Capacity[c] THEN There(c, Wherever, None) ELSE Inside(c, at, At(w, c, at))
    [] c \in Slots -> Inside(c, c, Held(w, c))

-----------------------------------------------------------------------------
(* internalMoveItem.                                                       *)

\* What lies in the slot goes to where i comes from.
Exchanged(w, d, i, k) ==
  LET from == w.parent[i]
  IN IF \/ from \in Bags /\ Len(w.lies[from]) = Capacity[from]
        \/ QueryAdd(w, from, 1, d.to, w.count[d.to]) # "ok"
        \/ MaxCount(w, from, Wherever, d.to, w.count[d.to]) = 0
     THEN w
     ELSE Put(Take(w, d.to, w.count[d.to]), from, d.to)

Min2(a, b) == IF a <= b THEN a ELSE b

\* m of i to where d says.  The part that does not go onto the stack there is a
\* clone of i; the object i when none of it stays.
Carry(w, d, i, m) ==
  LET n == Min2(Space(w, i, d.to), m)
      kind == w.what[i]
      taken == Take(w, i, m)
      grown == IF n > 0 THEN Resize(taken, d.to, w.count[d.to] + n) ELSE taken
      left == grown.parent[i] # Nowhere
      clone == IF left THEN Fresh(grown) ELSE i
  IN CASE i \in Bags -> Put(taken, d.c, i)
       [] i \in Coins /\ n = m -> IF left THEN grown ELSE Vanish(grown, i)
       [] i \in Coins /\ n < m ->
            Put([grown EXCEPT !.what[clone] = kind, !.count[clone] = m - n], d.c, clone)

CarryIf(w, d, i, k, room) ==
  IF room = 0 THEN w ELSE Carry(w, d, i, IF i \in Coins THEN Min2(k, room) ELSE 1)
MoveTo(w, d, i, k) ==
  IF QueryAdd(w, d.c, d.at, i, k) # "ok" THEN w
  ELSE CarryIf(w, d, i, k, MaxCount(w, d.c, d.at, i, k))
AfterExchange(w, x, d, i, k) == MoveTo(x, IF x # w THEN [d EXCEPT !.to = None] ELSE d, i, k)
MovedTo(w, d, i, k) ==
  IF d.to = i THEN w
  ELSE AfterExchange(w, IF QueryAdd(w, d.c, d.at, i, k) = "exchange" THEN Exchanged(w, d, i, k) ELSE w,
                     d, i, k)
Moved(w, i, k, c, at) == MovedTo(w, Destination(w, c, at, i), i, k)

-----------------------------------------------------------------------------
(* internalAddItem of an object that lies nowhere: the world after it, or  *)
(* the same when it is refused.  Only on the ground is there a stack to    *)
(* add to; what is left of it comes to lie above.                          *)

Stacked(w, d, i, n) ==
  LET grown == IF n > 0 THEN Resize(w, d.to, w.count[d.to] + n) ELSE w
  IN IF i \in Coins /\ n = w.count[i] THEN Vanish(grown, i)
     ELSE Put([grown EXCEPT !.count[i] = @ - n], d.c, i)
AddedAt(w, c, i, d) ==
  IF \/ QueryAdd(w, d.c, d.at, i, w.count[i]) # "ok"
     \/ MaxCount(w, IF c \in Slots THEN Player ELSE c, Wherever, i, w.count[i]) < w.count[i]
  THEN w
  ELSE Stacked(w, d, i, Min2(Space(w, i, d.to), w.count[i]))
Added(w, c, at, i) == AddedAt(w, c, i, Destination(w, c, at, i))

\* internalPlayerAddItem: empty slots first, then those with a bag, then the
\* ground.  The slot of the backpack is tried a last time.
GivenFirst(w, i, takes) ==
  LET free == {s \in takes : Held(w, s) = None}
  IN IF takes = {} THEN Added(w, Ground, Wherever, i)
     ELSE LET s == Least(IF free # {} THEN free ELSE takes) IN Added(w, s, s, i)
Given(w, i) ==
  GivenFirst(w, i, {s \in Slots : Held(w, s) \in Bags \cup {None} /\ Added(w, s, s, i) # w})

-----------------------------------------------------------------------------
(* addMoney and removeMoney.  Both give the world and what was lost: a     *)
(* change that the player cannot hold and the tile does not take.          *)

\* w, in which i is made, and what becomes of it: `to` when it found a place
HandedOver(x, w, i, to) ==
  IF to = w THEN [x EXCEPT !.lost = @ + Worth(w, i)] ELSE [x EXCEPT !.w = to]
OrDropped(w, i, onto) == IF onto = w THEN Added(w, Ground, Wherever, i) ELSE onto
HandedAs(x, w, i) == HandedOver(x, w, i, OrDropped(w, i, Added(w, Player, Wherever, i)))
Handed(x, kind, k) == IF k = 0 THEN x ELSE HandedAs(x, Made(x.w, kind, k), Fresh(x.w))

AddMoney(w, m) ==
  Handed(Handed([w |-> w, lost |-> 0], "gold", m % Full), "platinum", m \div Full)

Purse(w) == {i \in Coins : Exists(w, i) /\ Carried(w, w.parent[i])}

\* m is taken from the stacks in the order of what they are worth; of the first
\* that is worth more only as many coins as are needed, and the rest is given back.
Ceil(a, b) == (a + b - 1) \div b
WithChange(back) == [w |-> back.w, lost |-> back.lost, left |-> 0]
PayFrom(x, i) ==
  LET worth == Worth(x.w, i)
      one == worth \div x.w.count[i]
      k == Ceil(x.left, one)
  IN IF x.left = 0 THEN x
     ELSE IF worth <= x.left
     THEN [x EXCEPT !.w = TakeAway(x.w, i, x.w.count[i]), !.left = @ - worth]
     ELSE WithChange(AddMoney(TakeAway(x.w, i, k), one * k - x.left))

\* Of stacks that are worth the same any may come first.
ByWorth(w) ==
  {s \in Injection(1 .. Cardinality(Purse(w)), Purse(w)) :
     \A a, b \in DOMAIN s : a < b => Worth(w, s[a]) <= Worth(w, s[b])}

RemoveMoney(w, m, stacks) ==
  LET after[n \in 0 .. Len(stacks)] ==
        IF n = 0 THEN [w |-> w, lost |-> 0, left |-> m] ELSE PayFrom(after[n - 1], stacks[n])
  IN after[Len(stacks)]

-----------------------------------------------------------------------------
InARow == CHOOSE s \in Injection(1 .. Cardinality(Bags), Bags) : TRUE
Init ==
  /\ what = [i \in Objects |-> IF i \in Bags THEN "bag" ELSE "none"]
  /\ count = [i \in Objects |-> IF i \in Bags THEN 1 ELSE 0]
  /\ lies = [c \in Cylinders |-> IF c = Ground THEN InARow ELSE <<>>]
  /\ parent = [i \in Objects |-> IF i \in Bags THEN Ground ELSE Nowhere]
  /\ totalWeight = [b \in Bags |-> 0]
  /\ cash = 0 /\ drifts = 0

\* Something changed in a bag of reduced weight, and a bag is around it.
Drifts(w) ==
  \E b \in Reduced : /\ w.total[b] # totalWeight[b]
                     /\ parent[b] \in Bags \/ w.parent[b] \in Bags

Becomes(w, money) ==
  /\ what' = w.what /\ count' = w.count /\ lies' = w.lies /\ parent' = w.parent
  /\ totalWeight' = w.total
  /\ cash' = money
  /\ drifts' = IF Drifts(w) THEN drifts + 1 ELSE drifts
  /\ drifts' <= MaxDrifts

\* what a player drags to a place he sees
Move(i) ==
  /\ Exists(World, i) /\ Unused(World) # {}
  /\ \E k \in 1 .. count[i], c \in Cylinders \cup {Player} :
     /\ c \in Bags => Exists(World, c)
     /\ \E at \in IF c \in Bags THEN {Wherever} \cup 1 .. Capacity[c] ELSE {Wherever} :
        Becomes(Moved(World, i, k, c, at), cash)

Create(kind) ==
  /\ Unused(World) # {}
  /\ \E k \in 1 .. Full :
     \E w \in {Made(World, kind, k)} : \E given \in {Given(w, Fresh(World))} :
        /\ cash + Worth(w, Fresh(World)) <= MaxWorth
        /\ given # w
        /\ Becomes(given, cash + Worth(w, Fresh(World)))

\* internalRemoveItem; an object in a bag that goes is gone with it
Destroy(i) ==
  /\ Exists(World, i) /\ i \in Coins
  /\ \E k \in 1 .. count[i] :
     Becomes(TakeAway(World, i, k), cash - k * (Worth(World, i) \div count[i]))

\* transformItem: full stacks of gold become platinum, and back
Change(i) ==
  /\ Exists(World, i) /\ i \in Coins
  /\ \/ /\ what[i] = "gold" /\ count[i] = Full
        /\ Becomes(Resize([World EXCEPT !.what[i] = "platinum"], i, 1), cash)
     \/ /\ what[i] = "platinum" /\ count[i] = 1
        /\ Becomes(Resize([World EXCEPT !.what[i] = "gold"], i, Full), cash)

Earn(m) ==
  /\ Cardinality(Unused(World)) >= 2
  /\ cash + m <= MaxWorth
  /\ \E x \in {AddMoney(World, m)} : Becomes(x.w, cash + m - x.lost)

Pay(m) ==
  /\ Cardinality(Unused(World)) >= 1
  /\ SumFunction([i \in Purse(World) |-> Worth(World, i)]) >= m
  /\ \E stacks \in ByWorth(World) :
     \E x \in {RemoveMoney(World, m, stacks)} : Becomes(x.w, cash - m - x.lost)

Next ==
  \/ \E i \in Objects : Move(i) \/ Destroy(i) \/ Change(i)
  \/ \E kind \in {"gold", "platinum"} : Create(kind)
  \/ \E m \in 1 .. MaxWorth : Earn(m) \/ Pay(m)

Spec == Init /\ [][Next]_vars

-----------------------------------------------------------------------------
ItemsTypeOK ==
  /\ \A i \in Coins : what[i] \in {"none", "gold", "platinum"} /\ count[i] \in 0 .. Full
  /\ \A i \in Objects : Exists(World, i) <=> count[i] > 0
  /\ totalWeight \in [Bags -> 0 .. Wrap - 1]

\* Everything lies in one place, the one it thinks it lies in, and no bag is in
\* itself.
OnePlace ==
  /\ \A c \in Cylinders : IsInjective(lies[c])
  /\ \A i \in Objects, c \in Cylinders : i \in Range(lies[c]) <=> parent[i] = c
  /\ \A i \in Objects : Exists(World, i) <=> parent[i] # Nowhere
  /\ \A b \in Bags : b \notin Around(World, parent[b])

\* No bag holds more than it can, no slot more than one object, no stack more
\* than a full one.
NotTooMany ==
  /\ \A b \in Bags : Len(lies[b]) <= Capacity[b]
  /\ \A s \in Slots : Len(lies[s]) <= 1

\* No coin is lost or made by moving, paying and changing.
NoCoinLost == Money(World) = cash

\* A bag knows the weight of what it holds, as far as a word can hold it, unless
\* something changed in a bag of reduced weight inside of it: that is told with its
\* full weight.
WeightKnown ==
  drifts = 0 =>
    \A b \in Bags : totalWeight[b] = SumFunction([i \in Range(lies[b]) |-> Weight(World, i)]) % Wrap

ItemsInv == ItemsTypeOK /\ OnePlace /\ NotTooMany /\ NoCoinLost /\ WeightKnown

=============================================================================
