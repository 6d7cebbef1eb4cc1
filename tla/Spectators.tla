---------------------------- MODULE Spectators ----------------------------
(* Who is told of what happens at a place: Map::getSpectators, the two     *)
(* caches it keeps, the lists of creatures that it scans leaf by leaf      *)
(* along the pointers from each leaf to its eastern and southern           *)
(* neighbour, and the operations that move creatures and extend the map.   *)
(* A place is <<x, y, z>>; floors 0 to 7 are above the ground, 8 to 15     *)
(* below. What a client sees is ProtocolGame::canSee, whose range the      *)
(* client may change.                                                      *)
EXTENDS Integers, FiniteSets

CONSTANTS
  Creatures,  \* the creatures
  Players,    \* those of them that are players
  Places,     \* the places where a tile may be
  Asked,      \* (bound) the places that others ask for
  Ranges,     \* (bound) the <<width, height>> that clients ask for
  None

SpectatorsAssumption ==
  /\ Players \subseteq Creatures
  /\ Places \subseteq Nat \X Nat \X (0 .. 15) /\ Asked \subseteq Places
  /\ Ranges \subseteq Nat \X Nat
  /\ None \notin Places \cup (Nat \X Nat)

VARIABLES
  tiles,                  \* the places with a tile
  leafs,                  \* the leafs of the tree, each 8 by 8 tiles on all floors
  leafE, leafS,           \* the neighbours they point to
  creature_list,          \* the creatures that each leaf lists
  parent,                 \* the place of each creature, None outside the map
  spectatorCache,         \* the answer kept for each place, None where none is
  playersSpectatorCache,  \* the same, of players only
  awareRange              \* what the client of each player shows

vars == <<tiles, leafs, leafE, leafS, creature_list, parent, spectatorCache,
          playersSpectatorCache, awareRange>>

FLOOR_SIZE == 8
maxViewportX == 12
maxViewportY == 10

Least(i, j) == IF i < j THEN i ELSE j
Most(i, j) == IF i > j THEN i ELSE j

LeafOf(q) == <<q[1] \div FLOOR_SIZE, q[2] \div FLOOR_SIZE>>
\* The leaf at l, or None: getLeafStatic.
LeafAt(l) == IF l \in leafs THEN l ELSE None

\* The floors that are asked with the floor z.
MinZ(z) == IF z > 7 THEN z - 2 ELSE 0
MaxZ(z) == IF z > 7 THEN Least(z + 2, 15) ELSE IF z = 6 THEN 8 ELSE IF z = 7 THEN 9 ELSE 7

\* Creatures are compared with the range around the centre, shifted by the floors between.
InRange(centre, q) ==
  LET offsetZ == centre[3] - q[3]
  IN  /\ q[3] \in MinZ(centre[3])..MaxZ(centre[3])
      /\ q[1] - centre[1] - offsetZ \in -maxViewportX..maxViewportX
      /\ q[2] - centre[2] - offsetZ \in -maxViewportY..maxViewportY

\* A walk of n leafs along pointers, from `start` at place l of the tree in direction d.
\* Where a pointer is null the leaf of the next place is looked up.
Walk(start, link, l, d, n) ==
  LET leaf[i \in 0 .. n] ==
        IF i = 0 THEN start
        ELSE LET last == leaf[i - 1]
             IN  IF last # None THEN link[last] ELSE LeafAt(<<l[1] + i * d[1], l[2] + i * d[2]>>)
  IN  leaf

\* The leafs that getSpectatorsInternal visits: row by row from the leaf of the
\* north-western corner of all that may be in range, along leafE, and leafS for the first
\* of each row.
Visited(centre) ==
  LET minoffset == centre[3] - MaxZ(centre[3])
      maxoffset == centre[3] - MinZ(centre[3])
      startX == Most(0, centre[1] - maxViewportX + minoffset) \div FLOOR_SIZE
      startY == Most(0, centre[2] - maxViewportY + minoffset) \div FLOOR_SIZE
      columns == (centre[1] + maxViewportX + maxoffset) \div FLOOR_SIZE - startX
      rows == (centre[2] + maxViewportY + maxoffset) \div FLOOR_SIZE - startY
      first == Walk(LeafAt(<<startX, startY>>), leafS, <<startX, startY>>, <<0, 1>>, rows)
      Row(j) == LET row == Walk(first[j], leafE, <<startX, startY + j>>, <<1, 0>>, columns)
                IN  {row[i] : i \in 0 .. columns}
  IN  (UNION {Row(j) : j \in 0 .. rows}) \ {None}

\* What it finds in lists `listed` when the creatures are at `place`.
Found(centre, listed, place) ==
  {c \in UNION {listed[l] : l \in Visited(centre)} : InRange(centre, place[c])}
Scan(centre) == Found(centre, creature_list, parent)

\* What getSpectators answers for the usual range over several floors.
Answer(centre, onlyPlayers) ==
  IF onlyPlayers /\ playersSpectatorCache[centre] # None THEN playersSpectatorCache[centre]
  ELSE LET all == IF spectatorCache[centre] # None THEN spectatorCache[centre] ELSE Scan(centre)
       IN  IF onlyPlayers THEN all \cap Players ELSE all

Empty == [q \in Places |-> None]
-----------------------------------------------------------------------------
Init ==
  /\ tiles = {} /\ leafs = {}
  /\ leafE = [l \in {} |-> None] /\ leafS = [l \in {} |-> None]
  /\ creature_list = [l \in {} |-> {}]
  /\ parent = [c \in Creatures |-> None]
  /\ spectatorCache = Empty /\ playersSpectatorCache = Empty
  /\ awareRange = [v \in Players |-> <<17, 13>>]

\* Map::setTile: the first tile of a leaf makes the leaf, which its neighbours in the
\* north and west are to point to, and which points to those in the south and east.
SetTile(q) ==
  LET l == LeafOf(q)
      north == <<l[1], l[2] - 1>>
      west == <<l[1] - 1, l[2]>>
  IN  /\ q \notin tiles
      /\ tiles' = tiles \cup {q}
      /\ IF l \in leafs
         THEN UNCHANGED <<leafs, leafE, leafS, creature_list>>
         ELSE /\ leafs' = leafs \cup {l}
              /\ leafS' = [m \in leafs \cup {l} |-> IF m = north THEN l
                                            ELSE IF m = l THEN LeafAt(<<l[1], l[2] + 1>>)
                                            ELSE leafS[m]]
              /\ leafE' = [m \in leafs \cup {l} |-> IF m = west THEN l
                                            ELSE IF m = l THEN LeafAt(<<l[1] + 1, l[2]>>)
                                            ELSE leafE[m]]
              /\ creature_list' = [m \in leafs \cup {l} |-> IF m = l THEN {} ELSE creature_list[m]]
      /\ UNCHANGED <<parent, spectatorCache, playersSpectatorCache, awareRange>>

\* Clearing what is kept when the creature c comes to a tile or leaves it.
Cleared(c) ==
  /\ spectatorCache' = Empty
  /\ playersSpectatorCache' = IF c \in Players THEN Empty ELSE playersSpectatorCache

\* Map::placeCreature and the query with which Game::placeCreature then finds whom to tell.
PlaceCreature(c, q) ==
  /\ parent[c] = None /\ q \in tiles
  /\ parent' = [parent EXCEPT ![c] = q]
  /\ creature_list' = [creature_list EXCEPT ![LeafOf(q)] = @ \cup {c}]
  /\ spectatorCache' = [Empty EXCEPT ![q] = Found(q, creature_list', parent')]
  /\ playersSpectatorCache' = IF c \in Players THEN Empty ELSE playersSpectatorCache
  /\ UNCHANGED <<tiles, leafs, leafE, leafS, awareRange>>

\* Map::moveCreature: the queries it begins with are kept only until the creature leaves
\* its tile. The lists of the leafs change only when the creature changes leaf.
MoveCreature(c, q) ==
  LET from == LeafOf(parent[c])
      to == LeafOf(q)
  IN  /\ parent[c] \notin {None, q} /\ q \in tiles
      /\ creature_list' = IF from = to THEN creature_list
                          ELSE [creature_list EXCEPT ![from] = @ \ {c}, ![to] = @ \cup {c}]
      /\ parent' = [parent EXCEPT ![c] = q]
      /\ Cleared(c)
      /\ UNCHANGED <<tiles, leafs, leafE, leafS, awareRange>>

\* Game::removeCreature, as far as Tile::removeCreature.
RemoveCreature(c) ==
  /\ parent[c] # None
  /\ creature_list' = [creature_list EXCEPT ![LeafOf(parent[c])] = @ \ {c}]
  /\ parent' = [parent EXCEPT ![c] = None]
  /\ Cleared(c)
  /\ UNCHANGED <<tiles, leafs, leafE, leafS, awareRange>>

\* A query of the usual range over several floors: an answer is kept where it was not
\* found, for players alone too when all the creatures are not known.
GetSpectators(q, onlyPlayers) ==
  /\ spectatorCache[q] = None
  /\ IF onlyPlayers
     THEN /\ playersSpectatorCache[q] = None
          /\ playersSpectatorCache' = [playersSpectatorCache EXCEPT ![q] = Scan(q) \cap Players]
          /\ UNCHANGED spectatorCache
     ELSE /\ spectatorCache' = [spectatorCache EXCEPT ![q] = Scan(q)]
          /\ UNCHANGED playersSpectatorCache
  /\ UNCHANGED <<tiles, leafs, leafE, leafS, creature_list, parent, awareRange>>

Odd(n) == IF n % 2 = 1 THEN n ELSE n - 1
\* ProtocolGame::updateAwareRange, of the client that says what it can show.
UpdateAwareRange(v, size) ==
  /\ awareRange' = [awareRange EXCEPT ![v] =
       <<Odd(Least(maxViewportX * 2 - 1, Least((maxViewportX - 2) * 2 + 1, Most(15, size[1])))),
         Odd(Least(maxViewportY * 2 - 1, Least((maxViewportY - 2) * 2 + 1, Most(11, size[2]))))>>]
  /\ UNCHANGED <<tiles, leafs, leafE, leafS, creature_list, parent, spectatorCache,
                 playersSpectatorCache>>

Next ==
  \/ \E q \in Places : SetTile(q)
  \/ \E c \in Creatures, q \in Places : PlaceCreature(c, q) \/ MoveCreature(c, q)
  \/ \E c \in Creatures : RemoveCreature(c)
  \/ \E q \in Asked, onlyPlayers \in BOOLEAN : GetSpectators(q, onlyPlayers)
  \/ \E v \in Players, size \in Ranges : UpdateAwareRange(v, size)

Spec == Init /\ [][Next]_vars
-----------------------------------------------------------------------------
\* ProtocolGame::canSee of a player at `my`: floors and range, shifted by the floors between.
CanSee(v, q) ==
  LET my == parent[v]
      offsetz == my[3] - q[3]
      width == awareRange[v][1]
      height == awareRange[v][2]
  IN  /\ IF my[3] <= 7 THEN q[3] <= 7 ELSE offsetz \in -2..2
      /\ q[1] - my[1] - offsetz \in -(width \div 2)..(1 + width \div 2)
      /\ q[2] - my[2] - offsetz \in -(height \div 2)..(1 + height \div 2)

OnMap(c) == parent[c] # None

\* Each creature on the map is listed by the leaf of its place, and by no other.
Listed ==
  \A l \in leafs : creature_list[l] = {c \in Creatures : OnMap(c) /\ LeafOf(parent[c]) = l}

\* The scan misses nobody in range, in whatever order the leafs were made and linked.
ScanComplete ==
  \A q \in tiles : Scan(q) = {c \in Creatures : OnMap(c) /\ InRange(q, parent[c])}

\* What is kept is what a scan would find now.
CachesFresh ==
  /\ \A q \in Places : spectatorCache[q] \in {None, Scan(q)}
  /\ \A q \in Places : playersSpectatorCache[q] \in {None, Scan(q) \cap Players}

\* Whoever's client shows a place is among those who are told of what happens there.
SeenIsTold ==
  \A v \in Players, q \in tiles : OnMap(v) /\ CanSee(v, q) => v \in Answer(q, TRUE) /\ v \in Answer(q, FALSE)

\* The creatures told of an event are those in range of it, found in lists of leafs or kept
\* from an earlier question, and each client that shows the place is among them: caches
\* that are cleared too seldom, a leaf without a link, or a client that is wider than the
\* range leave things on its screen that are no longer there.
SpectatorsInv == Listed /\ ScanComplete /\ CachesFresh /\ SeenIsTold
=============================================================================
