-------------------------- MODULE MCCharacter --------------------------
(* What a character has and has done, and what its client shows: fights    *)
(* and their skulls, a tile, creatures, the windows of containers, who is  *)
(* told of what happens where, items and money, level and skills. They     *)
(* share no state, so they are checked side by side: a behaviour is one of *)
(* a single part, and as only one of them moves they use the same          *)
(* variables u1, u2, ... in turn. A tile with more things than a client    *)
(* keeps; four creatures for a client that may know two; two players with  *)
(* two windows on two bags; a player and a monster on five tiles in four   *)
(* leafs of the map, some of them just in range of another, on three       *)
(* floors; three stacks of coins and two bags, one of which weighs less    *)
(* than what is in it; a character that gains and loses several levels;    *)
(* two that fight.                                                         *)
EXTENDS Skulls, Integers, TLC

CONSTANTS g1, t1, y1, y2, d1, f1, f2, c1, c2, v1, v2, sack, chest, k1, k2, k3, bag, box,
  w1, w2, Nowhere, Ground, Player,
  Grounds, Tops, Downs, Splashes, Fields, Decaying, Harmful, Replaceable, Clearing, Dropped, Blocking, Quest, Walkers, TileMax, TileItems,
  Known, KnownMax, Watchers, Cases, Coins, Spots, Cids, MaxLength, Tiles, Asked, Ranges, Seers,
  Stacks, Bags, Reduced, Slots, Backpack, Full, TileLimit, Strength, Wrap, MaxWorth, MaxDrifts,
  Vocations, Promoted, DeathLosePercent, RookingLevel, FirstSkill, Blessings, Amounts,
  MaxLevel, MaxMagic, MaxSkill,
  Order, Capacity, ExpFor, ReqMana, ReqTries, HPGain, ManaGain, BaseOf

VARIABLES
  part,  \* which of them this behaviour is about
  u1, u2, u3, u4, u5, u6, u7, u8, u9

\* Stacks of coins are alike, and so are the creatures that a client may know.
Symmetry == Permutations(Stacks)

MCTiles == {<<100, 100, 7>>, <<111, 109, 7>>, <<113, 111, 5>>, <<100, 100, 8>>, <<88, 90, 10>>}
MCAsked == {<<111, 109, 7>>}
MCRanges == {<<255, 255>>}
MCOrder == (t1 :> 1) @@ (y1 :> 2) @@ (y2 :> 2)
MCCapacity == (bag :> 2) @@ (box :> 1)
MCExpFor == <<0, 1, 2, 3, 4, 5, 6, 7, 8, 10>>
Of4(a1, a2, a3, a4, n) == (n :> a1) @@ (n + 1 :> a2) @@ (n + 2 :> a3) @@ (n + 3 :> a4)
MCReqMana == (0 :> Of4(0, 1, 4, 4, 0)) @@ (1 :> Of4(0, 1, 2, 2, 0)) @@ (5 :> Of4(0, 1, 2, 2, 0))
MCReqTries == [v \in {0, 1, 5} |-> Of4(1, 2, 2, 2, 10)]
MCHPGain == [v \in {0, 1, 5} |-> 5]
MCBaseOf == [v \in {} |-> 0]
MCManaGain == (0 :> 5) @@ (1 :> 30) @@ (5 :> 30)

G == INSTANCE TileStack
  WITH Creatures <- Walkers, Limit <- TileMax, ItemLimit <- TileItems, ground <- u1, tops <- u2, creatures
       <- u3, downs <- u4, flags <- u5, seen <- u6, view <- u7, short <- u8,
       quest <- u9
K == INSTANCE KnownCreatures
  WITH Creatures <- Known, Limit <- KnownMax, inView <- u1, hidden <- u2, known <-
       u3, client <- u4, shown <- u5, crowded <- u6, garbled <- u7
W == INSTANCE Windows
  WITH Players <- Watchers, Bags <- Cases, where <- u1, content <- u2, at <- u3,
       windows <- u4, screens <- u5, doubled <- u6
S == INSTANCE Spectators
  WITH Creatures <- Walkers, Players <- Seers, Places <- Tiles, tiles <- u1, leafs
       <- u2, leafE <- u3, leafS <- u4, creature_list <- u5, parent <- u6,
       spectatorCache <- u7, playersSpectatorCache <- u8, awareRange <- u9
I == INSTANCE Items
  WITH Coins <- Stacks, what <- u1, count <- u2, lies <- u3, parent <- u4,
       totalWeight <- u5, cash <- u6, drifts <- u7
L == INSTANCE Levels
  WITH player <- u1, earned <- u2, chosen <- u3, fell <- u4, spoilt <- u5

ASSUME CharacterAssumption ==
  /\ G!TileAssumption /\ K!KnownAssumption /\ W!WindowsAssumption /\ S!SpectatorsAssumption
  /\ I!ItemsAssumption /\ L!LevelsAssumption

skulls_vars == <<fight, pzLocked, skull, attacked, grace, killerEnd, murders, unjust,
                 partners, struck>>
all == <<part, skulls_vars, u1, u2, u3, u4, u5, u6, u7, u8, u9>>

\* The step A of one part, which leaves the variables it does not use.
skulls_step(A) == part = "skulls" /\ A /\ UNCHANGED <<part, u1, u2, u3, u4, u5, u6, u7, u8, u9>>
tile_step(A) == part = "tile" /\ A /\ UNCHANGED <<part, skulls_vars>>
known_step(A) == part = "known" /\ A /\ UNCHANGED <<part, skulls_vars, u8, u9>>
windows_step(A) == part = "windows" /\ A /\ UNCHANGED <<part, skulls_vars, u7, u8, u9>>
map_step(A) == part = "map" /\ A /\ UNCHANGED <<part, skulls_vars>>
items_step(A) == part = "items" /\ A /\ UNCHANGED <<part, skulls_vars, u8, u9>>
levels_step(A) == part = "levels" /\ A /\ UNCHANGED <<part, skulls_vars, u6, u7, u8, u9>>

MCInit ==
  /\ part \in {"skulls", "tile", "known", "windows", "map", "items", "levels"}
  /\ Init
  /\ \/ part \in {"skulls"}
        /\ u1 = None /\ u2 = None /\ u3 = None /\ u4 = None /\ u5 = None /\ u6 = None
        /\ u7 = None /\ u8 = None /\ u9 = None
     \/ part = "tile" /\ G!Init
     \/ part = "known" /\ K!Init
        /\ u8 = None /\ u9 = None
     \/ part = "windows" /\ W!Init
        /\ u7 = None /\ u8 = None /\ u9 = None
     \/ part = "map" /\ S!Init
     \/ part = "items" /\ I!Init
        /\ u8 = None /\ u9 = None
     \/ part = "levels" /\ L!Init
        /\ u6 = None /\ u7 = None /\ u8 = None /\ u9 = None

MCNext ==
  \/ skulls_step(Next)
  \/ tile_step(G!Next)
  \/ known_step(K!Next)
  \/ windows_step(W!Next)
  \/ map_step(S!Next)
  \/ items_step(I!Next)
  \/ levels_step(L!Next)

MCSpec == MCInit /\ [][MCNext]_all

-----------------------------------------------------------------------------
\* What a client shows of a tile, of creatures and of open containers is what is there,
\* and it is told of whatever happens where it looks: TileInv of TileStack, KnownInv of
\* KnownCreatures, WindowsInv of Windows, SpectatorsInv of Spectators.
ClientsAgree ==
  /\ part = "tile" => G!TileInv
  /\ part = "known" => K!KnownInv
  /\ part = "windows" => W!WindowsInv
  /\ part = "map" => S!SpectatorsInv

\* Level, health, mana and skills follow from the experience, the mana spent and the
\* tries, whatever was gained and lost: LevelsInv of Levels.
LevelsInv == part = "levels" => L!LevelsInv

\* Coins, weights and places of items add up: ItemsInv of Items.
ItemsInv == part = "items" => I!ItemsInv

=============================================================================
