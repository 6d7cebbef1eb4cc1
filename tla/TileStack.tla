----------------------------- MODULE TileStack -----------------------------
(***************************************************************************)
(* One tile of the map and what a client is shown of it (tile.cpp, and the *)
(* messages of protocolgame.cpp and player.h about a tile).  The server    *)
(* keeps the ground, the items that are always on top, the creatures and   *)
(* the other items; and flags, which cache what those items do to who      *)
(* wants to walk there.  The client keeps one list of at most Limit things *)
(* and is told of each change by a position in it.                         *)
(***************************************************************************)
EXTENDS Naturals, Sequences, Functions, FiniteSets

CONSTANTS Grounds, Tops, Downs,  \* items, by where they lie
          Order,       \* alwaysOnTopOrder of those in Tops
          Splashes,    \* ... which of them are splashes
          Fields,      \* those in Downs that are magic fields
          Decaying, Harmful, Replaceable,  \* ... and their kinds
          Clearing,    \* those in Downs that fields make way for (replaceMagicFields)
          Dropped,     \* the corpses that monsters leave (specialCorpseDrop)
          Blocking,    \* items that block whoever walks
          Quest,       \* items with an action id of a quest, and a height
          Creatures,
          Limit,       \* how many things a client keeps (10)
          ItemLimit,   \* ConfigManager::TILE_ITEM_LIMIT
          None

Items == Grounds \cup Tops \cup Downs

\* A thing is of one kind.
TileAssumption ==
  /\ Limit \in Nat /\ ItemLimit \in Nat /\ Fields \subseteq Clearing /\ Splashes \subseteq Tops /\ None \notin Items
  /\ Grounds \cap (Tops \cup Downs) = {} /\ Tops \cap Downs = {} /\ Creatures \cap Items = {}

VARIABLES
  ground,     \* Tile::ground
  tops,       \* the top items of the TileItemVector
  creatures,  \* the CreatureVector, oldest first
  downs,      \* the down items, newest first
  flags,      \* Tile::flags, those of items
  seen,       \* the creatures the client may see
  view,       \* the client's list
  short,      \* a creature hid since the client last got the whole tile
  quest       \* an item of a quest has lain here

tile == <<ground, tops, creatures, downs>>
vars == <<ground, tops, creatures, downs, flags, seen, view, short, quest>>

Init ==
  /\ ground = None /\ tops = <<>> /\ creatures = <<>> /\ downs = <<>>
  /\ flags = {} /\ seen = Creatures /\ view = <<>>
  /\ short = FALSE /\ quest = FALSE

-----------------------------------------------------------------------------
(* The order of things.                                                    *)

Base(g) == IF g = None THEN <<>> ELSE <<g>>
Here == Range(Base(ground)) \cup Range(tops) \cup Range(downs)

First(s) == SubSeq(s, 1, IF Len(s) < Limit THEN Len(s) ELSE Limit)
Visible(cs, sees) ==
  LET shown[n \in 0 .. Len(cs)] ==
        IF n = 0 THEN <<>>
        ELSE IF cs[n] \in sees THEN <<cs[n]>> \o shown[n - 1] ELSE shown[n - 1]
  IN shown[Len(cs)]
Stack(g, ts, cs, ds, sees) == Base(g) \o ts \o Visible(cs, sees) \o ds

\* GetTileDescription
Description(g, ts, cs, ds, sees) == First(Stack(g, ts, cs, ds, sees))

ThingCount(g, ts, cs, ds) == Len(Base(g)) + Len(ts) + Len(cs) + Len(ds)

\* a list with e at the place i, and without what is there
InsertAt(s, i, e) == SubSeq(s, 1, i - 1) \o <<e>> \o SubSeq(s, i, Len(s))
RemoveAt(s, i) == SubSeq(s, 1, i - 1) \o SubSeq(s, i + 1, Len(s))

At(x, s) == CHOOSE i \in 1 .. Len(s) : s[i] = x
IsIn(x, s) == \E i \in 1 .. Len(s) : s[i] = x
Without(s, x) == IF IsIn(x, s) THEN RemoveAt(s, At(x, s)) ELSE s

\* getStackposOfItem and getClientIndexOfCreature, counted from 1
Position(x, s) == At(x, s)

-----------------------------------------------------------------------------
(* The client.  It ignores what is about a place it does not have.         *)

Inserted(v, i, x) ==
  IF i > Limit \/ i > Len(v) + 1 THEN v ELSE First(InsertAt(v, i, x))
Removed(v, i) == IF i > Len(v) THEN v ELSE RemoveAt(v, i)
Updated(v, i, x) == IF i > Len(v) THEN v ELSE [v EXCEPT ![i] = x]

-----------------------------------------------------------------------------
(* setTileFlags and resetTileFlags: what is kept of the items here.        *)

Flagged(fs, i) ==
  fs \cup (IF i \in Blocking \cup Quest THEN {"block"} ELSE {})
     \cup (IF i \in Fields THEN {"field"} ELSE {})

UnflaggedAtOnce(fs, i, others) ==
  fs \ ((IF i \in Blocking \cup Quest THEN {"block"} ELSE {})
        \cup (IF i \in Fields THEN {"field"} ELSE {}))
Unflagged(fs, i, others) ==
  fs \ ((IF (i \in Blocking /\ others \cap Blocking = {}) \/ i \in Quest THEN {"block"} ELSE {})
        \cup (IF i \in Fields THEN {"field"} ELSE {}))

-----------------------------------------------------------------------------
(* addThing and removeThing, as functions of [t |-> tops, d |-> downs,     *)
(* fl |-> flags, v |-> view].                                              *)

Tile == [g |-> ground, t |-> tops, d |-> downs, fl |-> flags, v |-> view]
StackOf(t) == Stack(t.g, t.t, creatures, t.d, seen)
ItemsOf(t) == Range(Base(t.g)) \cup Range(t.t) \cup Range(t.d)

\* the item is out of the list when the flags are reset; the place in the
\* client's list is that of before
TakeOut(t, i) ==
  LET rest == [t EXCEPT !.g = IF @ = i THEN None ELSE @,
                        !.t = Without(@, i), !.d = Without(@, i)]
  IN [rest EXCEPT !.fl = Unflagged(@, i, ItemsOf(rest)),
                  !.v = Removed(@, Position(i, StackOf(t)))]

\* postRemoveNotification, and a tile that is crowded is sent again
RefreshNever(v, count, stack) == v
Refresh(v, count, stack) == IF count > Limit - 2 THEN First(stack) ELSE v

Refreshed(t) ==
  [t EXCEPT !.v = Refresh(@, ThingCount(t.g, t.t, creatures, t.d), StackOf(t))]

TakenOut(t, i) == Refreshed(TakeOut(t, i))

\* onAddTileItem
Announce(t, i) ==
  [t EXCEPT !.fl = Flagged(@, i), !.v = Inserted(@, Position(i, StackOf(t)), i)]

AddGround(t, i) ==
  IF t.g = None THEN Announce([t EXCEPT !.g = i], i)
  ELSE Refreshed([t EXCEPT
         !.g = i, !.v = Updated(@, 1, i),
         !.fl = Flagged(Unflagged(@, t.g, ItemsOf([t EXCEPT !.g = i])), i)])

\* Before the first that is not below it in the order.
InOrder(ts, i) ==
  LET after == {j \in 1 .. Len(ts) : Order[i] <= Order[ts[j]]}
  IN IF after = {} THEN Append(ts, i)
     ELSE InsertAt(ts, CHOOSE j \in after : \A k \in after : j <= k, i)

AddTop(t, i) ==
  LET old == {s \in Range(t.t) : i \in Splashes /\ s \in Splashes}
      dry == IF old = {} THEN t ELSE TakenOut(t, CHOOSE s \in old : TRUE)
      refused == i \in Splashes /\ \E s \in Range(dry.t) : Order[s] = Order[i]
  IN IF refused THEN dry ELSE Announce([dry EXCEPT !.t = InOrder(@, i)], i)

\* The first field that is not passed over is replaced, or keeps the new one out.
AddDown(t, i) ==
  LET Passed(f) ==
        \/ f \notin Fields
        \/ f \notin Decaying /\ (f \notin Harmful \/ f \in Replaceable \/ i \in Dropped)
      met == {j \in 1 .. Len(t.d) : i \in Clearing /\ ~Passed(t.d[j])}
      f == t.d[CHOOSE j \in met : \A k \in met : j <= k]
      Put(s) == Announce([s EXCEPT !.d = <<i>> \o @], i)
  IN IF met = {} THEN Put(t)
     ELSE IF f \in Decaying /\ f \in Replaceable THEN Put(TakenOut(t, f))
     ELSE t

Becomes(t) ==
  /\ ground' = t.g /\ tops' = t.t /\ downs' = t.d /\ flags' = t.fl /\ view' = t.v
  /\ short' = (short /\ t.v # First(Stack(t.g, t.t, creatures, t.d, seen)))
  /\ UNCHANGED <<creatures, seen>>

-----------------------------------------------------------------------------
(* What happens on a tile.                                                 *)

\* addThing; a full tile takes nothing.
AddItem(i) ==
  /\ i \notin Here /\ Len(tops) + Len(downs) < ItemLimit
  /\ Becomes(IF i \in Grounds THEN AddGround(Tile, i)
             ELSE IF i \in Tops THEN AddTop(Tile, i) ELSE AddDown(Tile, i))
  /\ quest' = (quest \/ i \in Quest)

\* Game::internalRemoveItem and internalMoveItem
RemoveItem(i) ==
  /\ i \in Here
  /\ Becomes(TakenOut(Tile, i))
  /\ UNCHANGED quest

\* Game::transformItem, to another item of its kind: replaceThing.  What
\* updateThing does in place differs by not being a new object.  A splash only
\* dries to a splash.
Transform(i, j) ==
  /\ i \in Here /\ j \notin Here
  /\ \E class \in {Grounds, Splashes, Tops \ Splashes, Downs} : i \in class /\ j \in class
  /\ LET Swap(x) == IF x = i THEN j ELSE x
         t == [Tile EXCEPT !.g = Swap(@), !.t = [k \in DOMAIN @ |-> Swap(@[k])],
                           !.d = [k \in DOMAIN @ |-> Swap(@[k])]]
     IN Becomes(Refreshed([t EXCEPT
          !.fl = Flagged(Unflagged(@, i, ItemsOf(t)), j),
          !.v = Updated(@, Position(j, StackOf(t)), j)]))
  /\ quest' = (quest \/ j \in Quest)

\* ... and to one that lies elsewhere: removed and added.
TransformAcross(i, j) ==
  /\ i \in Here /\ j \notin Here
  /\ (i \in Tops) # (j \in Tops) /\ i \notin Grounds /\ j \notin Grounds
  /\ LET t == TakenOut(Tile, i)
     IN Becomes(IF j \in Tops THEN AddTop(t, j) ELSE AddDown(t, j))
  /\ quest' = (quest \/ j \in Quest)

Whole(cs, sees) == Description(ground, tops, cs, downs, sees)
WithCreatures(cs, sees, v) ==
  /\ creatures' = cs /\ seen' = sees /\ view' = v
  /\ UNCHANGED <<ground, tops, downs, flags, quest>>

\* sendAddCreature: the place may be beyond the limit, then the whole tile is sent.
Appear(cs, sees, c) ==
  LET i == Position(c, Stack(ground, tops, cs, downs, sees))
  IN IF i > Limit THEN Whole(cs, sees) ELSE Inserted(view, i, c)

Enter(c) ==
  /\ c \in seen /\ ~IsIn(c, creatures) /\ ground # None
  /\ WithCreatures(Append(creatures, c), seen, Appear(Append(creatures, c), seen, c))
  /\ short' = (short /\ view' # Whole(creatures', seen))

\* getClientIndexOfCreature counts the visible creatures before it, so it also
\* says where one would be that is not seen.
ClientIndex(c) == Position(c, Stack(ground, tops, creatures, downs, seen \cup {c}))

\* removeCreature and the side of moveCreature that is about the old tile
Leave(c) ==
  /\ IsIn(c, creatures)
  /\ LET cs == Without(creatures, c)
         v == IF c \in seen THEN Removed(view, ClientIndex(c)) ELSE view
     IN WithCreatures(cs, seen, Refresh(v, ThingCount(ground, tops, cs, downs),
                                        Stack(ground, tops, cs, downs, seen)))
  /\ short' = (short /\ view' # Whole(creatures', seen))

\* A monster becomes invisible, a player a ghost.  Nothing is sent again.
Hide(c) ==
  /\ IsIn(c, creatures) /\ c \in seen
  /\ WithCreatures(creatures, seen \ {c}, Removed(view, ClientIndex(c)))
  /\ short' = (view' # Whole(creatures, seen'))

Show(c) ==
  /\ IsIn(c, creatures) /\ c \notin seen
  /\ WithCreatures(creatures, seen \cup {c}, Appear(creatures, seen \cup {c}, c))
  /\ short' = (short /\ view' # Whole(creatures, seen'))

\* Away from here a creature may come into sight again.
Reveal(c) ==
  /\ ~IsIn(c, creatures) /\ c \notin seen
  /\ WithCreatures(creatures, seen \cup {c}, view) /\ UNCHANGED short

Next ==
  \/ \E i \in Items : AddItem(i) \/ RemoveItem(i)
  \/ \E i, j \in Items : Transform(i, j) \/ TransformAcross(i, j)
  \/ \E c \in Creatures : Enter(c) \/ Leave(c) \/ Hide(c) \/ Show(c) \/ Reveal(c)

Spec == Init /\ [][Next]_vars

-----------------------------------------------------------------------------
TileTypeOK ==
  /\ ground \in Grounds \cup {None}
  /\ Range(tops) \subseteq Tops /\ Range(downs) \subseteq Downs
  /\ Range(creatures) \subseteq Creatures
  /\ \A s \in {tops, downs, creatures} : IsInjective(s)
  /\ flags \subseteq {"block", "field"} /\ seen \subseteq Creatures

IsPrefix(s, t) == Len(s) <= Len(t) /\ SubSeq(s, 1, Len(s)) = SubSeq(t, 1, Len(s))

\* The client has the beginning of the stack, in the server's order; all of
\* what fits, unless a creature hid while more lay there than fits.
ClientAgrees ==
  /\ IsPrefix(view, Stack(ground, tops, creatures, downs, seen))
  /\ ~short => view = Whole(creatures, seen)

\* A new splash takes the place of the old one.
OneSplash == Cardinality(Range(tops) \cap Splashes) <= 1

\* A tile is closed for walking while something blocks it, and open when
\* nothing does; but an item of a quest, when it leaves, opens a tile that
\* another still blocks.  The field flag is never there without a field.
FlagsTrue ==
  /\ "block" \in flags => Here \cap (Blocking \cup Quest) # {}
  /\ ~quest /\ Here \cap Blocking # {} => "block" \in flags
  /\ "field" \in flags => Here \cap Fields # {}

TileInv == TileTypeOK /\ ClientAgrees /\ OneSplash /\ FlagsTrue

=============================================================================
