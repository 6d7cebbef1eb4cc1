------------------------------- MODULE Windows -------------------------------
(***************************************************************************)
(* The windows in which players look into containers.  The server keeps    *)
(* for each player which container a window shows, as a pointer that holds *)
(* no reference (Player::openContainers); the client keeps what lies in    *)
(* it.  Containers are moved, put into each other and destroyed, players   *)
(* walk away: the windows must follow.                                     *)
(***************************************************************************)
EXTENDS Naturals, Sequences, Functions, FiniteSets

CONSTANTS
  Players,
  Bags,       \* the containers
  Coins,      \* other things
  Spots,      \* tiles in a row, numbers; who is more than one away is too far
  Cids,       \* the numbers of windows
  MaxLength,  \* bound: of what lies in a bag
  Nowhere, None

Things == Bags \cup Coins

WindowsAssumption ==
  /\ IsFiniteSet(Bags) /\ Things \cap (Spots \cup Players \cup {Nowhere}) = {}
  /\ Nowhere \notin Spots \cup Players /\ 1 \in Spots /\ Cids \subseteq Nat
  /\ None \notin Bags \cup [bag : Bags, content : Seq(Things), up : BOOLEAN]

VARIABLES
  where,    \* of each thing: a spot, a player, a bag, or Nowhere: it is gone
  content,  \* of each bag, the first first
  at,       \* where players stand
  windows,  \* Player::openContainers: by player and window, a bag or None
  screens,  \* what the client shows in a window: a record of bag and content, or None
  doubled   \* players who had one bag in two windows

vars == <<where, content, at, windows, screens, doubled>>

Init ==
  /\ where = [x \in Things |-> 1]
  /\ content = [b \in Bags |-> <<>>]
  /\ at = [p \in Players |-> 1]
  /\ windows = [p \in Players |-> [i \in Cids |-> None]]
  /\ screens = [p \in Players |-> [i \in Cids |-> None]]
  /\ doubled = {}

-----------------------------------------------------------------------------
\* The bag itself and those it lies in.
Around(w, b) ==
  LET up[n \in 0 .. Cardinality(Bags)] ==
        IF n = 0 THEN {b} ELSE up[n - 1] \cup {w[c] : c \in up[n - 1] \cap Bags}
  IN up[Cardinality(Bags)]

\* where the outermost lies: a spot, a player, or Nowhere
Top(w, b) == CHOOSE t \in Around(w, b) : t \notin Bags

Near(i, j) == i - j <= 1 /\ j - i <= 1
Spot(w, stand, t) == IF t \in Players THEN stand[t] ELSE t
InRange(w, stand, p, b) ==
  LET t == Top(w, b) IN t # Nowhere /\ Near(Spot(w, stand, t), stand[p])

\* hasParent, the up arrow of a window
Screen(w, cs, b) == [bag |-> b, content |-> cs[b], up |-> w[b] \in Bags]

-----------------------------------------------------------------------------
(* What the server tells about windows, as functions of v, the windows and *)
(* screens of one player.                                                  *)

Shut(v, ids) ==
  [v EXCEPT !.w = [i \in Cids |-> IF i \in ids THEN None ELSE v.w[i]],
            !.s = [i \in Cids |-> IF i \in ids THEN None ELSE v.s[i]]]

\* onSendContainer
Sent(v, w, cs, b) ==
  [v EXCEPT !.s = [i \in Cids |-> IF v.w[i] = b THEN Screen(w, cs, b) ELSE v.s[i]]]

\* autoCloseContainers: b, what lies in it, and whatever is gone
AutoCloseOnly(v, w, b) == Shut(v, {i \in Cids : v.w[i] = b})
AutoClose(v, w, b) ==
  Shut(v, {i \in Cids : v.w[i] # None /\ {b, Nowhere} \cap Around(w, v.w[i]) # {}})

\* Player::postRemoveNotification, to p, of a bag
AfterRemoval(v, w, cs, stand, p, b) ==
  IF ~InRange(w, stand, p, b) \/ Top(w, b) \in Players \ {p} THEN AutoClose(v, w, b)
  ELSE Sent(v, w, cs, b)

\* sendAddContainerItem and sendRemoveContainerItem, to windows of the bag
Edited(v, b, Edit(_)) ==
  [v EXCEPT !.s = [i \in Cids |-> IF v.w[i] = b /\ v.s[i] # None
                                  THEN [v.s[i] EXCEPT !.content = Edit(@)] ELSE v.s[i]]]

View(p) == [w |-> windows[p], s |-> screens[p]]

\* Each player's windows become what F makes of them.
Show(F(_)) ==
  LET new == [p \in Players |-> F(p)]
  IN /\ windows' = [p \in Players |-> new[p].w]
     /\ screens' = [p \in Players |-> new[p].s]

OnlyFor(p, v) == Show(LAMBDA q : IF q = p THEN v ELSE View(q))

Twice(v) == \E i, j \in Cids : i # j /\ v.w[i] # None /\ v.w[i] = v.w[j]

-----------------------------------------------------------------------------
(* What a player does with windows.                                        *)

\* Actions::internalUseItem: a bag that is open is closed, wherever it is seen;
\* but the server frees one window only.
Use(p, b, i) ==
  /\ where[b] # Nowhere /\ InRange(where, at, p, b) /\ Top(where, b) \notin Players \ {p}
  /\ LET v == View(p)
         open == {j \in Cids : v.w[j] = b}
         first == CHOOSE j \in open : \A k \in open : j <= k
     IN OnlyFor(p,
          IF open = {} THEN Sent([v EXCEPT !.w[i] = b], where, content, b)
          ELSE [v EXCEPT !.w[first] = None,
                         !.s = [j \in Cids |-> IF j \in open THEN None ELSE v.s[j]]])
  /\ UNCHANGED <<where, content, at, doubled>>

Close(p, i) ==
  /\ windows[p][i] # None
  /\ OnlyFor(p, Shut(View(p), {i}))
  /\ UNCHANGED <<where, content, at, doubled>>

MoveUp(p, i) ==
  LET b == windows[p][i]
      v == [View(p) EXCEPT !.w[i] = where[b], !.s[i] = Screen(where, content, where[b])]
  IN /\ b # None /\ where[b] \in Bags
     /\ OnlyFor(p, v)
     /\ doubled' = IF Twice(v) THEN doubled \cup {p} ELSE doubled
     /\ UNCHANGED <<where, content, at>>

Update(p, i) ==
  LET b == windows[p][i]
  IN /\ b # None
     /\ OnlyFor(p, [View(p) EXCEPT !.s[i] = Screen(where, content, b)])
     /\ UNCHANGED <<where, content, at, doubled>>

-----------------------------------------------------------------------------
(* What happens to things: internalMoveItem and internalRemoveItem.  Both  *)
(* containers tell those within two spots, and these are all who may have  *)
(* a window on them; then the old place, and the new one, is told: a tile  *)
(* tells who is near, a player is told himself.                            *)

RemoveAt(s, i) == SubSeq(s, 1, i - 1) \o SubSeq(s, i + 1, Len(s))
Index(x, s) == CHOOSE i \in DOMAIN s : s[i] = x
Without(s, x) == IF x \in Range(s) THEN RemoveAt(s, Index(x, s)) ELSE s
Told(v, x, from, to) ==
  LET out == IF from \in Bags THEN Edited(v, from, LAMBDA s : Without(s, x)) ELSE v
  IN IF to \in Bags THEN Edited(out, to, LAMBDA s : <<x>> \o s) ELSE out

\* who hears of a change in a cylinder
Hears(p, w, c) ==
  LET t == IF c \in Bags THEN Top(w, c) ELSE c IN t \notin Players \/ t = p

\* postRemoveNotification of the old place, then postAddNotification of the new
Notified(v, w, cs, p, x, from, to) ==
  LET old == IF Hears(p, w, from) THEN AfterRemoval(v, w, cs, at, p, x) ELSE v
  IN IF Hears(p, w, to) THEN Sent(old, w, cs, x) ELSE old

Move(x, to) ==
  LET from == where[x]
      w == [where EXCEPT ![x] = to]
      taken == [b \in Bags |-> IF b = from THEN Without(content[b], x) ELSE content[b]]
      cs == IF to \in Bags THEN [taken EXCEPT ![to] = <<x>> \o @] ELSE taken
  IN /\ from # Nowhere /\ to # from
     /\ to \in Bags => where[to] # Nowhere /\ x \notin Around(where, to) /\ Len(content[to]) < MaxLength
     /\ where' = w /\ content' = cs
     /\ Show(LAMBDA p : LET v == Told(View(p), x, from, to)
                        IN IF x \in Bags THEN Notified(v, w, cs, p, x, from, to) ELSE v)
     /\ UNCHANGED <<at, doubled>>

\* The last reference goes, and with it what lies in a bag: its things have no
\* parent then.
Destroy(x) ==
  LET from == where[x]
      w == [y \in Things |-> IF y = x \/ (y \in Things /\ where[y] = x) THEN Nowhere ELSE where[y]]
      alone == [where EXCEPT ![x] = Nowhere]
      cs == [b \in Bags |-> IF b = x THEN <<>> ELSE Without(content[b], x)]
  IN /\ from # Nowhere
     /\ x \in Bags => \A y \in Bags : where[y] = x => content[y] = <<>>
     /\ where' = w /\ content' = cs
     /\ Show(LAMBDA p : LET v == Told(View(p), x, from, Nowhere)
                        IN IF x \in Bags /\ Hears(p, alone, from) THEN AutoClose(v, alone, x) ELSE v)
     /\ UNCHANGED <<at, doubled>>

\* Tile::postAddNotification of a creature
Walk(p, spot) ==
  LET stand == [at EXCEPT ![p] = spot]
      far == {i \in Cids : windows[p][i] # None /\ ~InRange(where, stand, p, windows[p][i])}
  IN /\ at[p] # spot /\ Near(at[p], spot)
     /\ at' = stand
     /\ OnlyFor(p, Shut(View(p), far))
     /\ UNCHANGED <<where, content, doubled>>

Next ==
  \/ \E p \in Players, i \in Cids :
       Close(p, i) \/ MoveUp(p, i) \/ Update(p, i) \/ \E b \in Bags : Use(p, b, i)
  \/ \E x \in Things : Destroy(x) \/ \E to \in Spots \cup Players \cup Bags : Move(x, to)
  \/ \E p \in Players, spot \in Spots : Walk(p, spot)

Spec == Init /\ [][Next]_vars

-----------------------------------------------------------------------------
WindowsTypeOK ==
  /\ \A x \in Things : where[x] \in Spots \cup Players \cup Bags \cup {Nowhere}
  /\ \A b \in Bags, x \in Things : where[x] = b <=> x \in Range(content[b])
  /\ at \in [Players -> Spots] /\ doubled \subseteq Players

\* A window shows a container that exists, that the player can reach and that
\* nobody else carries.
InReach ==
  \A p \in Players, i \in Cids :
    LET b == windows[p][i]
    IN b # None => InRange(where, at, p, b) /\ Top(where, b) \notin Players \ {p}

\* What a client shows is what the server has for that window, and what lies
\* there; a window that only the server has comes from a bag in two windows.
ScreensAgree ==
  \A p \in Players, i \in Cids :
    LET b == windows[p][i]
        s == screens[p][i]
    IN /\ s # None => b = s.bag /\ s = Screen(where, content, b)
       /\ b # None /\ s = None => p \in doubled

WindowsInv == WindowsTypeOK /\ InReach /\ ScreensAgree

=============================================================================
