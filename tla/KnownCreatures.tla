--------------------------- MODULE KnownCreatures ---------------------------
(***************************************************************************)
(* Which creatures a client knows (protocolgame.cpp).  A creature is       *)
(* described in full the first time it is sent and by its id alone as long *)
(* as the server takes it to be known; with a full description the client  *)
(* is told whom to forget, so that it never has to know more than Limit.   *)
(***************************************************************************)
EXTENDS Naturals, FiniteSets

CONSTANTS Creatures,
          Limit    \* 150

KnownAssumption == Limit \in Nat

VARIABLES
  inView,   \* who is on a tile the client sees
  hidden,   \* whom the player cannot see: ghosts and the invisible
  known,    \* ProtocolGame::knownCreatureSet
  client,   \* the creatures the client has a description of
  shown,    \* those it has on its map
  crowded,  \* there were more to be seen than may be known
  garbled   \* a client was told to forget whoever an uninitialized variable named

vars == <<inView, hidden, known, client, shown, crowded, garbled>>

Init ==
  /\ inView = {} /\ hidden = {} /\ known = {} /\ client = {} /\ shown = {}
  /\ crowded = FALSE /\ garbled = FALSE

\* canSee(creature), once it is where it comes to
CanSee(c) == c \in inView /\ c \notin hidden
SeesThen(c) == c \in inView' /\ c \notin hidden'

\* Whom checkCreatureAsKnown may forget once c is in the set: one that cannot be
\* seen, whichever the set yields first; only if there is none, any but c.
ForgettableAny(c) == (known \cup {c}) \ {c}
Forgettable(c) ==
  LET all == known \cup {c}
      unseen == {x \in all : ~SeesThen(x)}
  IN IF unseen # {} THEN unseen ELSE all \ {c}

\* What the client does with the creature and with whom it is told to forget.
Describe(c, forget, onMap) ==
  /\ client' = (client \ forget) \cup {c}
  /\ shown' = IF onMap THEN shown \cup {c} ELSE shown

\* A creature in a message: AddCreature after checkCreatureAsKnown.
Send(c, onMap) ==
  IF c \in known
  THEN /\ UNCHANGED <<known, client, crowded>>
       /\ shown' = IF onMap THEN shown \cup {c} ELSE shown
  ELSE IF Cardinality(known) < Limit
  THEN known' = known \cup {c} /\ Describe(c, {}, onMap) /\ UNCHANGED crowded
  ELSE \E x \in Forgettable(c) :
       /\ known' = (known \cup {c}) \ {x}
       /\ Describe(c, {x}, onMap)
       /\ crowded' = (crowded \/ \A y \in known \cup {c} : SeesThen(y))

\* It comes into sight, or the tile it is on does.
Appear(c) ==
  /\ c \notin inView
  /\ inView' = inView \cup {c}
  /\ UNCHANGED <<hidden, garbled>>
  /\ IF c \in hidden THEN UNCHANGED <<known, client, shown, crowded>>
     ELSE Send(c, TRUE)

\* sendAddCreature looks at the position only: a hidden creature that is put on
\* the map is described too.
PlaceHidden(c) ==
  /\ c \in hidden /\ c \notin inView
  /\ inView' = inView \cup {c}
  /\ UNCHANGED <<hidden, garbled>>
  /\ Send(c, FALSE)

Disappear(c) ==
  /\ c \in inView
  /\ inView' = inView \ {c} /\ shown' = shown \ {c}
  /\ UNCHANGED <<hidden, known, client, crowded, garbled>>

Hide(c) ==
  /\ c \notin hidden
  /\ hidden' = hidden \cup {c} /\ shown' = shown \ {c}
  /\ UNCHANGED <<inView, known, client, crowded, garbled>>

Reveal(c) ==
  /\ c \in hidden
  /\ UNCHANGED <<inView, garbled>>
  /\ hidden' = hidden \ {c}
  /\ IF c \in inView THEN Send(c, TRUE) ELSE UNCHANGED <<known, client, shown, crowded>>

\* A tile is sent again.
Refresh(c) ==
  /\ CanSee(c)
  /\ UNCHANGED <<inView, hidden, garbled>>
  /\ Send(c, TRUE)

\* sendUpdateTileCreature, of a monster that is renamed: always a full
\* description.  If the creature is known, nobody has assigned removedKnown.
Rename(c) ==
  /\ CanSee(c)
  /\ UNCHANGED <<inView, hidden>>
  /\ IF c \notin known
     THEN Send(c, TRUE) /\ UNCHANGED garbled
     ELSE \E forget \in {{}} \cup {{x} : x \in Creatures} :
          /\ Describe(c, forget, TRUE)
          /\ garbled' = (garbled \/ forget \ {c} # {})
          /\ UNCHANGED <<known, crowded>>

\* Another client takes the player over, with a ProtocolGame of its own.
Relog ==
  /\ known' = {} /\ client' = {} /\ shown' = {}
  /\ crowded' = FALSE /\ garbled' = FALSE
  /\ inView' = {}
  /\ UNCHANGED hidden

Next ==
  \/ \E c \in Creatures :
       Appear(c) \/ PlaceHidden(c) \/ Disappear(c) \/ Hide(c) \/ Reveal(c) \/ Refresh(c) \/ Rename(c)
  \/ Relog

Spec == Init /\ [][Next]_vars

-----------------------------------------------------------------------------
KnownTypeOK ==
  {inView, hidden, known, client, shown} \subseteq SUBSET Creatures

\* Of whom the server will send only the id, the client has the description, as
\* long as no name was changed under it; the server remembers no more than Limit.
ClientKnows ==
  /\ garbled \/ known \subseteq client
  /\ Cardinality(known) <= Limit

\* Who is on the client's map can be seen, and is not forgotten while there is
\* somebody else to forget.
ShownAreKnown ==
  /\ \A c \in shown : CanSee(c)
  /\ crowded \/ garbled \/ shown \subseteq client

KnownInv == KnownTypeOK /\ ClientKnows /\ ShownAreKnown

=============================================================================
