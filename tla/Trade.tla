-------------------------------- MODULE Trade --------------------------------
(***************************************************************************)
(* Trading between players (game.cpp, and the hooks of player.cpp that     *)
(* watch the offered items) with the documents that trade houses           *)
(* (house.cpp).  The dispatcher runs one handler at a time.                *)
(*                                                                         *)
(* A trade is kept in five places: the state, partner and item of either   *)
(* player, the map Game::tradeItems, the item's reference counter, and,    *)
(* for a house, its transferItem.  Anybody may move things while a trade   *)
(* is open; whatever touches an offered item must close the trade first.   *)
(*                                                                         *)
(* Distances, capacity and free slots are left open.  A transfer with an   *)
(* item missing always fails here: it crashes the server if the other item *)
(* is a worn backpack, after which there are no steps.                     *)
(***************************************************************************)
EXTENDS Naturals, FiniteSets

CONSTANTS
  Players,
  Things,     \* items that can be offered; any may be a container
  Houses,     \* a house stands for its transfer document too
  None

Offers == Things \cup Houses

TradeAssumption ==
  None \notin Players \cup Offers /\ Things \cap Houses = {} /\ IsFiniteSet(Things)

VARIABLES
  online,
  trade,       \* state, partner and item of each player
  tradeItems,  \* the keys of Game::tradeItems
  refs,        \* references taken on an item by trades, less those released
  transfer,    \* the houses whose transferItem is not null
  owner,       \* the owner of each house
  inside,      \* the container each thing is in, if any
  holder       \* the player who carries a thing that is in no container, if any

vars == <<online, trade, tradeItems, refs, transfer, owner, inside, holder>>

Idle == [state |-> "NONE", partner |-> None, item |-> None]

Init ==
  /\ online = Players
  /\ trade = [p \in Players |-> Idle]
  /\ tradeItems = {}
  /\ refs = [i \in Offers |-> 0]
  /\ transfer = {}
  /\ owner \in [Houses -> Players \cup {None}]
  /\ inside = [i \in Things |-> None]
  /\ holder \in [Things -> Players \cup {None}]

-----------------------------------------------------------------------------
(* Containers.                                                             *)

\* The thing n levels above i, where `in' says what is in what.
Above(in, i) ==
  LET up[n \in Nat] == IF n = 0 THEN i ELSE IF up[n - 1] = None THEN None ELSE in[up[n - 1]]
  IN {up[n] : n \in 1 .. Cardinality(Things)} \ {None}

\* Container::isHoldingItem
Holding(c, i) == c \in Things /\ i \in Things /\ c \in Above(inside, i)

Top(i) == LET t == CHOOSE t \in {i} \cup Above(inside, i) : inside[t] = None IN t

-----------------------------------------------------------------------------
(* Closing trades.                                                         *)

Items(S) == {trade[p].item : p \in S} \ {None}

\* internalCloseTrade closes the trade of the partner too.
OneSide(S) == S
BothSides(S) == (S \cup {trade[p].partner : p \in S}) \ {None}

\* Every offer of a closed trade leaves the map and gives its reference back.
Dereferenced(S) == [i \in Offers |-> IF i \in Items(S) THEN refs[i] - 1 ELSE refs[i]]

\* The trades of S, a set with the partners, end; onTradeEvent gives the
\* documents up.
End(S) ==
  /\ trade' = [p \in Players |-> IF p \in S THEN Idle ELSE trade[p]]
  /\ tradeItems' = tradeItems \ Items(S)
  /\ refs' = Dereferenced(S)
  /\ transfer' = transfer \ Items(S)

CloseTrades(S) == End(BothSides(S))

trading == <<trade, tradeItems, refs, transfer>>

-----------------------------------------------------------------------------
(* Starting a trade.                                                       *)

\* internalStartTrade
MayStart(p, q) ==
  /\ trade[p].state = "NONE" \/ (trade[p].state = "ACKNOWLEDGE" /\ trade[p].partner = q)
  /\ trade[q].state = "NONE" \/ trade[q].partner = p

\* p offers i to q: whoever has offered nothing yet is to acknowledge.
Start(p, q, i) ==
  /\ trade' = [trade EXCEPT
                 ![p] = [state |-> "INITIATED", partner |-> q, item |-> i],
                 ![q] = IF @.state = "NONE"
                          THEN [@ EXCEPT !.state = "ACKNOWLEDGE", !.partner = p] ELSE @]
  /\ tradeItems' = tradeItems \cup {i}
  /\ refs' = [refs EXCEPT ![i] = @ + 1]

\* playerRequestTrade refuses what is offered already, holds an offer or is in one.
OnlyTheSame(i) == i \notin tradeItems
Free(i) == \A j \in tradeItems : i # j /\ ~Holding(i, j) /\ ~Holding(j, i)

RequestTrade(p, q, i) ==
  /\ {p, q} \subseteq online /\ p # q
  /\ holder[Top(i)] \in {p, None}
  /\ Free(i)
  /\ MayStart(p, q)
  /\ Start(p, q, i)
  /\ UNCHANGED <<online, transfer, owner, inside, holder>>

\* luaHouseStartTrade: the document is made first, and reset if the trade does
\* not start; getTransferItem is null while there is one.
StartHouseTrade(p, q, h) ==
  /\ {p, q} \subseteq online /\ p # q
  /\ owner[h] = p /\ \A g \in Houses : owner[g] # q
  /\ h \notin transfer
  /\ MayStart(p, q)
  /\ transfer' = transfer \cup {h}
  /\ Start(p, q, h)
  /\ UNCHANGED <<online, owner, inside, holder>>

-----------------------------------------------------------------------------
(* Accepting.                                                              *)

AcceptState == {"ACKNOWLEDGE", "INITIATED"}

\* playerAcceptTrade, the first of the two
AcceptFirst(p) ==
  /\ p \in online /\ trade[p].state \in AcceptState
  /\ trade[trade[p].partner].state # "ACCEPT"
  /\ trade' = [trade EXCEPT ![p].state = "ACCEPT"]
  /\ UNCHANGED <<online, tradeItems, refs, transfer, owner, inside, holder>>

MayAcceptLast(p) ==
  /\ p \in online /\ trade[p].state \in AcceptState
  /\ trade[trade[p].partner].state = "ACCEPT"

\* A throw blocked, a script's refusal, no room, no capacity or a missing item.
\* The trades of this transfer end either way, as internalCloseTrade or the end
\* of the handler resets them.
AcceptFails(p) ==
  /\ MayAcceptLast(p)
  /\ CloseTrades({p})
  /\ UNCHANGED <<online, owner, inside, holder>>

\* The items change hands, a document its house: executeTransfer, which does not
\* look at the old owner.  A new owner empties the house: those teleported to
\* its door may end other trades.
Given(p, q, i) == IF trade[p].item = i THEN q ELSE IF trade[q].item = i THEN p ELSE None

AcceptLast(p) ==
  LET q == trade[p].partner
      offered == {trade[p].item, trade[q].item} IN
  /\ MayAcceptLast(p) /\ None \notin offered
  /\ owner' = [h \in Houses |-> IF h \in offered THEN Given(p, q, h) ELSE owner[h]]
  /\ holder' = [i \in Things |-> IF i \in offered THEN Given(p, q, i) ELSE holder[i]]
  /\ inside' = [i \in Things |-> IF i \in offered THEN None ELSE inside[i]]
  /\ \E K \in SUBSET Players :
       /\ offered \cap Houses = {} => K = {}
       /\ End({p, q} \cup BothSides(K))
  /\ UNCHANGED online

\* playerCloseTrade
CloseTrade(p) ==
  /\ p \in online
  /\ CloseTrades({p})
  /\ UNCHANGED <<online, owner, inside, holder>>

-----------------------------------------------------------------------------
(* What else happens to traders and their items.                           *)

\* onCreatureMove: out of reach of the partner or the item.
MoveAway(p) ==
  /\ p \in online /\ trade[p].state # "NONE"
  /\ CloseTrades({p})
  /\ UNCHANGED <<online, owner, inside, holder>>

\* onRemoveCreature
RemoveCreature(p) ==
  /\ p \in online /\ online' = online \ {p}
  /\ CloseTrades(IF trade[p].partner # None THEN {p} ELSE {})
  /\ UNCHANGED <<owner, inside, holder>>

LogIn(p) ==
  /\ p \notin online /\ online' = online \cup {p}
  /\ UNCHANGED <<trading, owner, inside, holder>>

\* checkTradeState and its callers when i is removed from where it is and added
\* to the container c, or to none: the offers that are i, hold it, are held by
\* it, or hold its new place.
TouchedByRemoval(i, c) ==
  {p \in Players : LET j == trade[p].item IN j = i \/ Holding(j, i) \/ Holding(i, j)}
Touched(i, c) ==
  {p \in Players : LET j == trade[p].item IN
     j = i \/ Holding(j, i) \/ Holding(i, j) \/ (j # None /\ j = c) \/ Holding(j, c)}

\* queryAdd of a container
MayHold(c, i) == c # i /\ ~Holding(i, c)

\* Somebody moves a thing into a container, or to a hand or the ground.
MoveThing(i, c, q) ==
  /\ MayHold(c, i)
  /\ inside' = [inside EXCEPT ![i] = c]
  /\ holder' = [holder EXCEPT ![i] = IF c = None THEN q ELSE None]
  /\ CloseTrades(Touched(i, c))
  /\ UNCHANGED <<online, owner>>

\* setOwner by a command: a house is left or bought, the people in it are put
\* outside, an open trade stays open.
SetOwner(h, p) ==
  /\ (owner[h] = None) # (p = None)
  /\ owner' = [owner EXCEPT ![h] = p]
  /\ \E K \in SUBSET Players :
       /\ owner[h] = None => K = {}
       /\ CloseTrades(K)
  /\ UNCHANGED <<online, inside, holder>>

-----------------------------------------------------------------------------
Next ==
  \/ \E p \in Players :
       \/ AcceptFirst(p) \/ AcceptFails(p) \/ AcceptLast(p)
       \/ CloseTrade(p) \/ MoveAway(p) \/ RemoveCreature(p) \/ LogIn(p)
  \/ \E p, q \in Players, i \in Things : RequestTrade(p, q, i)
  \/ \E p, q \in Players, h \in Houses : StartHouseTrade(p, q, h)
  \/ \E i \in Things, c \in Things \cup {None}, q \in Players \cup {None} : MoveThing(i, c, q)
  \/ \E h \in Houses, p \in Players \cup {None} : SetOwner(h, p)

Spec == Init /\ [][Next]_vars

-----------------------------------------------------------------------------
TypeOK ==
  /\ online \subseteq Players
  /\ trade \in [Players -> [state : {"NONE", "INITIATED", "ACKNOWLEDGE", "ACCEPT"},
                            partner : Players \cup {None}, item : Offers \cup {None}]]
  /\ tradeItems \subseteq Offers /\ transfer \subseteq Houses
  /\ refs \in [Offers -> Nat]
  /\ owner \in [Houses -> Players \cup {None}]
  /\ inside \in [Things -> Things \cup {None}] /\ \A i \in Things : ~Holding(i, i)
  /\ holder \in [Things -> Players \cup {None}]

\* Partners point to each other and are in the game; only an idle player has none.
PartnersAgree ==
  \A p \in Players :
    LET t == trade[p] IN
    /\ t.partner = None <=> t = Idle
    /\ t.partner # None => trade[t.partner].partner = p /\ p \in online

\* Whoever was asked has offered nothing yet, whoever asked has, and it is never
\* the case that both have accepted and nothing was transferred.
StatesAgree ==
  \A p \in Players :
    LET t == trade[p] IN
    /\ t.state = "INITIATED" => t.item # None
    /\ t.state = "ACKNOWLEDGE" => t.item = None
    /\ t.partner # None => \/ trade[t.partner].state # "ACCEPT" \/ t.state # "ACCEPT"
    /\ t.partner # None => t.item # None \/ trade[t.partner].item # None

\* A house has a transfer document only while somebody offers it.
DocumentsAgree == transfer = Houses \cap Items(Players)

\* No offer is part of another: one transfer never moves what another promised.
OffersDisjoint == \A i, j \in tradeItems : ~Holding(i, j)

\* The map of offered items is exactly what the traders offer, no item twice,
\* and each is referenced once.
OffersAgree ==
  /\ tradeItems = Items(Players)
  /\ \A p, q \in Players : p # q /\ trade[p].item = trade[q].item => trade[p].item = None
  /\ \A i \in Offers : refs[i] = IF i \in tradeItems THEN 1 ELSE 0

\* The two sides of a trade tell the same story at every moment, and what they
\* offer is held: on the map, once each, and apart from each other.
Inv ==
  /\ TypeOK /\ PartnersAgree /\ StatesAgree /\ DocumentsAgree
  /\ OffersAgree /\ OffersDisjoint

\* While an offer stands nothing is put in, taken out, or moved with it inside:
\* what changes hands is what the partner saw.
OfferIntact ==
  [][\A p \in Players :
       LET i == trade[p].item IN
       i \in Things /\ trade'[p].item = i =>
         /\ {j \in Things : Holding(i, j)} = {j \in Things : Holding(i, j)}'
         /\ Above(inside, i) = Above(inside, i)' /\ holder[Top(i)] = holder[Top(i)]']_vars
=============================================================================
