------------------------------- MODULE Houses -------------------------------
(***************************************************************************)
(* A house (house.cpp, housetile.cpp, bed.cpp): who owns it and whom he    *)
(* lets in, who sleeps in its bed, and what it costs.  The rent is taken   *)
(* from the owner as the database has him (Houses::payHouses), also while  *)
(* he plays; a player who plays is stored when he is saved or leaves.      *)
(*                                                                         *)
(* What a player has is his money and the things in his depot; the things  *)
(* on the floor of the house are its furniture.                            *)
(***************************************************************************)
EXTENDS Integers, FiniteSets, Functions

CONSTANTS
  Players,
  Money, Things,  \* how much of it each player has at first
  Rent,
  WarningLimit,   \* 7: unpaid rents before the house is taken away
  MaxPaid,        \* bound: rents and prices paid
  None

HousesAssumption ==
  /\ IsFiniteSet(Players) /\ None \notin Players
  /\ Money \in [Players -> Nat] /\ Things \in [Players -> Nat]
  /\ Rent \in Nat /\ WarningLimit \in Nat

VARIABLES
  owner, subowners, guests,
  inside,         \* the players on the house's tiles
  due,            \* paidUntil has passed
  warnings,       \* rentWarnings
  furniture,
  online,
  stored, held,   \* what players have, in the database and while they play
  bed,            \* the sleeper of the bed
  bedSleepers,    \* Game::bedSleepersMap: the players in it
  kicks,          \* those who lay down and are to be removed from the game
  paid,           \* history: all rents and prices paid
  overwritten     \* history: a rent was taken from a player who was online

access == <<subowners, guests, inside>>
wealth == <<furniture, stored, held>>
beds == <<bed, bedSleepers, kicks>>
rent == <<due, warnings, paid, overwritten>>
vars == <<owner, access, wealth, online, beds, rent>>

Nobody == [money |-> 0, things |-> 0]   \* what is in memory of one who is not there

Init ==
  /\ owner \in Players \cup {None} /\ subowners = {} /\ guests = {} /\ inside = {}
  /\ due = FALSE /\ warnings = 0 /\ furniture = 0
  /\ online = {}
  /\ stored = [p \in Players |-> [money |-> Money[p], things |-> Things[p]]]
  /\ held = [p \in Players |-> Nobody]
  /\ bed = None /\ bedSleepers = {} /\ kicks = {}
  /\ paid = 0 /\ overwritten = FALSE

-----------------------------------------------------------------------------
Invited(p) == p = owner \/ p \in subowners \/ p \in guests

With(wealthOf, p, things) == [wealthOf EXCEPT ![p].things = @ + things]

\* setAccessList and whom it throws out: internalTeleport finds the tile at the entry free,
\* and who is not on the tiles any more does not get back without an invitation.
EverybodyStays(sub, gst) == inside
KickedFrom(sub, gst) == {p \in inside : p = owner \/ p \in sub \/ p \in gst}

WakeUp == bed' = None /\ bedSleepers' = bedSleepers \ {bed}

\* setOwner.  It clears the house: the things go to the depot of the old owner,
\* everybody is thrown out, whoever sleeps is woken, the lists are emptied.  The
\* terms of the rent are new only when nobody had the house before.
SetOwner(p) ==
  /\ owner' = p
  /\ IF owner # None
       THEN /\ inside' = {} /\ subowners' = {} /\ guests' = {}
            /\ WakeUp /\ furniture' = 0
            /\ UNCHANGED <<due, warnings>>
       ELSE /\ due' = FALSE /\ warnings' = 0
            /\ UNCHANGED <<access, bed, bedSleepers, furniture>>

\* transferToDepot, for an owner who is in the game
HandOver(p) ==
  /\ owner \in online /\ SetOwner(p)
  /\ held' = With(held, owner, furniture) /\ UNCHANGED stored

-----------------------------------------------------------------------------
(* What players do.                                                        *)

\* A player is loaded, woken if he slept, and placed where he was, or at the
\* entry of a house he may not enter.
Login(p) ==
  /\ p \notin online /\ online' = online \cup {p}
  /\ held' = [held EXCEPT ![p] = stored[p]]
  /\ IF p \in bedSleepers THEN WakeUp ELSE UNCHANGED <<bed, bedSleepers>>
  /\ inside' \in {inside} \cup {inside \cup {q} : q \in {r \in {p} : Invited(r)}}
  /\ UNCHANGED <<owner, subowners, guests, furniture, stored, kicks, rent>>

\* A logout, a kick, or the event that removes who lay down.
Logout(p) ==
  /\ p \in online /\ online' = online \ {p}
  /\ stored' = [stored EXCEPT ![p] = held[p]]
  /\ held' = [held EXCEPT ![p] = Nobody]
  /\ inside' = inside \ {p} /\ kicks' = kicks \ {p}
  /\ UNCHANGED <<owner, subowners, guests, furniture, bed, bedSleepers, rent>>

\* saveGameState
Save ==
  /\ online # {}
  /\ stored' = [p \in Players |-> IF p \in online THEN held[p] ELSE stored[p]]
  /\ UNCHANGED <<owner, access, furniture, held, online, beds, rent>>

Enter(p) ==
  /\ p \in online \ inside /\ Invited(p) /\ inside' = inside \cup {p}
  /\ UNCHANGED <<owner, subowners, guests, wealth, online, beds, rent>>

Leave(p) ==
  /\ p \in inside /\ inside' = inside \ {p}
  /\ UNCHANGED <<owner, subowners, guests, wealth, online, beds, rent>>

\* One of those inside puts a thing on the floor, or takes one.
PutDown(p) ==
  /\ p \in inside /\ held[p].things > 0
  /\ held' = With(held, p, -1) /\ furniture' = furniture + 1
  /\ UNCHANGED <<owner, access, stored, online, beds, rent>>

TakeUp(p) ==
  /\ p \in inside /\ furniture > 0
  /\ held' = With(held, p, 1) /\ furniture' = furniture - 1
  /\ UNCHANGED <<owner, access, stored, online, beds, rent>>

\* setAccessList, by the owner or, for guests only, by a subowner.
InviteGuests(p, ps) ==
  /\ p \in online /\ (p = owner \/ p \in subowners) /\ ps # guests
  /\ guests' = ps /\ inside' = KickedFrom(subowners, ps)
  /\ UNCHANGED <<owner, subowners, wealth, online, beds, rent>>

InviteSubowners(p, ps) ==
  /\ p \in online /\ p = owner /\ ps # subowners
  /\ subowners' = ps /\ inside' = KickedFrom(ps, guests)
  /\ UNCHANGED <<owner, guests, wealth, online, beds, rent>>

\* House::kickPlayer: nobody throws out who ranks above him.
Rank(p) == IF p = owner THEN 3 ELSE IF p \in subowners THEN 2 ELSE IF p \in guests THEN 1 ELSE 0
KickPlayer(p, q) ==
  /\ p \in online /\ q \in inside /\ Rank(p) >= Rank(q)
  /\ inside' = inside \ {q}
  /\ UNCHANGED <<owner, subowners, guests, wealth, online, beds, rent>>

\* !buyhouse
Buy(p) ==
  /\ p \in online /\ owner = None /\ held[p].money >= Rent /\ paid < MaxPaid
  /\ SetOwner(p)
  /\ held' = [held EXCEPT ![p].money = @ - Rent] /\ paid' = paid + Rent
  /\ UNCHANGED <<online, stored, kicks, overwritten>>

\* !leavehouse
GiveUp(p) ==
  /\ p \in inside /\ p = owner /\ HandOver(None)
  /\ UNCHANGED <<online, kicks, paid, overwritten>>

\* HouseTransferItem::onTradeEvent, executeTransfer
Transfer(p, q) ==
  /\ p = owner /\ p \in online /\ q \in online \ {p} /\ HandOver(q)
  /\ UNCHANGED <<online, kicks, paid, overwritten>>

-----------------------------------------------------------------------------
(* The bed.                                                                *)

\* canUse, trySleep and sleep: who lies down is removed by an event.  None of them asks for
\* an invitation, but the walls keep those outside away from the bed.
Sleep(p) ==
  /\ p \in inside \ kicks /\ bed = None
  /\ bed' = p /\ bedSleepers' = bedSleepers \cup {p} /\ kicks' = kicks \cup {p}
  /\ UNCHANGED <<owner, access, wealth, online, rent>>

\* The owner wakes who sleeps there; without being in the game, he wakes nobody.
Wake(p) ==
  /\ p \in inside \ kicks /\ p = owner /\ bed # None /\ WakeUp
  /\ UNCHANGED <<owner, access, wealth, online, kicks, rent>>

-----------------------------------------------------------------------------
(* The rent.                                                               *)

RentDue ==
  /\ owner # None /\ ~due /\ due' = TRUE
  /\ UNCHANGED <<owner, access, wealth, online, beds, warnings, paid, overwritten>>

MayBeWarned == warnings < WarningLimit

\* payHouses: the owner is loaded, changed and saved, whether he plays or not.
\* An owner who no longer qualifies may not pay.
PayHouses ==
  /\ owner # None /\ due /\ paid < MaxPaid
  /\ overwritten' = (overwritten \/ owner \in online)
  /\ \/ /\ stored[owner].money >= Rent
        /\ stored' = [stored EXCEPT ![owner].money = @ - Rent] /\ paid' = paid + Rent
        /\ due' = FALSE /\ warnings' = 0
        /\ UNCHANGED <<owner, access, furniture, bed, bedSleepers>>
     \/ /\ MayBeWarned /\ warnings' = warnings + 1
        /\ UNCHANGED <<owner, access, furniture, stored, bed, bedSleepers, due, paid>>
     \/ /\ ~MayBeWarned /\ SetOwner(None)
        /\ stored' = With(stored, owner, furniture) /\ UNCHANGED paid
  /\ UNCHANGED <<held, online, kicks>>

Next ==
  \/ \E p \in Players : \/ Login(p) \/ Logout(p) \/ Enter(p) \/ Leave(p) \/ PutDown(p) \/ TakeUp(p)
                        \/ Buy(p) \/ GiveUp(p) \/ Sleep(p) \/ Wake(p)
  \/ \E p, q \in Players : KickPlayer(p, q) \/ Transfer(p, q)
  \/ \E p \in Players, ps \in SUBSET Players : InviteGuests(p, ps) \/ InviteSubowners(p, ps)
  \/ Save \/ RentDue \/ PayHouses

Spec == Init /\ [][Next]_vars

-----------------------------------------------------------------------------
HouseTypeOK ==
  /\ owner \in Players \cup {None} /\ bed \in Players \cup {None}
  /\ subowners \subseteq Players /\ guests \subseteq Players
  /\ inside \subseteq online /\ online \subseteq Players /\ kicks \subseteq online
  /\ warnings \in 0 .. WarningLimit /\ furniture \in Nat

\* Nobody is inside who is not invited: every change of the owner or of a list
\* throws out whom it uninvites.  A house of nobody has no guests.
PresentAreInvited ==
  /\ \A p \in inside : Invited(p)
  /\ owner = None => guests \cup subowners = {}

\* The map of sleepers and the bed agree, and who sleeps is not in the game, or
\* about to leave it.
SleepersRest ==
  /\ bedSleepers = {bed} \ {None}
  /\ bed \in online => bed \in kicks

\* What the players have, and the floor.
Wealth(p) == IF p \in online THEN held[p] ELSE stored[p]
AllMoney == SumFunction([p \in Players |-> Wealth(p).money])
AllThings == SumFunction([p \in Players |-> Wealth(p).things]) + furniture

\* Money is spent once, and things neither vanish nor double, when a house
\* changes hands or is lost, unless the rent was taken from a player online.
Accounts ==
  ~overwritten =>
    /\ AllMoney + paid = SumFunction(Money)
    /\ AllThings = SumFunction(Things)

\* What a house obeys.
HouseInv == HouseTypeOK /\ PresentAreInvited /\ SleepersRest /\ Accounts

\* A rent or price that was paid is gone from what the players have.
PaidIsPaid == AllMoney + paid = SumFunction(Money)

=============================================================================
