-------------------------- MODULE MCPlayers --------------------------
(* What becomes of players, and what they do with each other: parties,     *)
(* trades, the chat, who is credited with a kill, conditions, and the list *)
(* of those who wait for a place. They share no state (each refers to      *)
(* players only by name), so they are checked side by side: a behaviour is *)
(* one of a single part, and as only one of them moves those after the     *)
(* trades use the same variables u1, u2, ... in turn. Four players make    *)
(* parties: a leader can leave two behind and one outside. Three trade     *)
(* three things: a bag in a box, and something put into the bag. Two chat; *)
(* a player, a monster and its summon hit a victim whose map has room for  *)
(* two. For a server of two places wait two clients, one of them with a    *)
(* premium account, when two are in.                                       *)
EXTENDS Party, Integers, TLC

CONSTANTS p1, p2, p3, p4, a, b, bag, box, coin, hut, z, w3, gm, k1, su, mo, Ghost,
  Traders, Things, Houses, Talkers, Addresses, Slots, Normal,
  Hitters, Fighters, Leader, MapSize, Full, FullMana, Worth, MaxLost,
  Outfits, RingSpeed, MaxConditions,
  Clients, Premium, Always, MaxPlayers, Timeout, MaxEntries

VARIABLES
  part,  \* which of them this behaviour is about
  trade_online, trade, tradeItems, refs, transfer, owner, inside, holder, u1,
  u2, u3, u4, u5, u6, u7, u8, u9

\* Whatever is alike in a part has these names: players p1 to p3, parties and those of
\* two players a and b.
Symmetry == Permutations({p1, p2, p3}) \cup Permutations({a, b})

Master == (k1 :> None) @@ (su :> mo) @@ (mo :> None)
Of(type, id, sub, left, val) ==
  [type |-> type, id |-> id, sub |-> sub, left |-> left, val |-> val, disables |-> FALSE]
Catalog ==
  { Of("haste", "combat", 0, 1, 3), Of("haste", "default", 1, 1, 1), Of("paralyze", "combat", 0, 1, -2),
    Of("invisible", "combat", 0, 1, 0), Of("fire", "combat", 0, 1, 1),
    Of("outfit", "combat", 0, 1, "rat"), Of("outfit", "default", 0, 2, "pig") }
  \cup {[Of("attributes", "combat", 0, 1, 1) EXCEPT !.disables = d] : d \in BOOLEAN}

T == INSTANCE Trade
  WITH Players <- Traders, online <- trade_online
C == INSTANCE Chat
  WITH Players <- Talkers, PartyIds <- Addresses, online <- u1, connected <- u2,
       party <- u3, made <- u4, owner <- u5, invites <- u6, users <- u7,
       window <- u8
K == INSTANCE Kills
  WITH plays <- u1, health <- u2, mana <- u3, map <- u4, entry <- u5, received <-
       u6, lastHit <- u7, here <- u8, lost <- u9
O == INSTANCE Conditions
  WITH conditions <- u1, body <- u2, own <- u3, ghost <- u4, ring <- u5
W == INSTANCE WaitList
  WITH online <- u1, priority <- u2, wait <- u3

ASSUME PlayersAssumption ==
  T!TradeAssumption /\ C!ChatAssumption /\ W!WaitAssumption /\ K!KillsAssumption
  /\ O!ConditionsAssumption

party_vars == <<online, party, invitations, leader, members, invited, ticks, active, enabled>>
trade_vars == <<trade_online, trade, tradeItems, refs, transfer, owner, inside, holder>>
all == <<part, party_vars, trade_vars, u1, u2, u3, u4, u5, u6, u7, u8, u9>>

\* The step A of one part, which leaves the variables it does not use.
party_step(A) == part = "party" /\ A /\ UNCHANGED <<part, trade_vars, u1, u2, u3, u4, u5, u6, u7, u8, u9>>
trade_step(A) == part = "trade" /\ A /\ UNCHANGED <<part, party_vars, u1, u2, u3, u4, u5, u6, u7, u8, u9>>
chat_step(A) == part = "chat" /\ A /\ UNCHANGED <<part, party_vars, trade_vars, u9>>
kills_step(A) == part = "kills" /\ A /\ UNCHANGED <<part, party_vars, trade_vars>>
cond_step(A) == part = "cond" /\ A /\ UNCHANGED <<part, party_vars, trade_vars, u6, u7, u8, u9>>
wait_step(A) == part = "wait" /\ A /\ UNCHANGED <<part, party_vars, trade_vars, u4, u5, u6, u7, u8, u9>>

MCInit ==
  /\ part \in {"party", "trade", "chat", "kills", "cond", "wait"}
  /\ Init
  /\ T!Init
  /\ part # "trade" => owner = [h \in Houses |-> None] /\ holder = [i \in Things |-> None]
  /\ \/ part \in {"party", "trade"}
        /\ u1 = None /\ u2 = None /\ u3 = None /\ u4 = None /\ u5 = None /\ u6 = None
        /\ u7 = None /\ u8 = None /\ u9 = None
     \/ part = "chat" /\ C!Init
        /\ u9 = None
     \/ part = "kills" /\ K!Init
     \/ part = "cond" /\ O!Init
        /\ u6 = None /\ u7 = None /\ u8 = None /\ u9 = None
     \/ part = "wait" /\ W!Init
        /\ u4 = None /\ u5 = None /\ u6 = None /\ u7 = None /\ u8 = None /\ u9 = None

MCNext ==
  \/ party_step(Next)
  \/ trade_step(T!Next)
  \/ chat_step(C!Next)
  \/ kills_step(K!Next)
  \/ cond_step(O!Next)
  \/ wait_step(W!Next)

MCSpec == MCInit /\ [][MCNext]_all

-----------------------------------------------------------------------------
\* The sides of a trade agree, and hold what they offer: Inv of Trade.
TradeInv == part = "trade" => T!Inv

\* Nothing is put into an offer or taken out while it stands: OfferIntact of Trade.
TradesAreIntact == T!OfferIntact

\* Channels, their members and the windows of clients agree: ChatInv of Chat.
ChannelsInv == part = "chat" => C!ChatInv

\* Of the experience of a victim each hitter gets his share and all together no more
\* than it is worth, and the last hit counts: KillsInv of Kills.
KillsInv == part = "kills" => K!KillsInv

\* What a player shows and how fast he is follows from the conditions he has:
\* ConditionsInv of Conditions.
ConditionsInv == part = "cond" => O!ConditionsInv

\* A client waits at one place at most and the server is not fuller than it may be:
\* WaitInv of WaitList.
WaitInv == part = "wait" => W!WaitInv

=============================================================================
