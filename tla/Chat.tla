-------------------------------- MODULE Chat --------------------------------
(***************************************************************************)
(* The channels of the chat (chat.cpp): who listens to which.  A channel   *)
(* holds raw pointers to its users and a private one also to those it      *)
(* invites; a party's channel is found by the address of the Party.  The   *)
(* client has windows, and it is told which to open and to close.          *)
(*                                                                         *)
(* Parties are only who is in which (see Party), and addresses are used    *)
(* again.  A guild's channel is found by the guild's number and is left    *)
(* out, and so is the reload of the normal channels.  No script refuses    *)
(* who joins; canJoin looks at the account, and the answer is left open.   *)
(***************************************************************************)
CONSTANTS
  Players, PartyIds,
  Slots,     \* numbers of private channels
  Normal,    \* the channels of chatchannels.xml
  None

ChatAssumption ==
  /\ None \notin Players \cup PartyIds
  /\ PartyIds \cap (Slots \cup Normal) = {} /\ Slots \cap Normal = {}

Channels == PartyIds \cup Slots \cup Normal

VARIABLES
  online, connected,
  party,
  made,      \* the keys of partyChannels
  owner,     \* of a private channel, None where there is none
  invites,
  users,
  window     \* the channels a player's client shows

vars == <<online, connected, party, made, owner, invites, users, window>>

Init ==
  /\ online = {} /\ connected = {} /\ made = {}
  /\ party = [p \in Players |-> None]
  /\ owner = [c \in Slots |-> None] /\ invites = [c \in Slots |-> {}]
  /\ users = [c \in Channels |-> {}] /\ window = [p \in Players |-> {}]

-----------------------------------------------------------------------------
Owned(p) == {c \in Slots : owner[c] = p}

\* removeUserFromAllChannels: of every party's channel, too, whatever p's party
RemovedFromOwnParty(us, p) ==
  [c \in Channels |-> IF c \in Owned(p) THEN {} ELSE IF c \in PartyIds \ {party[p]} THEN us[c] ELSE us[c] \ {p}]
RemovedEverywhere(us, p) == [c \in Channels |-> IF c \in Owned(p) THEN {} ELSE us[c] \ {p}]
RemoveUserFromAllChannels(p) ==
  /\ owner' = [c \in Slots |-> IF c \in Owned(p) THEN None ELSE owner[c]]
  /\ invites' = [c \in Slots |-> IF c \in Owned(p) THEN {} ELSE invites[c] \ {p}]
  /\ users' = RemovedEverywhere(users, p)

\* The windows once the channels C are closed for the players P, and p's are gone.
Closing(P, C, p) ==
  [q \in Players |-> IF q = p THEN {} ELSE IF q \in P THEN window[q] \ C ELSE window[q]]

\* getChannel; whether p may join is asked anew each time
MayUse(p, c) ==
  \/ c \in PartyIds /\ party[p] = c /\ c \in made
  \/ c \in Normal
  \/ c \in Slots /\ owner[c] # None /\ (owner[c] = p \/ p \in invites[c])

Show(p, c) == window' = [window EXCEPT ![p] = @ \cup {c}]

-----------------------------------------------------------------------------
LogIn(p) ==
  /\ p \notin online
  /\ online' = online \cup {p} /\ connected' = connected \cup {p}
  /\ UNCHANGED <<party, made, owner, invites, users, window>>

Disconnect(p) ==
  /\ p \in connected /\ connected' = connected \ {p}
  /\ window' = [window EXCEPT ![p] = {}]
  /\ UNCHANGED <<online, party, made, owner, invites, users>>

\* ProtocolGame::connect, for a client that takes the player over
Connect(p) ==
  /\ p \in online /\ connected' = connected \cup {p}
  /\ RemoveUserFromAllChannels(p)
  /\ window' = Closing(UNION {users[c] : c \in Owned(p)}, Owned(p), p)
  /\ UNCHANGED <<online, party, made>>

\* getChannelList makes the channel of the player's party
RequestChannels(p) ==
  /\ p \in connected /\ party[p] # None /\ party[p] \notin made
  /\ made' = made \cup {party[p]}
  /\ UNCHANGED <<online, connected, party, owner, invites, users, window>>

CreatePrivate(p) ==
  /\ p \in connected /\ Owned(p) = {}
  /\ \E c \in Slots :
       /\ owner[c] = None
       /\ owner' = [owner EXCEPT ![c] = p]
       /\ users' = [users EXCEPT ![c] = {p}]
       /\ Show(p, c)
  /\ UNCHANGED <<online, connected, party, made, invites>>

\* playerOpenChannel: who is listening already gets no window
Open(p, c) ==
  /\ p \in connected /\ MayUse(p, c) /\ p \notin users[c]
  /\ users' = [users EXCEPT ![c] = @ \cup {p}]
  /\ Show(p, c)
  /\ UNCHANGED <<online, connected, party, made, owner, invites>>

\* playerCloseChannel and removeUserFromChannel: the client has closed its window,
\* but only who may still use the channel is removed from it.
Close(p, c) ==
  /\ p \in connected
  /\ \/ /\ MayUse(p, c) /\ p \in users[c]
        /\ LET C == {c} \cap Owned(p) IN
           /\ owner' = [d \in Slots |-> IF d \in C THEN None ELSE owner[d]]
           /\ invites' = [d \in Slots |-> IF d \in C THEN {} ELSE invites[d]]
           /\ users' = [users EXCEPT ![c] = IF C # {} THEN {} ELSE @ \ {p}]
           /\ window' = [q \in Players |-> IF q = p \/ (C # {} /\ q \in users[c])
                                             THEN window[q] \ {c} ELSE window[q]]
     \/ /\ c \in Normal \/ ~MayUse(p, c)
        /\ window' = [window EXCEPT ![p] = @ \ {c}]
        /\ UNCHANGED <<owner, invites, users>>
  /\ UNCHANGED <<online, connected, party, made>>

Invite(p, q) ==
  /\ p \in connected /\ q \in online \ {p}
  /\ \E c \in Owned(p) : invites' = [invites EXCEPT ![c] = @ \cup {q}]
  /\ UNCHANGED <<online, connected, party, made, owner, users, window>>

Exclude(p, q) ==
  /\ p \in connected /\ q \in online \ {p}
  /\ \E c \in Owned(p) :
       /\ q \in invites[c]
       /\ invites' = [invites EXCEPT ![c] = @ \ {q}]
       /\ users' = [users EXCEPT ![c] = @ \ {q}]
       /\ window' = [window EXCEPT ![q] = @ \ {c}]
  /\ UNCHANGED <<online, connected, party, made, owner>>

-----------------------------------------------------------------------------
JoinParty(p, x) ==
  /\ p \in online /\ party[p] = None
  /\ party' = [party EXCEPT ![p] = x]
  /\ UNCHANGED <<online, connected, made, owner, invites, users, window>>

Crew(x) == {p \in Players : party[p] = x}

\* Party::leaveParty and disband, for the players P of party x.  The pointer to
\* the party is cleared first, so sendClosePrivate finds no channel to remove the
\* player from: only the window is closed.
LeaveParty(P, x) ==
  /\ P # {} /\ P \subseteq Crew(x)
  /\ party' = [p \in Players |-> IF p \in P THEN None ELSE party[p]]
  /\ window' = [p \in Players |-> IF p \in P THEN window[p] \ {x} ELSE window[p]]
  /\ UNCHANGED <<online, connected, made, owner, invites, users>>

\* Player::onRemoveCreature; the rest of the party may be disbanded.
LogOut(p) ==
  /\ p \in online /\ online' = online \ {p} /\ connected' = connected \ {p}
  /\ \E P \in {{}, Crew(party[p])} :
       /\ party' = [q \in Players |-> IF q = p \/ q \in P THEN None ELSE party[q]]
       /\ window' = [q \in Players |->
                       Closing(UNION {users[c] : c \in Owned(p)}, Owned(p), p)[q]
                         \ (IF q \in P THEN {party[q]} ELSE {})]
  /\ RemoveUserFromAllChannels(p)
  /\ UNCHANGED made

Next ==
  \/ \E p \in Players : LogIn(p) \/ Disconnect(p) \/ Connect(p) \/ LogOut(p)
                        \/ RequestChannels(p) \/ CreatePrivate(p)
  \/ \E p \in Players, c \in Channels : Open(p, c) \/ Close(p, c)
  \/ \E p, q \in Players : Invite(p, q) \/ Exclude(p, q)
  \/ \E p \in Players, x \in PartyIds : JoinParty(p, x)
  \/ \E P \in SUBSET Players, x \in PartyIds : LeaveParty(P, x)

Spec == Init /\ [][Next]_vars

-----------------------------------------------------------------------------
ChatTypeOK ==
  /\ connected \subseteq online /\ online \subseteq Players /\ made \subseteq PartyIds
  /\ party \in [Players -> PartyIds \cup {None}]
  /\ owner \in [Slots -> Players \cup {None}] /\ invites \in [Slots -> SUBSET Players]
  /\ users \in [Channels -> SUBSET Players] /\ window \in [Players -> SUBSET Channels]

\* No channel keeps a pointer to a player who has left the game.
NobodyGone ==
  /\ \A c \in Channels : users[c] \subseteq online
  /\ \A c \in Slots : invites[c] \cup ({owner[c]} \ {None}) \subseteq online

\* In a private channel are its owner and guests, in none that nobody owns; and
\* nobody owns two.
PrivateIsPrivate ==
  /\ \A c \in Slots :
       IF owner[c] = None THEN users[c] = {} /\ invites[c] = {}
       ELSE /\ owner[c] \in users[c] /\ owner[c] \notin invites[c]
            /\ users[c] \subseteq invites[c] \cup {owner[c]}
  /\ \A c, d \in Slots : owner[c] # None /\ owner[c] = owner[d] => c = d

\* A window is open only where what is said arrives, and of a party's channel
\* only while its player is in the party.  The converse does not hold: who has left
\* a party, or closes a channel he may no longer join, keeps listening.
WindowsServed ==
  \A p \in Players, c \in Channels :
    c \in window[p] => p \in users[c] /\ p \in connected /\ (c \in PartyIds => party[p] = c)

\* Who a channel points to, whom it admits, and what the clients show agree.
ChatInv == ChatTypeOK /\ NobodyGone /\ PrivateIsPrivate /\ WindowsServed
=============================================================================
