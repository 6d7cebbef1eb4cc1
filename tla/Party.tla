-------------------------------- MODULE Party --------------------------------
(***************************************************************************)
(* Parties of players (party.cpp; the player* handlers of game.cpp; the    *)
(* party and the invitations a Player points to).  The dispatcher thread   *)
(* runs one handler at a time, so each handler is one step.  What makes    *)
(* the code hard is that every fact is kept twice, in the party and in the *)
(* player, that one handler calls another that may delete the party, and   *)
(* that a party is a raw pointer: whoever still points to a deleted one    *)
(* uses freed memory.                                                      *)
(*                                                                         *)
(* The party events of data/events are disabled (events.xml), so they      *)
(* never veto.  Level, distance and age of a fight are left open.          *)
(***************************************************************************)
EXTENDS Naturals, Functions, Sequences

CONSTANTS
  Players,
  PartyIds,   \* addresses of Party objects
  None

ASSUME PartyAssumption == None \notin Players \cup PartyIds

VARIABLES
  online,        \* players that Game knows
  party,         \* Player::party
  invitations,   \* Player::invitePartyList
  leader,        \* Party::leader, None where no party is allocated
  members,       \* Party::memberList
  invited,       \* Party::inviteList
  ticks,         \* the keys of Party::ticksMap
  active,        \* Party::sharedExpActive
  enabled        \* Party::sharedExpEnabled

lists == <<party, invitations, leader, members, invited>>
shared == <<ticks, active, enabled>>
vars == <<online, lists, shared>>

Init ==
  /\ online = {}
  /\ party = [p \in Players |-> None]
  /\ invitations = [p \in Players |-> {}]
  /\ leader = [x \in PartyIds |-> None]
  /\ members = [x \in PartyIds |-> <<>>]
  /\ invited = [x \in PartyIds |-> {}]
  /\ ticks = [x \in PartyIds |-> {}]
  /\ active = [x \in PartyIds |-> FALSE]
  /\ enabled = [x \in PartyIds |-> FALSE]

-----------------------------------------------------------------------------
\* std::find and erase
Erase(s, e) ==
  IF e \in Range(s)
    THEN LET i == CHOOSE i \in DOMAIN s : s[i] = e /\ \A j \in 1 .. (i - 1) : s[j] # e IN
         [j \in 1 .. (Len(s) - 1) |-> IF j < i THEN s[j] ELSE s[j + 1]]
    ELSE s

Crew(x) == {leader[x]} \cup Range(members[x])

\* canEnableSharedExperience needs members, and that everybody has fought or
\* healed; whether that is enough depends on levels, distances and times.
CanShare(ms, l, ts) == ms # <<>> /\ {l} \cup Range(ms) \subseteq ts

\* updateSharedExperience of party x once its members, leader and ticks are these.
UpdateShared(x, ms, l, ts) ==
  \E b \in BOOLEAN :
    /\ b => CanShare(ms, l, ts)
    /\ enabled' = [enabled EXCEPT ![x] = IF active[x] THEN b ELSE @]

\* f without the parties D
Without(f, D, nothing) == [x \in PartyIds |-> IF x \in D THEN nothing ELSE f[x]]

\* Disbanding the parties D takes from each player what their lists say he has.
RemainingParty(q, D) == IF \E x \in D : q \in Crew(x) THEN None ELSE party[q]

RemainingInvitations(q, D) == invitations[q] \ {x \in D : q \in invited[x]}

-----------------------------------------------------------------------------
(* The commands.                                                           *)

LogIn(p) ==
  /\ p \notin online
  /\ online' = online \cup {p}
  /\ UNCHANGED <<lists, shared>>

\* Nobody in a party is invited, and who has no party cannot be inviting.
MayInvite(p, q) == p # q /\ {p, q} \subseteq online /\ party[q] = None

AddInvite(x, q) ==
  /\ invited' = [invited EXCEPT ![x] = @ \cup {q}]
  /\ invitations' = [invitations EXCEPT ![q] = @ \cup {x}]

\* playerInviteToParty
InviteToNewParty(p, q) ==
  /\ MayInvite(p, q) /\ party[p] = None
  /\ \E x \in PartyIds :
       /\ leader[x] = None
       /\ leader' = [leader EXCEPT ![x] = p]
       /\ party' = [party EXCEPT ![p] = x]
       /\ AddInvite(x, q)
  /\ UNCHANGED <<online, members, shared>>

Invite(p, q) ==
  /\ MayInvite(p, q)
  /\ \E x \in PartyIds :
       /\ party[p] = x /\ leader[x] = p /\ q \notin invited[x]
       /\ AddInvite(x, q)
  /\ UNCHANGED <<online, party, leader, members, shared>>

\* playerJoinParty and joinParty
JoinWhileMember(q, l, x) == party[l] = x /\ leader[x] = l /\ q \in invited[x]
MayJoin(q, l, x) == party[l] = x /\ leader[x] = l /\ q \in invited[x] /\ party[q] = None

Join(q, l) ==
  /\ {q, l} \subseteq online
  /\ \E x \in PartyIds :
       /\ MayJoin(q, l, x)
       /\ invited' = [invited EXCEPT ![x] = @ \ {q}]
       /\ party' = [party EXCEPT ![q] = x]
       /\ members' = [members EXCEPT ![x] = Append(@, q)]
       /\ invitations' = [invitations EXCEPT ![q] = @ \ {x}]
       /\ UpdateShared(x, Append(members[x], q), l, ticks[x])
  /\ UNCHANGED <<online, leader, ticks, active>>

\* playerPassPartyLeadership and passPartyLeadership
Pass(l, p) ==
  /\ {l, p} \subseteq online /\ l # p
  /\ \E x \in PartyIds :
       LET ms == <<l>> \o Erase(members[x], p) IN
       /\ party[l] = x /\ leader[x] = l /\ party[p] = x
       /\ leader' = [leader EXCEPT ![x] = p]
       /\ members' = [members EXCEPT ![x] = ms]
       /\ UpdateShared(x, ms, p, ticks[x])
  /\ UNCHANGED <<online, party, invitations, invited, ticks, active>>

-----------------------------------------------------------------------------
(* leaveParty, removeInvite, and the logout that calls both.               *)

\* The leader hands the party to its first member, unless there is nobody
\* else or the party would be that member alone.
PassesOn(p, x) ==
  leader[x] = p /\ members[x] # <<>> /\ ~(Len(members[x]) = 1 /\ invited[x] = {})

MembersLeft(p, x) ==
  IF PassesOn(p, x) THEN Tail(members[x]) ELSE Erase(members[x], p)

\* The leader goes without a successor, or nobody is left but the leader.
EndsWithLeader(p, x) == leader[x] = p \/ (MembersLeft(p, x) = <<>> /\ invited[x] = {})
Ends(p, x) ==
  \/ leader[x] = p /\ ~PassesOn(p, x)
  \/ MembersLeft(p, x) = <<>> /\ invited[x] = {}

\* clearPlayerPoints, for a player who leaves
PointsLeft(p, x) == ticks[x] \ {p}

\* The parties that disband because p's invitation was the last thing they had.
HadOnly(p, cs) == {x \in cs : members[x] = <<>> /\ invited[x] = {p}}

\* The invitations cs of p are removed, then p leaves the party left (or none).
Go(p, cs, left) ==
  LET D == HadOnly(p, cs) \cup {y \in left : Ends(p, y)}
      le == [y \in PartyIds |-> IF y \in left /\ PassesOn(p, y) THEN Head(members[y]) ELSE leader[y]]
      me == [y \in PartyIds |-> IF y \in left THEN MembersLeft(p, y) ELSE members[y]]
      id == [y \in PartyIds |-> IF y \in cs THEN invited[y] \ {p} ELSE invited[y]]
      ti == [y \in PartyIds |-> IF y \in left THEN PointsLeft(p, y) ELSE ticks[y]] IN
  /\ party' = [q \in Players |-> IF q = p /\ left # {} THEN None ELSE RemainingParty(q, D)]
  /\ invitations' = [q \in Players |->
                       IF q = p THEN invitations[p] \ cs ELSE RemainingInvitations(q, D)]
  /\ leader' = Without(le, D, None)
  /\ members' = Without(me, D, <<>>)
  /\ invited' = Without(id, D, {})
  /\ ticks' = Without(ti, D, {})
  /\ active' = Without(active, D, FALSE)
  /\ \E b \in BOOLEAN :
       /\ b => \A y \in left : CanShare(me[y], le[y], ti[y])
       /\ enabled' = Without([y \in PartyIds |-> IF y \in left /\ active[y] THEN b ELSE enabled[y]],
                             D, FALSE)

Membership(p) == {party[p]} \cap PartyIds

\* playerLeaveParty
Leave(p) ==
  /\ p \in online /\ Membership(p) # {}
  /\ Go(p, {}, Membership(p))
  /\ UNCHANGED online

\* playerRevokePartyInvitation, revokeInvitation and removeInvite
Revoke(l, q) ==
  /\ {l, q} \subseteq online
  /\ \E x \in PartyIds :
       /\ party[l] = x /\ leader[x] = l /\ q \in invited[x]
       /\ Go(q, {x}, {})
  /\ UNCHANGED online

\* onRemoveCreature: clearPartyInvitations, then leaveParty
LogOut(p) ==
  /\ p \in online /\ online' = online \ {p}
  /\ Go(p, invitations[p], Membership(p))

-----------------------------------------------------------------------------
(* Shared experience.                                                      *)

\* setSharedExperience.  enabled is left alone when it is switched off.
SetShared(p, v) ==
  /\ p \in online
  /\ \E x \in PartyIds :
       /\ party[p] = x /\ leader[x] = p /\ active[x] # v
       /\ active' = [active EXCEPT ![x] = v]
       /\ \E b \in BOOLEAN :
            /\ b => CanShare(members[x], leader[x], ticks[x])
            /\ enabled' = [enabled EXCEPT ![x] = IF v THEN b ELSE @]
  /\ UNCHANGED <<online, lists, ticks>>

\* updatePlayerTicks and clearPlayerPoints
ForgetsToUpdate(x, ts) == ticks' = [ticks EXCEPT ![x] = ts] /\ UNCHANGED enabled
SetTicks(x, ts) ==
  /\ ticks' = [ticks EXCEPT ![x] = ts]
  /\ UpdateShared(x, members[x], leader[x], ts)

Fight(p) ==
  /\ p \in online
  /\ \E x \in Membership(p) : SetTicks(x, ticks[x] \cup {p})
  /\ UNCHANGED <<online, lists, active>>

Idle(p) ==
  /\ p \in online
  /\ \E x \in Membership(p) : p \in ticks[x] /\ SetTicks(x, ticks[x] \ {p})
  /\ UNCHANGED <<online, lists, active>>

\* A step, or a new level.
Update(p) ==
  /\ p \in online
  /\ \E x \in Membership(p) : UpdateShared(x, members[x], leader[x], ticks[x])
  /\ UNCHANGED <<online, lists, ticks, active>>

-----------------------------------------------------------------------------
Next ==
  \/ \E p \in Players : LogIn(p) \/ Leave(p) \/ LogOut(p) \/ Fight(p) \/ Idle(p) \/ Update(p)
  \/ \E p, q \in Players :
       InviteToNewParty(p, q) \/ Invite(p, q) \/ Join(q, p) \/ Revoke(p, q) \/ Pass(p, q)
  \/ \E p \in Players, v \in BOOLEAN : SetShared(p, v)

Spec == Init /\ [][Next]_vars

-----------------------------------------------------------------------------
TypeOK ==
  /\ online \subseteq Players
  /\ party \in [Players -> PartyIds \cup {None}]
  /\ invitations \in [Players -> SUBSET PartyIds]
  /\ leader \in [PartyIds -> Players \cup {None}]
  /\ members \in [PartyIds -> Seq(Players)]
  /\ invited \in [PartyIds -> SUBSET Players]
  /\ ticks \in [PartyIds -> SUBSET Players]
  /\ \A x \in PartyIds : ticks[x] \subseteq Crew(x)
  /\ active \in [PartyIds -> BOOLEAN] /\ enabled \in [PartyIds -> BOOLEAN]

\* A player and a party never disagree about who belongs to it.
MembershipAgrees ==
  \A p \in Players, x \in PartyIds : party[p] = x <=> p \in Crew(x)

\* Nor about who is invited: neither points to the other after it is deleted.
InvitationsAgree ==
  \A p \in Players, x \in PartyIds : x \in invitations[p] <=> p \in invited[x]

\* Nobody is invited to the party he is in.
NotInvitedInside == \A x \in PartyIds : invited[x] \cap Crew(x) = {}

\* A party refers only to players in the game; a deleted party to nobody.
NoDeadPlayers ==
  \A x \in PartyIds :
    /\ Range(members[x]) \cup invited[x] \subseteq online
    /\ leader[x] \in online \/ (leader[x] = None /\ members[x] = <<>> /\ invited[x] = {})

\* The member list names everybody once, and not the leader.
Ranks ==
  \A x \in PartyIds : IsInjective(members[x]) /\ leader[x] \notin Range(members[x])

\* No party is only its leader.
NoLonelyParty ==
  \A x \in PartyIds : leader[x] # None => members[x] # <<>> \/ invited[x] # {}

\* Players and parties are in agreement after every operation.
\* The parts are named above: each is a way for the two sides to fall apart.
Inv ==
  /\ TypeOK /\ MembershipAgrees /\ InvitationsAgree /\ NotInvitedInside
  /\ NoDeadPlayers /\ Ranks /\ NoLonelyParty

\* Experience is shared only in a party of several that have all taken part.
SharedByActive ==
  \A x \in PartyIds : active[x] /\ enabled[x] => CanShare(members[x], leader[x], ticks[x])

\* Two players or more who want to stay keep their party.
CompanyStays ==
  [][\A x \in PartyIds : Len(members[x]) >= 2 => leader'[x] # None]_vars
=============================================================================
