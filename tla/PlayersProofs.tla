--------------------------- MODULE PlayersProofs ---------------------------
(***************************************************************************)
(* Theorems about what players do with each other (MCPlayers): the chat,   *)
(* trades, the list of those who wait to log in, who is credited with a    *)
(* kill, and the conditions.  Each part has an inductive invariant of its  *)
(* own; a step of one part leaves the others alone.                        *)
(*                                                                         *)
(* Players and parties agree, for any number of players and parties.       *)
(* Everything a handler does to the member list is reduced to what it does *)
(* to the set of its members; the rest of the argument is about sets.      *)
(***************************************************************************)
EXTENDS MCPlayers, FiniteSetTheorems, SequenceTheorems, WellFoundedInduction, TLAPS

-----------------------------------------------------------------------------
(* The member list.                                                        *)

LEMMA RangeOf ==
  ASSUME NEW S, NEW s \in Seq(S)
  PROVE  /\ Len(s) \in Nat /\ Range(s) \subseteq S
         /\ Range(s) = {s[i] : i \in 1 .. Len(s)}
         /\ IsInjective(s) <=> \A i, j \in 1 .. Len(s) : s[i] = s[j] => i = j
         /\ Range(s) = {} <=> s = <<>>
         /\ s = <<>> <=> Len(s) = 0
<1>1. /\ Len(s) \in Nat /\ s \in [1 .. Len(s) -> S]
      /\ DOMAIN s = 1 .. Len(s)
  BY LenProperties
<1>2. s = <<>> <=> Len(s) = 0
  BY EmptySeq, <1>1
<1>3. Range(s) = {s[i] : i \in 1 .. Len(s)}
  BY <1>1 DEF Range
<1>4. Range(s) \subseteq S
  BY <1>1, <1>3
<1>5. IsInjective(s) <=> \A i, j \in 1 .. Len(s) : s[i] = s[j] => i = j
  BY <1>1 DEF IsInjective
<1>6. Range(s) = {} <=> Len(s) = 0
  BY <1>1, <1>3
<1> QED BY <1>1, <1>2, <1>3, <1>4, <1>5, <1>6

LEMMA NoMembers == Range(<<>>) = {} /\ IsInjective(<<>>) /\ <<>> \in Seq(Players)
<1>1. <<>> \in Seq(Players)
  BY EmptySeq
<1>2. Range(<<>>) = {}
  BY <1>1, RangeOf
<1>3. DOMAIN <<>> = {}
  BY <1>2 DEF Range
<1>4. IsInjective(<<>>)
  BY <1>3 DEF IsInjective
<1> QED BY <1>1, <1>2, <1>4

LEMMA AppendMember ==
  ASSUME NEW S, NEW s \in Seq(S), NEW e \in S
  PROVE  /\ Append(s, e) \in Seq(S) /\ Append(s, e) # <<>>
         /\ Range(Append(s, e)) = Range(s) \cup {e}
         /\ IsInjective(s) /\ e \notin Range(s) => IsInjective(Append(s, e))
<1> DEFINE la == Append(s, e)
<1>1. /\ la \in Seq(S) /\ Len(la) = Len(s) + 1 /\ la[Len(s) + 1] = e
      /\ \A i \in 1 .. Len(s) : la[i] = s[i]
  BY AppendProperties, LenProperties, SMT
<1> HIDE DEF la
<1>2. Range(s) = {s[i] : i \in 1 .. Len(s)} /\ Len(s) \in Nat
  BY RangeOf
<1>3. Range(la) = {la[i] : i \in 1 .. Len(la)} /\ (la = <<>> <=> Len(la) = 0)
  BY <1>1, RangeOf
<1>4. Range(la) = Range(s) \cup {e}
  <2>1. 1 .. Len(la) = 1 .. Len(s) \cup {Len(s) + 1}
    BY <1>1, <1>2
  <2> QED BY <1>1, <1>2, <1>3, <2>1
<1>5. ASSUME IsInjective(s), e \notin Range(s) PROVE IsInjective(la)
  <2>1. \A i, j \in 1 .. Len(s) : s[i] = s[j] => i = j
    BY <1>5, RangeOf
  <2>2. \A i, j \in 1 .. Len(la) : la[i] = la[j] => i = j
    BY <1>1, <1>2, <1>5, <2>1
  <2> QED BY <1>1, <2>2, RangeOf
<1>6. la # <<>>
  BY <1>1, <1>2, <1>3
<1> QED BY <1>1, <1>4, <1>5, <1>6 DEF la

LEMMA PrependMember ==
  ASSUME NEW S, NEW s \in Seq(S), NEW e \in S
  PROVE  /\ <<e>> \o s \in Seq(S) /\ <<e>> \o s # <<>>
         /\ Range(<<e>> \o s) = Range(s) \cup {e}
         /\ IsInjective(s) /\ e \notin Range(s) => IsInjective(<<e>> \o s)
<1> DEFINE la == <<e>> \o s
<1>1. /\ la \in Seq(S) /\ Len(la) = Len(s) + 1 /\ Len(s) \in Nat
      /\ \A i \in 1 .. Len(la) : la[i] = IF i = 1 THEN e ELSE s[i - 1]
  <2>1. <<e>> \in Seq(S) /\ Len(<<e>>) = 1 /\ <<e>>[1] = e
    OBVIOUS
  <2>2. Len(s) \in Nat
    BY LenProperties
  <2> QED BY <2>1, <2>2, ConcatProperties
<1> HIDE DEF la
<1>2. Range(s) = {s[i] : i \in 1 .. Len(s)}
  BY RangeOf
<1>3. Range(la) = {la[i] : i \in 1 .. Len(la)} /\ (la = <<>> <=> Len(la) = 0)
  BY <1>1, RangeOf
<1>4. ASSUME NEW y PROVE y \in Range(la) <=> y \in Range(s) \cup {e}
  <2>1. ASSUME y \in Range(la) PROVE y \in Range(s) \cup {e}
    <3>1. PICK i \in 1 .. Len(la) : y = la[i]
      BY <1>3, <2>1
    <3>2. i = 1 \/ i - 1 \in 1 .. Len(s)
      BY <1>1
    <3> QED BY <1>1, <1>2, <3>1, <3>2
  <2>2. ASSUME y \in Range(s) PROVE y \in Range(la)
    <3>1. PICK i \in 1 .. Len(s) : y = s[i]
      BY <1>2, <2>2
    <3>2. i + 1 \in 1 .. Len(la) /\ la[i + 1] = s[i]
      BY <1>1
    <3> QED BY <1>3, <3>1, <3>2
  <2>3. e \in Range(la)
    BY <1>1, <1>3
  <2> QED BY <2>1, <2>2, <2>3
<1>5. ASSUME IsInjective(s), e \notin Range(s) PROVE IsInjective(la)
  <2>1. \A i, j \in 1 .. Len(s) : s[i] = s[j] => i = j
    BY <1>5, RangeOf
  <2>2. ASSUME NEW i \in 1 .. Len(la), NEW j \in 1 .. Len(la), la[i] = la[j] PROVE i = j
    <3>1. \A k \in 2 .. Len(la) : k - 1 \in 1 .. Len(s) /\ la[k] = s[k - 1] /\ la[k] # e
      BY <1>1, <1>2, <1>5
    <3>2. CASE i = 1 \/ j = 1
      BY <1>1, <2>2, <3>1, <3>2
    <3>3. CASE i # 1 /\ j # 1
      <4>1. i \in 2 .. Len(la) /\ j \in 2 .. Len(la)
        BY <1>1, <3>3
      <4>2. i - 1 = j - 1
        BY <2>1, <2>2, <3>1, <4>1
      <4> QED BY <4>1, <4>2
    <3> QED BY <3>2, <3>3
  <2> QED BY <1>1, <2>2, RangeOf
<1> QED BY <1>1, <1>3, <1>4, <1>5 DEF la

LEMMA FirstMember ==
  ASSUME NEW S, NEW s \in Seq(S), s # <<>>, IsInjective(s)
  PROVE  /\ Head(s) \in S /\ Tail(s) \in Seq(S) /\ Len(Tail(s)) = Len(s) - 1
         /\ Range(s) = Range(Tail(s)) \cup {Head(s)}
         /\ Head(s) \notin Range(Tail(s)) /\ IsInjective(Tail(s))
<1> DEFINE t == Tail(s)
<1>1. /\ t \in Seq(S) /\ Len(t) = Len(s) - 1 /\ Head(s) = s[1] /\ Head(s) \in S
      /\ \A i \in 1 .. Len(t) : t[i] = s[i + 1]
  BY HeadTailProperties
<1>2. /\ Range(s) = {s[i] : i \in 1 .. Len(s)} /\ Len(s) \in Nat \ {0}
      /\ \A i, j \in 1 .. Len(s) : s[i] = s[j] => i = j
  BY RangeOf
<1> HIDE DEF t
<1>3. Range(t) = {t[i] : i \in 1 .. Len(t)}
  BY <1>1, RangeOf
<1>4. ASSUME NEW x PROVE x \in Range(s) <=> x \in Range(t) \cup {Head(s)}
  <2>1. ASSUME x \in Range(s) PROVE x \in Range(t) \cup {Head(s)}
    <3>1. PICK i \in 1 .. Len(s) : x = s[i]
      BY <1>2, <2>1
    <3>2. i = 1 \/ (i - 1 \in 1 .. Len(t) /\ t[i - 1] = s[i])
      BY <1>1, <1>2
    <3> QED BY <1>1, <1>3, <3>1, <3>2
  <2>2. ASSUME x \in Range(t) PROVE x \in Range(s)
    BY <1>1, <1>2, <1>3, <2>2
  <2>3. Head(s) \in Range(s)
    BY <1>1, <1>2
  <2> QED BY <2>1, <2>2, <2>3
<1>5. Head(s) \notin Range(t)
  BY <1>1, <1>2, <1>3
<1>6. IsInjective(t)
  <2>1. \A i, j \in 1 .. Len(t) : t[i] = t[j] => i = j
    BY <1>1, <1>2
  <2> QED BY <1>1, <2>1, RangeOf
<1> QED BY <1>1, <1>4, <1>5, <1>6 DEF t

LEMMA ErasedMember ==
  ASSUME NEW S, NEW s \in Seq(S), NEW e, IsInjective(s)
  PROVE  /\ Erase(s, e) \in Seq(S) /\ Len(Erase(s, e)) >= Len(s) - 1
         /\ Range(Erase(s, e)) = Range(s) \ {e}
         /\ IsInjective(Erase(s, e))
<1>1. /\ Range(s) = {s[i] : i \in 1 .. Len(s)} /\ Len(s) \in Nat
      /\ \A i, j \in 1 .. Len(s) : s[i] = s[j] => i = j
      /\ s \in [1 .. Len(s) -> S] /\ DOMAIN s = 1 .. Len(s)
  BY RangeOf, LenProperties
<1>2. CASE e \notin Range(s)
  <2>1. Erase(s, e) = s
    BY <1>2 DEF Erase
  <2> QED BY <1>1, <1>2, <2>1
<1>3. CASE e \in Range(s)
  <2> DEFINE P(i) == s[i] = e /\ \A j \in 1 .. (i - 1) : s[j] # e
             i == CHOOSE n \in DOMAIN s : P(n)
             r == Erase(s, e)
  <2>1. PICK k \in 1 .. Len(s) : s[k] = e
    BY <1>1, <1>3
  <2>2. k \in DOMAIN s /\ P(k)
    BY <1>1, <2>1
  <2>3. i \in 1 .. Len(s) /\ s[i] = e
    BY <1>1, <2>2
  <2>4. r = [j \in 1 .. (Len(s) - 1) |-> IF j < i THEN s[j] ELSE s[j + 1]]
    BY <1>3 DEF Erase
  <2> HIDE DEF i, r
  <2>5. Len(s) - 1 \in Nat
    BY <1>1, <2>1
  <2>6. r \in [1 .. (Len(s) - 1) -> S]
    BY <1>1, <2>3, <2>4
  <2>7. r \in Seq(S)
    BY <2>5, <2>6, SeqDef
  <2>8. Len(r) = Len(s) - 1
    BY <2>5, <2>6, <2>7, LenProperties, SMT
  <2>9. \A j \in 1 .. Len(r) : r[j] = IF j < i THEN s[j] ELSE s[j + 1]
    BY <2>4, <2>8
  <2>10. Range(r) = {r[j] : j \in 1 .. Len(r)}
    BY <2>7, RangeOf
  <2>11. ASSUME NEW x PROVE x \in Range(r) <=> x \in Range(s) \ {e}
    <3>1. ASSUME x \in Range(r) PROVE x \in Range(s) \ {e}
      <4>1. PICK j \in 1 .. Len(r) : x = r[j]
        BY <2>10, <3>1
      <4>2. PICK m \in 1 .. Len(s) : x = s[m] /\ m # i
        BY <1>1, <2>3, <2>8, <2>9, <4>1
      <4> QED BY <1>1, <2>3, <4>2
    <3>2. ASSUME x \in Range(s) \ {e} PROVE x \in Range(r)
      <4>1. PICK m \in 1 .. Len(s) : x = s[m]
        BY <1>1, <3>2
      <4>2. m # i
        BY <2>3, <3>2, <4>1
      <4>3. CASE m < i
        BY <1>1, <2>3, <2>8, <2>9, <2>10, <4>1, <4>3
      <4>4. CASE m > i
        <5>1. m - 1 \in 1 .. Len(r) /\ r[m - 1] = s[m]
          BY <1>1, <2>3, <2>8, <2>9, <4>4
        <5> QED BY <2>10, <4>1, <5>1
      <4> QED BY <1>1, <2>3, <4>2, <4>3, <4>4
    <3> QED BY <3>1, <3>2
  <2>12. IsInjective(r)
    <3>1. \A j, m \in 1 .. Len(r) : r[j] = r[m] => j = m
      BY <1>1, <2>3, <2>8, <2>9
    <3> QED BY <2>7, <3>1, RangeOf
  <2> QED BY <1>1, <2>7, <2>8, <2>11, <2>12 DEF r
<1> QED BY <1>2, <1>3

-----------------------------------------------------------------------------
(* What the invariant says of the parts of the state.                      *)

LEMMA Agreed ==
  ASSUME Inv
  PROVE  /\ online \subseteq Players
         /\ \A p \in Players : party[p] \in PartyIds \cup {None}
         /\ \A x \in PartyIds :
              /\ leader[x] \in Players \cup {None} /\ members[x] \in Seq(Players)
              /\ Range(members[x]) \subseteq online /\ invited[x] \subseteq online
              /\ IsInjective(members[x]) /\ leader[x] \notin Range(members[x])
              /\ invited[x] \cap Crew(x) = {} /\ ticks[x] \subseteq Crew(x) \cap Players
              /\ \A p \in Players : party[p] = x <=> p \in Crew(x)
BY DEF Inv, TypeOK, MembershipAgrees, InvitationsAgree, NotInvitedInside, NoDeadPlayers, Ranks

\* A party that is not allocated has nothing, and nobody points to it.
LEMMA Unallocated ==
  ASSUME Inv, NEW x \in PartyIds, leader[x] = None
  PROVE  /\ members[x] = <<>> /\ invited[x] = {} /\ ticks[x] = {} /\ Crew(x) = {None}
         /\ \A p \in Players : party[p] # x
<1>1. None \notin Players /\ online \subseteq Players
  BY Agreed, PartyAssumption
<1>2. members[x] = <<>> /\ invited[x] = {}
  BY <1>1 DEF Inv, NoDeadPlayers
<1>3. Crew(x) = {None}
  BY <1>2, NoMembers DEF Crew
<1> QED BY <1>1, <1>2, <1>3, Agreed

\* Handlers that leave the lists alone.
LEMMA SharingStep ==
  ASSUME Inv, UNCHANGED <<online, lists>>,
         ticks' \in [PartyIds -> SUBSET Players], active' \in [PartyIds -> BOOLEAN],
         enabled' \in [PartyIds -> BOOLEAN],
         \A x \in PartyIds : ticks'[x] \subseteq Crew(x)
  PROVE  Inv'
<1>1. \A x \in PartyIds : Crew(x)' = Crew(x)
  BY DEF lists, Crew
<1> QED BY <1>1 DEF Inv, TypeOK, MembershipAgrees, InvitationsAgree, NotInvitedInside,
                    NoDeadPlayers, Ranks, NoLonelyParty, lists

LEMMA UpdateType ==
  ASSUME Inv, NEW x \in PartyIds, NEW ms, NEW l, NEW ts, UpdateShared(x, ms, l, ts)
  PROVE  enabled' \in [PartyIds -> BOOLEAN]
BY DEF UpdateShared, Inv, TypeOK

-----------------------------------------------------------------------------
(* The handlers that do not take anybody out of a party.                   *)

LEMMA InitInv == Init => Inv
<1> SUFFICES ASSUME Init PROVE Inv
  OBVIOUS
<1>1. \A x \in PartyIds : Crew(x) = {None}
  BY NoMembers DEF Init, Crew
<1>2. TypeOK
  BY <1>1, NoMembers DEF Init, TypeOK
<1> QED BY <1>1, <1>2, NoMembers, PartyAssumption
        DEF Init, Inv, MembershipAgrees, InvitationsAgree, NotInvitedInside, NoDeadPlayers,
            Ranks, NoLonelyParty

LEMMA LogInStep == ASSUME Inv, NEW p \in Players, LogIn(p) PROVE Inv'
<1>1. \A x \in PartyIds : Crew(x)' = Crew(x)
  BY DEF LogIn, lists, Crew
<1> QED BY <1>1 DEF LogIn, lists, shared, Inv, TypeOK, MembershipAgrees, InvitationsAgree,
                    NotInvitedInside, NoDeadPlayers, Ranks, NoLonelyParty

LEMMA TicksStep ==
  ASSUME Inv, NEW p \in Players, Fight(p) \/ Idle(p) \/ Update(p)
  PROVE  Inv'
<1>1. PICK x \in PartyIds, ts \in SUBSET Players :
        /\ party[p] = x /\ ts \subseteq ticks[x] \cup {p}
        /\ ticks' = [ticks EXCEPT ![x] = ts] /\ UpdateShared(x, members[x], leader[x], ts)
  BY DEF Fight, Idle, Update, SetTicks, Membership, Inv, TypeOK
<1>2. p \in Crew(x)
  BY <1>1, Agreed
<1>3. \A y \in PartyIds : ticks'[y] \subseteq Crew(y)
  BY <1>1, <1>2 DEF Inv, TypeOK
<1>4. ticks' \in [PartyIds -> SUBSET Players]
  BY <1>1 DEF Inv, TypeOK
<1>5. enabled' \in [PartyIds -> BOOLEAN]
  BY <1>1, UpdateType
<1>6. UNCHANGED <<online, lists, active>>
  BY DEF Fight, Idle, Update
<1> QED BY <1>3, <1>4, <1>5, <1>6, SharingStep DEF Inv, TypeOK

LEMMA SetSharedStep ==
  ASSUME Inv, NEW p \in Players, NEW v \in BOOLEAN, SetShared(p, v)
  PROVE  Inv'
<1>1. /\ active' \in [PartyIds -> BOOLEAN] /\ enabled' \in [PartyIds -> BOOLEAN]
      /\ UNCHANGED <<online, lists, ticks>>
  BY DEF SetShared, Inv, TypeOK
<1> QED BY <1>1, SharingStep DEF Inv, TypeOK

LEMMA InviteStep ==
  ASSUME Inv, NEW p \in Players, NEW q \in Players, Invite(p, q)
  PROVE  Inv'
<1>1. PICK x \in PartyIds : party[p] = x /\ leader[x] = p /\ AddInvite(x, q)
  BY DEF Invite
<1>2. q \in online /\ party[q] = None /\ UNCHANGED <<online, party, leader, members, shared>>
  BY DEF Invite, MayInvite
<1>3. \A y \in PartyIds : Crew(y)' = Crew(y)
  BY <1>2 DEF Crew
<1>4. q \notin Crew(x)
  BY <1>2, Agreed, PartyAssumption
<1>5. TypeOK'
  BY <1>1, <1>2, <1>3 DEF Inv, TypeOK, AddInvite, shared
<1>6. MembershipAgrees' /\ Ranks'
  BY <1>2, <1>3 DEF Inv, MembershipAgrees, Ranks
<1>7. InvitationsAgree' /\ NotInvitedInside'
  BY <1>1, <1>3, <1>4 DEF Inv, TypeOK, InvitationsAgree, NotInvitedInside, AddInvite
<1>8. NoDeadPlayers' /\ NoLonelyParty'
  BY <1>1, <1>2, Agreed, PartyAssumption
     DEF Inv, TypeOK, NoDeadPlayers, NoLonelyParty, AddInvite
<1> QED BY <1>5, <1>6, <1>7, <1>8 DEF Inv

LEMMA NewPartyStep ==
  ASSUME Inv, NEW p \in Players, NEW q \in Players, InviteToNewParty(p, q)
  PROVE  Inv'
<1>1. PICK x \in PartyIds :
        /\ leader[x] = None /\ leader' = [leader EXCEPT ![x] = p]
        /\ party' = [party EXCEPT ![p] = x] /\ AddInvite(x, q)
  BY DEF InviteToNewParty
<1>2. /\ p # q /\ {p, q} \subseteq online /\ party[q] = None /\ party[p] = None
      /\ UNCHANGED <<online, members, shared>>
  BY DEF InviteToNewParty, MayInvite
<1>3. /\ members[x] = <<>> /\ invited[x] = {} /\ ticks[x] = {}
      /\ \A r \in Players : party[r] # x
  BY <1>1, Unallocated
<1>4. /\ Crew(x)' = {p}
      /\ \A y \in PartyIds \ {x} : Crew(y)' = Crew(y)
  BY <1>1, <1>2, <1>3, NoMembers DEF Crew, Inv, TypeOK
<1>5. TypeOK'
  BY <1>1, <1>2, <1>3, <1>4 DEF Inv, TypeOK, AddInvite, shared
<1>6. MembershipAgrees'
  BY <1>1, <1>2, <1>3, <1>4, PartyAssumption DEF Inv, TypeOK, MembershipAgrees
<1>7. InvitationsAgree' /\ NotInvitedInside'
  BY <1>1, <1>2, <1>3, <1>4 DEF Inv, TypeOK, InvitationsAgree, NotInvitedInside, AddInvite
<1>8. NoDeadPlayers' /\ NoLonelyParty'
  BY <1>1, <1>2, <1>3 DEF Inv, TypeOK, NoDeadPlayers, NoLonelyParty, AddInvite
<1>9. Ranks'
  BY <1>1, <1>2, <1>3, NoMembers DEF Inv, TypeOK, Ranks
<1> QED BY <1>5, <1>6, <1>7, <1>8, <1>9 DEF Inv

LEMMA JoinStep ==
  ASSUME Inv, NEW q \in Players, NEW l \in Players, Join(q, l)
  PROVE  Inv'
<1>1. PICK x \in PartyIds :
        /\ leader[x] = l /\ q \in invited[x] /\ party[q] = None
        /\ invited' = [invited EXCEPT ![x] = @ \ {q}]
        /\ party' = [party EXCEPT ![q] = x]
        /\ members' = [members EXCEPT ![x] = Append(@, q)]
        /\ invitations' = [invitations EXCEPT ![q] = @ \ {x}]
        /\ UpdateShared(x, Append(members[x], q), l, ticks[x])
  BY DEF Join, MayJoin
<1>2. {q, l} \subseteq online /\ UNCHANGED <<online, leader, ticks, active>>
  BY DEF Join
<1>3. \A y \in PartyIds : q \notin Crew(y)
  BY <1>1, Agreed, PartyAssumption
<1>4. /\ members'[x] \in Seq(Players) /\ members'[x] # <<>>
      /\ Range(members'[x]) = Range(members[x]) \cup {q} /\ IsInjective(members'[x])
      /\ leader'[x] \notin Range(members'[x])
      /\ \A y \in PartyIds \ {x} : members'[y] = members[y]
  <2>1. q \notin Range(members[x]) /\ leader[x] # q /\ IsInjective(members[x])
    BY <1>3, Agreed DEF Crew
  <2>2. members[x] \in Seq(Players) /\ members'[x] = Append(members[x], q)
    BY <1>1 DEF Inv, TypeOK
  <2> QED BY <1>1, <1>2, <2>1, <2>2, AppendMember, Agreed DEF Inv, TypeOK
<1>5. /\ Crew(x)' = Crew(x) \cup {q}
      /\ \A y \in PartyIds \ {x} : Crew(y)' = Crew(y)
  BY <1>2, <1>4 DEF Crew
<1>6. TypeOK'
  <2>1. members' \in [PartyIds -> Seq(Players)]
    BY <1>1, <1>4 DEF Inv, TypeOK
  <2>2. enabled' \in [PartyIds -> BOOLEAN]
    BY <1>1, UpdateType
  <2>3. \A y \in PartyIds : ticks'[y] \subseteq Crew(y)'
    BY <1>2, <1>5, Agreed
  <2>4. /\ party' \in [Players -> PartyIds \cup {None}]
        /\ invitations' \in [Players -> SUBSET PartyIds] /\ invited' \in [PartyIds -> SUBSET Players]
    BY <1>1 DEF Inv, TypeOK
  <2>5. UNCHANGED <<online, leader, ticks, active>>
    BY <1>2
  <2> QED BY <2>1, <2>2, <2>3, <2>4, <2>5 DEF Inv, TypeOK
<1>7. MembershipAgrees'
  BY <1>1, <1>3, <1>5, PartyAssumption DEF Inv, TypeOK, MembershipAgrees
<1>8. InvitationsAgree' /\ NotInvitedInside'
  BY <1>1, <1>5 DEF Inv, TypeOK, InvitationsAgree, NotInvitedInside
<1>9. NoDeadPlayers' /\ NoLonelyParty'
  BY <1>1, <1>2, <1>4 DEF Inv, TypeOK, NoDeadPlayers, NoLonelyParty
<1>10. Ranks'
  BY <1>2, <1>4 DEF Inv, Ranks
<1> QED BY <1>6, <1>7, <1>8, <1>9, <1>10 DEF Inv

LEMMA PassStep ==
  ASSUME Inv, NEW l \in Players, NEW p \in Players, Pass(l, p)
  PROVE  Inv'
<1> DEFINE MS(x) == <<l>> \o Erase(members[x], p)
<1>1. PICK x \in PartyIds :
        /\ leader[x] = l /\ party[p] = x /\ l # p
        /\ leader' = [leader EXCEPT ![x] = p]
        /\ members' = [members EXCEPT ![x] = MS(x)]
        /\ UpdateShared(x, MS(x), p, ticks[x])
  BY DEF Pass
<1>2. {l, p} \subseteq online /\ UNCHANGED <<online, party, invitations, invited, ticks, active>>
  BY DEF Pass
<1>3. /\ MS(x) \in Seq(Players) /\ MS(x) # <<>> /\ IsInjective(MS(x))
      /\ Range(MS(x)) = (Range(members[x]) \ {p}) \cup {l}
  <2>1. /\ members[x] \in Seq(Players) /\ IsInjective(members[x])
        /\ l \notin Range(members[x])
    BY <1>1, Agreed
  <2>2. /\ Erase(members[x], p) \in Seq(Players) /\ IsInjective(Erase(members[x], p))
        /\ Range(Erase(members[x], p)) = Range(members[x]) \ {p}
    BY <2>1, ErasedMember
  <2> QED BY <2>1, <2>2, PrependMember
<1> HIDE DEF MS
<1>4. p \in Range(members[x])
  BY <1>1, Agreed DEF Crew
<1>5. /\ leader'[x] = p /\ members'[x] = MS(x)
      /\ \A y \in PartyIds \ {x} : leader'[y] = leader[y] /\ members'[y] = members[y]
  BY <1>1 DEF Inv, TypeOK
<1>6. \A y \in PartyIds : Crew(y)' = Crew(y)
  BY <1>1, <1>3, <1>4, <1>5 DEF Crew
<1>7. TypeOK'
  <2>1. /\ leader' \in [PartyIds -> Players \cup {None}]
        /\ members' \in [PartyIds -> Seq(Players)]
    BY <1>1, <1>3 DEF Inv, TypeOK
  <2>2. enabled' \in [PartyIds -> BOOLEAN]
    BY <1>1, UpdateType
  <2> QED BY <1>2, <1>6, <2>1, <2>2 DEF Inv, TypeOK
<1>8. MembershipAgrees' /\ InvitationsAgree' /\ NotInvitedInside'
  BY <1>2, <1>6 DEF Inv, MembershipAgrees, InvitationsAgree, NotInvitedInside
<1>9. NoDeadPlayers' /\ NoLonelyParty'
  BY <1>1, <1>2, <1>3, <1>5, Agreed DEF Inv, NoDeadPlayers, NoLonelyParty
<1>10. Ranks'
  BY <1>1, <1>3, <1>5 DEF Inv, Ranks
<1> QED BY <1>7, <1>8, <1>9, <1>10 DEF Inv

-----------------------------------------------------------------------------
(* Leaving, revoking and logging out.                                      *)

\* A party that p leaves and that goes on has lost p, and only p.
LEMMA LeftParty ==
  ASSUME Inv, NEW p \in Players, NEW y \in PartyIds, party[p] = y, ~Ends(p, y),
         NEW l, l = IF PassesOn(p, y) THEN Head(members[y]) ELSE leader[y]
  PROVE  /\ MembersLeft(p, y) \in Seq(Players) /\ IsInjective(MembersLeft(p, y))
         /\ l \in Players \ {p} /\ l \notin Range(MembersLeft(p, y))
         /\ {l} \cup Range(MembersLeft(p, y)) = Crew(y) \ {p}
         /\ MembersLeft(p, y) # <<>> \/ invited[y] # {}
<1>1. /\ members[y] \in Seq(Players) /\ IsInjective(members[y]) /\ p \in Crew(y)
      /\ leader[y] \notin Range(members[y]) /\ leader[y] \in Players \cup {None}
      /\ Range(members[y]) \subseteq Players
  BY Agreed
<1>2. MembersLeft(p, y) # <<>> \/ invited[y] # {}
  BY DEF Ends
<1>3. CASE PassesOn(p, y)
  <2>1. leader[y] = p /\ members[y] # <<>> /\ MembersLeft(p, y) = Tail(members[y])
    BY <1>3 DEF PassesOn, MembersLeft
  <2>2. /\ Head(members[y]) \in Players /\ Tail(members[y]) \in Seq(Players)
        /\ Range(members[y]) = Range(Tail(members[y])) \cup {Head(members[y])}
        /\ Head(members[y]) \notin Range(Tail(members[y])) /\ IsInjective(Tail(members[y]))
    BY <1>1, <2>1, FirstMember
  <2> QED BY <1>1, <1>2, <1>3, <2>1, <2>2 DEF Crew
<1>4. CASE ~PassesOn(p, y)
  <2>1. leader[y] # p /\ MembersLeft(p, y) = Erase(members[y], p)
    BY <1>4 DEF Ends, MembersLeft
  <2>2. p \in Range(members[y])
    BY <1>1, <2>1 DEF Crew
  <2>3. leader[y] # None
    BY <2>2, Unallocated, NoMembers
  <2>4. /\ Erase(members[y], p) \in Seq(Players) /\ IsInjective(Erase(members[y], p))
        /\ Range(Erase(members[y], p)) = Range(members[y]) \ {p}
    BY <1>1, ErasedMember
  <2> QED BY <1>1, <1>2, <1>4, <2>1, <2>3, <2>4 DEF Crew
<1> QED BY <1>3, <1>4

\* p, who is invited by the parties cs and a member of those in left, loses both.
LEMMA GoStep ==
  ASSUME Inv, NEW p \in Players, NEW cs \in SUBSET invitations[p],
         NEW left \in {{}, Membership(p)}, Go(p, cs, left),
         \/ online' = online
         \/ online' = online \ {p} /\ cs = invitations[p] /\ left = Membership(p)
  PROVE  Inv'
<1> DEFINE D == HadOnly(p, cs) \cup {y \in left : Ends(p, y)}
           le == [y \in PartyIds |-> IF y \in left /\ PassesOn(p, y) THEN Head(members[y]) ELSE leader[y]]
           me == [y \in PartyIds |-> IF y \in left THEN MembersLeft(p, y) ELSE members[y]]
           id == [y \in PartyIds |-> IF y \in cs THEN invited[y] \ {p} ELSE invited[y]]
           ti == [y \in PartyIds |-> IF y \in left THEN PointsLeft(p, y) ELSE ticks[y]]
<1>1. /\ party' = [q \in Players |-> IF q = p /\ left # {} THEN None ELSE RemainingParty(q, D)]
      /\ invitations' = [q \in Players |->
                           IF q = p THEN invitations[p] \ cs ELSE RemainingInvitations(q, D)]
      /\ leader' = Without(le, D, None) /\ members' = Without(me, D, <<>>)
      /\ invited' = Without(id, D, {}) /\ ticks' = Without(ti, D, {})
      /\ active' = Without(active, D, FALSE)
      /\ enabled' \in [PartyIds -> BOOLEAN]
  BY DEF Go, Without, Inv, TypeOK
<1>2. /\ cs \subseteq PartyIds /\ left \subseteq PartyIds
      /\ \A x \in PartyIds : x \in left => party[p] = x
      /\ left # {} => \A x \in PartyIds : party[p] = x => x \in left
      /\ \A x \in cs : p \in invited[x]
  BY DEF Membership, Inv, TypeOK, InvitationsAgree
<1>3. D \subseteq PartyIds
  BY <1>2 DEF HadOnly
<1>4. ASSUME NEW x \in D
      PROVE  /\ leader'[x] = None /\ members'[x] = <<>> /\ invited'[x] = {} /\ ticks'[x] = {}
             /\ Crew(x)' = {None} /\ (x \in cs \/ p \notin invited[x])
  <2>1. leader'[x] = None /\ members'[x] = <<>> /\ invited'[x] = {} /\ ticks'[x] = {}
    BY <1>1, <1>3 DEF Without
  <2>2. Crew(x)' = {None}
    BY <2>1, NoMembers DEF Crew
  <2>3. x \in cs \/ p \notin invited[x]
    <3>1. CASE x \in cs
      BY <3>1
    <3>2. CASE x \notin cs
      <4>1. p \in Crew(x)
        BY <1>2, <1>3, <3>2, Agreed DEF HadOnly
      <4> QED BY <1>3, <4>1, Agreed
    <3> QED BY <3>1, <3>2
  <2> QED BY <2>1, <2>2, <2>3
<1>5. ASSUME NEW x \in PartyIds \ D, x \in left
      PROVE  /\ members'[x] \in Seq(Players) /\ IsInjective(members'[x])
             /\ leader'[x] \in Players /\ leader'[x] \notin Range(members'[x])
             /\ Crew(x)' = Crew(x) \ {p} /\ invited'[x] = invited[x] /\ p \notin invited[x]
             /\ ticks'[x] = ticks[x] \ {p}
             /\ members'[x] # <<>> \/ invited'[x] # {}
  <2>1. party[p] = x /\ ~Ends(p, x) /\ p \in Crew(x) /\ p \notin invited[x] /\ x \notin cs
    BY <1>2, <1>5, Agreed
  <2>2. /\ leader'[x] = IF PassesOn(p, x) THEN Head(members[x]) ELSE leader[x]
        /\ members'[x] = MembersLeft(p, x) /\ invited'[x] = invited[x]
        /\ ticks'[x] = ticks[x] \ {p}
    BY <1>1, <1>5, <2>1 DEF Without, PointsLeft
  <2> HIDE DEF D
  <2>3. /\ MembersLeft(p, x) \in Seq(Players) /\ IsInjective(MembersLeft(p, x))
        /\ leader'[x] \in Players \ {p} /\ leader'[x] \notin Range(MembersLeft(p, x))
        /\ {leader'[x]} \cup Range(MembersLeft(p, x)) = Crew(x) \ {p}
        /\ MembersLeft(p, x) # <<>> \/ invited[x] # {}
    BY <2>1, <2>2, LeftParty
  <2> QED BY <2>1, <2>2, <2>3 DEF Crew
<1>6. ASSUME NEW x \in PartyIds \ D, x \notin left
      PROVE  /\ members'[x] = members[x] /\ leader'[x] = leader[x] /\ Crew(x)' = Crew(x)
             /\ ticks'[x] = ticks[x]
             /\ x \in cs => invited'[x] = invited[x] \ {p}
             /\ x \notin cs => invited'[x] = invited[x]
             /\ (members[x] # <<>> \/ invited[x] # {}) => members'[x] # <<>> \/ invited'[x] # {}
  <2>1. members'[x] = members[x] /\ leader'[x] = leader[x] /\ ticks'[x] = ticks[x]
    BY <1>1, <1>6 DEF Without
  <2>2. invited'[x] = IF x \in cs THEN invited[x] \ {p} ELSE invited[x]
    BY <1>1, <1>6 DEF Without
  <2>3. Crew(x)' = Crew(x)
    BY <2>1 DEF Crew
  <2>4. CASE x \in cs
    <3>1. invited[x] # {p} \/ members[x] # <<>>
      BY <1>6, <2>4 DEF HadOnly
    <3>2. p \in invited[x] /\ invited'[x] = invited[x] \ {p}
      BY <1>2, <2>2, <2>4
    <3> QED BY <2>1, <2>3, <2>4, <3>1, <3>2
  <2>5. CASE x \notin cs
    BY <2>1, <2>2, <2>3, <2>5
  <2> QED BY <2>4, <2>5
<1>7. /\ \A q \in Players : party'[q] = IF q = p /\ left # {} THEN None
                                         ELSE IF \E x \in D : q \in Crew(x) THEN None ELSE party[q]
      /\ invitations'[p] = invitations[p] \ cs
      /\ \A q \in Players \ {p} : invitations'[q] = invitations[q] \ {x \in D : q \in invited[x]}
  BY <1>1 DEF RemainingParty, RemainingInvitations
<1> HIDE DEF D, le, me, id, ti
<1>8. TypeOK'
  <2>1. online' \subseteq Players
    BY Agreed
  <2>2. party' \in [Players -> PartyIds \cup {None}]
    BY <1>1, <1>7, Agreed
  <2>3. invitations' \in [Players -> SUBSET PartyIds]
    <3>1. \A q \in Players : invitations'[q] \subseteq invitations[q]
      BY <1>7
    <3>2. \A q \in Players : invitations[q] \subseteq PartyIds
      BY DEF Inv, TypeOK
    <3> QED BY <1>1, <3>1, <3>2
  <2>4. /\ leader' = [x \in PartyIds |-> leader'[x]] /\ members' = [x \in PartyIds |-> members'[x]]
        /\ invited' = [x \in PartyIds |-> invited'[x]] /\ ticks' = [x \in PartyIds |-> ticks'[x]]
    BY <1>1 DEF Without
  <2>5. ASSUME NEW x \in PartyIds
        PROVE  /\ leader'[x] \in Players \cup {None} /\ members'[x] \in Seq(Players)
               /\ invited'[x] \subseteq Players
               /\ ticks'[x] \subseteq Crew(x)' /\ ticks'[x] \subseteq Players
    <3>1. CASE x \in D
      BY <1>4, <3>1, NoMembers
    <3>2. CASE x \in left /\ x \notin D
      BY <1>5, <3>2, Agreed
    <3>3. CASE x \notin left /\ x \notin D
      <4>1. invited'[x] \subseteq invited[x]
        BY <1>6, <3>3
      <4> QED BY <1>6, <3>3, <4>1, Agreed
    <3> QED BY <3>1, <3>2, <3>3
  <2>6. active' \in [PartyIds -> BOOLEAN]
    BY <1>1 DEF Without, Inv, TypeOK
  <2> QED BY <1>1, <2>1, <2>2, <2>3, <2>4, <2>5, <2>6 DEF TypeOK
<1>9. MembershipAgrees'
  <2>1. ASSUME NEW q \in Players, NEW x \in PartyIds
        PROVE  party'[q] = x <=> q \in Crew(x)'
    <3>1. /\ party[q] \in PartyIds \cup {None} /\ None \notin Players \cup PartyIds
          /\ \A y \in PartyIds : party[q] = y <=> q \in Crew(y)
      BY Agreed, PartyAssumption
    <3>2. CASE x \in D
      BY <1>4, <1>7, <3>1, <3>2
    <3>3. CASE x \in left /\ x \notin D
      BY <1>2, <1>3, <1>5, <1>7, <3>1, <3>3
    <3>4. CASE x \notin left /\ x \notin D
      <4>1. Crew(x)' = Crew(x)
        BY <1>6, <3>4
      <4>2. party[p] = x => left = {}
        BY <1>2, <3>4
      <4>3. \A y \in D : q \in Crew(y) => party[q] = y
        BY <1>3, <3>1
      <4> QED BY <1>3, <1>7, <3>1, <3>4, <4>1, <4>2, <4>3
    <3> QED BY <3>2, <3>3, <3>4
  <2> QED BY <2>1 DEF MembershipAgrees
<1>10. InvitationsAgree'
  <2>1. ASSUME NEW q \in Players, NEW x \in PartyIds
        PROVE  x \in invitations'[q] <=> q \in invited'[x]
    <3>1. x \in invitations[q] <=> q \in invited[x]
      BY DEF Inv, InvitationsAgree
    <3>2. CASE x \in D
      BY <1>4, <1>7, <3>1, <3>2
    <3>3. CASE x \in left /\ x \notin D
      BY <1>2, <1>5, <1>7, <3>1, <3>3
    <3>4. CASE x \notin left /\ x \notin D
      <4>1. q = p => (x \in invitations'[q] <=> x \in invitations[q] /\ x \notin cs)
        BY <1>7
      <4>2. q # p => (x \in invitations'[q] <=> x \in invitations[q])
        BY <1>7, <3>4
      <4>3. CASE x \in cs
        BY <1>6, <3>1, <3>4, <4>1, <4>2, <4>3
      <4>4. CASE x \notin cs
        BY <1>6, <3>1, <3>4, <4>1, <4>2, <4>4
      <4> QED BY <4>3, <4>4
    <3> QED BY <3>2, <3>3, <3>4
  <2> QED BY <2>1 DEF InvitationsAgree
<1>11. NotInvitedInside'
  <2>1. ASSUME NEW x \in PartyIds PROVE invited'[x] \cap Crew(x)' = {}
    <3>1. invited[x] \cap Crew(x) = {}
      BY Agreed
    <3>2. CASE x \in D
      BY <1>4, <3>2
    <3>3. CASE x \in left /\ x \notin D
      BY <1>5, <3>1, <3>3
    <3>4. CASE x \notin left /\ x \notin D
      <4>1. Crew(x)' = Crew(x) /\ invited'[x] \subseteq invited[x]
        BY <1>6, <3>4
      <4> QED BY <3>1, <4>1
    <3> QED BY <3>2, <3>3, <3>4
  <2> QED BY <2>1 DEF NotInvitedInside
<1>12. NoDeadPlayers'
  <2>1. ASSUME NEW x \in PartyIds
        PROVE  /\ Range(members'[x]) \cup invited'[x] \subseteq online'
               /\ \/ leader'[x] \in online'
                  \/ leader'[x] = None /\ members'[x] = <<>> /\ invited'[x] = {}
    <3>1. /\ Range(members[x]) \cup invited[x] \subseteq online
          /\ Crew(x) \subseteq online \cup {None} /\ None \notin Players
      BY PartyAssumption DEF Inv, NoDeadPlayers, Crew
    <3>2. CASE x \in D
      BY <1>4, <3>2, NoMembers
    <3>3. CASE x \in left /\ x \notin D
      <4>1. Crew(x)' \subseteq online' \cup {None}
        BY <1>5, <3>1, <3>3
      <4>2. Range(members'[x]) \subseteq Players
        BY <1>5, <3>3, RangeOf
      <4> QED BY <1>5, <3>1, <3>3, <4>1, <4>2 DEF Crew
    <3>4. CASE x \notin left /\ x \notin D
      <4>1. \/ online' = online
            \/ online' = online \ {p} /\ p \notin Crew(x) /\ (p \in invited[x] => x \in cs)
        <5>1. CASE online' = online \ {p} /\ cs = invitations[p] /\ left = Membership(p)
          <6>1. p \in Crew(x) => x \in left
            BY <5>1, Agreed DEF Membership
          <6>2. p \in invited[x] => x \in cs
            BY <5>1 DEF Inv, InvitationsAgree
          <6> QED BY <3>4, <5>1, <6>1, <6>2
        <5> QED BY <5>1
      <4>2. leader[x] \in online \/ (leader[x] = None /\ members[x] = <<>> /\ invited[x] = {})
        BY DEF Inv, NoDeadPlayers
      <4> QED BY <1>6, <3>1, <3>4, <4>1, <4>2 DEF Crew
    <3> QED BY <3>2, <3>3, <3>4
  <2> QED BY <2>1 DEF NoDeadPlayers
<1>13. Ranks'
  <2>1. ASSUME NEW x \in PartyIds
        PROVE  IsInjective(members'[x]) /\ leader'[x] \notin Range(members'[x])
    BY <1>4, <1>5, <1>6, NoMembers, Agreed
  <2> QED BY <2>1 DEF Ranks
<1>14. NoLonelyParty'
  <2>1. ASSUME NEW x \in PartyIds, leader'[x] # None
        PROVE  members'[x] # <<>> \/ invited'[x] # {}
    <3>1. CASE x \in D
      BY <1>4, <2>1, <3>1
    <3>2. CASE x \in left /\ x \notin D
      BY <1>5, <3>2
    <3>3. CASE x \notin left /\ x \notin D
      <4>1. members[x] # <<>> \/ invited[x] # {}
        BY <1>6, <2>1, <3>3 DEF Inv, NoLonelyParty
      <4> QED BY <1>6, <3>3, <4>1
    <3> QED BY <3>1, <3>2, <3>3
  <2> QED BY <2>1 DEF NoLonelyParty
<1> QED BY <1>8, <1>9, <1>10, <1>11, <1>12, <1>13, <1>14 DEF Inv

LEMMA LeaveStep == ASSUME Inv, NEW p \in Players, Leave(p) PROVE Inv'
<1>1. Go(p, {}, Membership(p)) /\ online' = online
  BY DEF Leave
<1> QED BY <1>1, GoStep

LEMMA RevokeStep ==
  ASSUME Inv, NEW l \in Players, NEW q \in Players, Revoke(l, q)
  PROVE  Inv'
<1>1. PICK x \in PartyIds : q \in invited[x] /\ Go(q, {x}, {})
  BY DEF Revoke
<1>2. {x} \in SUBSET invitations[q]
  BY <1>1 DEF Inv, InvitationsAgree
<1>3. online' = online
  BY DEF Revoke
<1> QED BY <1>1, <1>2, <1>3, GoStep

LEMMA LogOutStep == ASSUME Inv, NEW p \in Players, LogOut(p) PROVE Inv'
<1>1. Go(p, invitations[p], Membership(p)) /\ online' = online \ {p}
  BY DEF LogOut
<1> QED BY <1>1, GoStep

LEMMA NextInv == Inv /\ [Next]_vars => Inv'
<1> SUFFICES ASSUME Inv, [Next]_vars PROVE Inv'
  OBVIOUS
<1>1. CASE UNCHANGED vars
  <2>1. \A x \in PartyIds : Crew(x)' = Crew(x)
    BY <1>1 DEF vars, lists, Crew
  <2> QED BY <1>1, <2>1 DEF vars, lists, shared, Inv, TypeOK, MembershipAgrees,
               InvitationsAgree, NotInvitedInside, NoDeadPlayers, Ranks, NoLonelyParty
<1>2. ASSUME NEW p \in Players, LogIn(p) PROVE Inv'
  BY <1>2, LogInStep
<1>3. ASSUME NEW p \in Players, Leave(p) PROVE Inv'
  BY <1>3, LeaveStep
<1>4. ASSUME NEW p \in Players, LogOut(p) PROVE Inv'
  BY <1>4, LogOutStep
<1>5. ASSUME NEW p \in Players, Fight(p) \/ Idle(p) \/ Update(p) PROVE Inv'
  BY <1>5, TicksStep
<1>6. ASSUME NEW p \in Players, NEW q \in Players, InviteToNewParty(p, q) PROVE Inv'
  BY <1>6, NewPartyStep
<1>7. ASSUME NEW p \in Players, NEW q \in Players, Invite(p, q) PROVE Inv'
  BY <1>7, InviteStep
<1>8. ASSUME NEW p \in Players, NEW q \in Players, Join(q, p) PROVE Inv'
  BY <1>8, JoinStep
<1>9. ASSUME NEW p \in Players, NEW q \in Players, Revoke(p, q) PROVE Inv'
  BY <1>9, RevokeStep
<1>10. ASSUME NEW p \in Players, NEW q \in Players, Pass(p, q) PROVE Inv'
  BY <1>10, PassStep
<1>11. ASSUME NEW p \in Players, NEW v \in BOOLEAN, SetShared(p, v) PROVE Inv'
  BY <1>11, SetSharedStep
<1> QED BY <1>1, <1>2, <1>3, <1>4, <1>5, <1>6, <1>7, <1>8, <1>9, <1>10, <1>11 DEF Next

\* A player and a party never disagree about membership or an invitation, and
\* neither points to the other after it is gone, whatever the handlers of
\* party.cpp and the logout do and however many players and parties there are.
THEOREM Agreement == Spec => []Inv
<1> QED BY InitInv, NextInv, PTL DEF Spec

-----------------------------------------------------------------------------
(* Shared experience.                                                      *)

\* updateSharedExperience restores the condition for the party it looks at.
LEMMA UpdateSharing ==
  ASSUME Inv, SharedByActive, NEW x \in PartyIds, NEW ms, NEW l, NEW ts,
         UpdateShared(x, ms, l, ts), active' = active
  PROVE  /\ active'[x] /\ enabled'[x] => CanShare(ms, l, ts)
         /\ \A y \in PartyIds \ {x} : enabled'[y] = enabled[y]
BY DEF UpdateShared, Inv, TypeOK

LEMMA InitSharing == Init => SharedByActive
BY DEF Init, SharedByActive

LEMMA NextSharing == Inv /\ SharedByActive /\ [Next]_vars => SharedByActive'
<1> SUFFICES ASSUME Inv, SharedByActive, [Next]_vars,
                    NEW x \in PartyIds, active'[x], enabled'[x]
             PROVE  CanShare(members'[x], leader'[x], ticks'[x])
  BY DEF SharedByActive, CanShare
<1>1. active[x] /\ enabled[x] => CanShare(members[x], leader[x], ticks[x])
  BY DEF SharedByActive
<1>2. CASE UNCHANGED vars
  BY <1>1, <1>2 DEF vars, lists, shared
<1>3. ASSUME NEW p \in Players, LogIn(p)
      PROVE  CanShare(members'[x], leader'[x], ticks'[x])
  BY <1>1, <1>3 DEF LogIn, lists, shared
<1>4. ASSUME NEW p \in Players, NEW cs, NEW left, Go(p, cs, left)
      PROVE  CanShare(members'[x], leader'[x], ticks'[x])
  <2> DEFINE D == HadOnly(p, cs) \cup {y \in left : Ends(p, y)}
             le == [y \in PartyIds |-> IF y \in left /\ PassesOn(p, y) THEN Head(members[y]) ELSE leader[y]]
             me == [y \in PartyIds |-> IF y \in left THEN MembersLeft(p, y) ELSE members[y]]
             ti == [y \in PartyIds |-> IF y \in left THEN PointsLeft(p, y) ELSE ticks[y]]
  <2>1. PICK lb \in BOOLEAN :
          /\ lb => \A y \in left : CanShare(me[y], le[y], ti[y])
          /\ enabled' = Without([y \in PartyIds |-> IF y \in left /\ active[y] THEN lb ELSE enabled[y]],
                                D, FALSE)
    BY <1>4 DEF Go
  <2>2. /\ leader' = Without(le, D, None) /\ members' = Without(me, D, <<>>)
        /\ ticks' = Without(ti, D, {}) /\ active' = Without(active, D, FALSE)
    BY <1>4 DEF Go
  <2> HIDE DEF D
  <2>3. x \notin D /\ active[x]
    BY <2>2 DEF Without
  <2>4. leader'[x] = le[x] /\ members'[x] = me[x] /\ ticks'[x] = ti[x]
    BY <2>2, <2>3 DEF Without
  <2>5. CASE x \in left
    <3>1. lb
      BY <2>1, <2>3, <2>5 DEF Without
    <3> HIDE DEF le, me, ti
    <3> QED BY <2>1, <2>4, <2>5, <3>1
  <2>6. CASE x \notin left
    <3>1. enabled[x]
      BY <2>1, <2>3, <2>6 DEF Without
    <3>2. leader'[x] = leader[x] /\ members'[x] = members[x] /\ ticks'[x] = ticks[x]
      BY <2>4, <2>6
    <3> QED BY <1>1, <2>3, <3>1, <3>2
  <2> QED BY <2>5, <2>6
<1>5. ASSUME NEW p \in Players, Fight(p) \/ Idle(p) \/ Update(p)
      PROVE  CanShare(members'[x], leader'[x], ticks'[x])
  <2>1. PICK y \in PartyIds, ts \in SUBSET Players :
          ticks' = [ticks EXCEPT ![y] = ts] /\ UpdateShared(y, members[y], leader[y], ts)
    BY <1>5 DEF Fight, Idle, Update, SetTicks, Membership, Inv, TypeOK
  <2>2. UNCHANGED <<leader, members, active>>
    BY <1>5 DEF Fight, Idle, Update, lists
  <2> QED BY <1>1, <2>1, <2>2, UpdateSharing DEF Inv, TypeOK
<1>6. ASSUME NEW p \in Players, NEW q \in Players, InviteToNewParty(p, q)
      PROVE  CanShare(members'[x], leader'[x], ticks'[x])
  <2>1. PICK y \in PartyIds : leader[y] = None /\ leader' = [leader EXCEPT ![y] = p]
    BY <1>6 DEF InviteToNewParty
  <2>2. UNCHANGED <<members, shared>>
    BY <1>6 DEF InviteToNewParty
  <2>3. members[y] = <<>>
    BY <2>1, Unallocated
  <2>4. CanShare(members[x], leader[x], ticks[x])
    BY <1>1, <2>2 DEF shared
  <2>5. x # y
    BY <2>3, <2>4 DEF CanShare
  <2> QED BY <2>1, <2>2, <2>4, <2>5 DEF shared, Inv, TypeOK
<1>7. ASSUME NEW p \in Players, NEW q \in Players, Invite(p, q)
      PROVE  CanShare(members'[x], leader'[x], ticks'[x])
  BY <1>1, <1>7 DEF Invite, shared
<1>8. ASSUME NEW p \in Players, NEW q \in Players, Join(q, p)
      PROVE  CanShare(members'[x], leader'[x], ticks'[x])
  <2>1. PICK y \in PartyIds :
          /\ leader[y] = p /\ members' = [members EXCEPT ![y] = Append(@, q)]
          /\ UpdateShared(y, Append(members[y], q), p, ticks[y])
    BY <1>8 DEF Join, MayJoin
  <2>2. UNCHANGED <<leader, ticks, active>>
    BY <1>8 DEF Join
  <2>3. members'[y] = Append(members[y], q) /\ (x # y => members'[x] = members[x])
    BY <2>1 DEF Inv, TypeOK
  <2> QED BY <1>1, <2>1, <2>2, <2>3, UpdateSharing
<1>9. ASSUME NEW l \in Players, NEW p \in Players, Pass(l, p)
      PROVE  CanShare(members'[x], leader'[x], ticks'[x])
  <2> DEFINE MS(y) == <<l>> \o Erase(members[y], p)
  <2>1. PICK y \in PartyIds :
          /\ leader' = [leader EXCEPT ![y] = p] /\ members' = [members EXCEPT ![y] = MS(y)]
          /\ UpdateShared(y, MS(y), p, ticks[y])
    BY <1>9 DEF Pass
  <2> HIDE DEF MS
  <2>2. UNCHANGED <<ticks, active>>
    BY <1>9 DEF Pass
  <2> QED BY <1>1, <2>1, <2>2, UpdateSharing DEF Inv, TypeOK
<1>10. ASSUME NEW p \in Players, NEW v \in BOOLEAN, SetShared(p, v)
       PROVE  CanShare(members'[x], leader'[x], ticks'[x])
  <2>1. PICK y \in PartyIds, lb \in BOOLEAN :
          /\ active' = [active EXCEPT ![y] = v] /\ (lb => CanShare(members[y], leader[y], ticks[y]))
          /\ enabled' = [enabled EXCEPT ![y] = IF v THEN lb ELSE @]
    BY <1>10 DEF SetShared
  <2>2. UNCHANGED <<lists, ticks>>
    BY <1>10 DEF SetShared
  <2> QED BY <1>1, <2>1, <2>2 DEF lists, Inv, TypeOK
<1> QED BY <1>2, <1>3, <1>4, <1>5, <1>6, <1>7, <1>8, <1>9, <1>10
        DEF Next, Leave, Revoke, LogOut

\* Nobody joins, leaves, leads or rests without updateSharedExperience taking
\* back a bonus that a party of one, or of somebody idle, must not have.
THEOREM Sharing == Spec => []SharedByActive
<1> QED BY InitInv, NextInv, InitSharing, NextSharing, PTL DEF Spec

-----------------------------------------------------------------------------
(* Nobody else loses the party.                                            *)

LEMMA GoKeepsCompany ==
  ASSUME Inv, NEW p \in Players, NEW cs, NEW left, Go(p, cs, left),
         NEW x \in PartyIds, Len(members[x]) >= 2
  PROVE  leader'[x] # None
<1> DEFINE D == HadOnly(p, cs) \cup {y \in left : Ends(p, y)}
           le == [y \in PartyIds |-> IF y \in left /\ PassesOn(p, y) THEN Head(members[y]) ELSE leader[y]]
<1>1. members[x] \in Seq(Players) /\ IsInjective(members[x]) /\ members[x] # <<>>
  BY Agreed, RangeOf
<1>2. leader[x] # None
  BY <1>1, Unallocated
<1>3. /\ Head(members[x]) \in Players /\ Tail(members[x]) # <<>> /\ Erase(members[x], p) # <<>>
  <2>1. Tail(members[x]) \in Seq(Players) /\ Len(Tail(members[x])) >= 1
    BY <1>1, FirstMember, RangeOf
  <2>2. Erase(members[x], p) \in Seq(Players) /\ Len(Erase(members[x], p)) >= 1
    BY <1>1, ErasedMember, RangeOf
  <2>3. Tail(members[x]) # <<>>
    <3> DEFINE t == Tail(members[x])
    <3> HIDE DEF t
    <3>1. t \in Seq(Players) /\ Len(t) >= 1
      BY <2>1 DEF t
    <3>2. t # <<>>
      BY <3>1, RangeOf
    <3> QED BY <3>2 DEF t
  <2>4. Erase(members[x], p) # <<>>
    <3>1. Len(<<>>) = 0
      BY EmptySeq
    <3> QED BY <2>2, <3>1
  <2>5. Head(members[x]) \in Players
    BY <1>1, FirstMember
  <2> QED BY <2>3, <2>4, <2>5
<1>4. x \notin D
  <2>1. Len(members[x]) # 1
    OBVIOUS
  <2>2. MembersLeft(p, x) # <<>>
    BY <1>3 DEF MembersLeft
  <2>3. ~(leader[x] = p /\ ~PassesOn(p, x))
    BY <1>1, <2>1 DEF PassesOn
  <2>4. ~Ends(p, x)
    BY <2>2, <2>3 DEF Ends
  <2>5. x \notin HadOnly(p, cs)
    BY <1>1 DEF HadOnly
  <2> QED BY <2>4, <2>5
<1>5. leader' = Without(le, D, None)
  BY DEF Go
<1> QED BY <1>2, <1>3, <1>4, <1>5, PartyAssumption DEF Without

\* leaveParty and removeInvite never delete a party of three or more: those
\* who stay keep their party and have a leader.
THEOREM Company == Spec => CompanyStays
<1>1. Inv /\ [Next]_vars => [\A x \in PartyIds : Len(members[x]) >= 2 => leader'[x] # None]_vars
  <2> SUFFICES ASSUME Inv, Next, NEW x \in PartyIds, Len(members[x]) >= 2
               PROVE  leader'[x] # None
    OBVIOUS
  <2>1. leader[x] # None
    <3>1. Len(<<>>) = 0
      BY EmptySeq
    <3> QED BY <3>1, Unallocated
  <2>2. ASSUME NEW p \in Players, NEW cs, NEW left, Go(p, cs, left)
        PROVE  leader'[x] # None
    BY <2>2, GoKeepsCompany
  <2>3. ASSUME NEW p \in Players,
               LogIn(p) \/ Fight(p) \/ Idle(p) \/ Update(p) \/ \E v \in BOOLEAN : SetShared(p, v)
        PROVE  leader'[x] # None
    BY <2>1, <2>3 DEF LogIn, Fight, Idle, Update, SetShared, lists
  <2>4. ASSUME NEW p \in Players, NEW q \in Players,
               InviteToNewParty(p, q) \/ Invite(p, q) \/ Join(q, p) \/ Pass(p, q)
        PROVE  leader'[x] # None
    <3>1. CASE Invite(p, q) \/ Join(q, p)
      BY <2>1, <3>1 DEF Invite, Join
    <3>2. CASE InviteToNewParty(p, q)
      BY <2>1, <3>2, PartyAssumption DEF InviteToNewParty, Inv, TypeOK
    <3>3. CASE Pass(p, q)
      BY <2>1, <3>3, PartyAssumption DEF Pass, Inv, TypeOK
    <3> QED BY <2>4, <3>1, <3>2, <3>3
  <2> QED BY <2>2, <2>3, <2>4 DEF Next, Leave, Revoke, LogOut
<1> QED BY <1>1, InitInv, NextInv, PTL DEF Spec, CompanyStays

-----------------------------------------------------------------------------
\* Induction over the natural numbers, with a set in place of a predicate.
LEMMA AllNumbers ==
  ASSUME NEW S, 0 \in S, \A n \in Nat : n \in S => n + 1 \in S PROVE Nat \subseteq S
<1> DEFINE Less == {ss \in Nat \X Nat : ss[1] < ss[2]}
<1>1. IsWellFoundedOn(Less, Nat)
  BY NatLessThanWellFounded DEF OpToRel
<1> SUFFICES ASSUME Nat \ S # {} PROVE FALSE
  OBVIOUS
<1>2. PICK k \in Nat \ S : \A j \in Nat \ S : ~(<<j, k>> \in Less)
  <2> HIDE DEF Less
  <2> QED BY <1>1, WFMin
<1>3. \A j \in Nat \ S : ~(j < k)
  BY <1>2
<1>4. k # 0 /\ k - 1 \in Nat /\ k - 1 < k /\ (k - 1) + 1 = k
  BY <1>2
<1>5. k - 1 \in S
  BY <1>3, <1>4
<1>6. k \in S
  BY <1>4, <1>5
<1> QED BY <1>2, <1>6

-----------------------------------------------------------------------------
(* The chat (Chat). ChatInv is inductive.                                  *)

LEMMA ChatInitInv ==
  ASSUME C!ChatAssumption, C!Init PROVE C!ChatInv
<1>1. /\ u1 = {} /\ u2 = {} /\ u4 = {} /\ u3 = [p \in Talkers |-> None]
      /\ u5 = [c \in Slots |-> None] /\ u6 = [c \in Slots |-> {}]
      /\ u7 = [c \in C!Channels |-> {}] /\ u8 = [p \in Talkers |-> {}]
  BY DEF C!Init
<1>2. C!ChatTypeOK
  BY <1>1 DEF C!ChatTypeOK
<1>3. C!NobodyGone /\ C!PrivateIsPrivate
  BY <1>1 DEF C!NobodyGone, C!PrivateIsPrivate, C!Channels
<1>4. C!WindowsServed
  BY <1>1 DEF C!WindowsServed
<1> QED BY <1>2, <1>3, <1>4 DEF C!ChatInv

LEMMA ChatStepInv ==
  ASSUME C!ChatAssumption, C!ChatInv, [C!Next]_(C!vars) PROVE C!ChatInv'
<1> USE DEF C!ChatInv, C!ChatAssumption
<1>1. ASSUME NEW p \in Talkers, C!LogIn(p) PROVE C!ChatInv'
  BY <1>1 DEF C!LogIn, C!ChatTypeOK, C!NobodyGone, C!PrivateIsPrivate, C!WindowsServed
<1>2. ASSUME NEW p \in Talkers, C!Disconnect(p) PROVE C!ChatInv'
  BY <1>2 DEF C!Disconnect, C!ChatTypeOK, C!NobodyGone, C!PrivateIsPrivate, C!WindowsServed
<1>3. ASSUME NEW p \in Talkers, C!Connect(p) PROVE C!ChatInv'
  BY <1>3 DEF C!Connect, C!ChatTypeOK, C!NobodyGone, C!PrivateIsPrivate, C!WindowsServed,
     C!RemoveUserFromAllChannels, C!RemovedEverywhere, C!Closing, C!Owned, C!Channels
<1>4. ASSUME NEW p \in Talkers, C!LogOut(p) PROVE C!ChatInv'
  BY <1>4 DEF C!LogOut, C!ChatTypeOK, C!NobodyGone, C!PrivateIsPrivate, C!WindowsServed,
     C!RemoveUserFromAllChannels, C!RemovedEverywhere, C!Closing, C!Owned, C!Channels, C!Crew
<1>5. ASSUME NEW p \in Talkers, C!RequestChannels(p) PROVE C!ChatInv'
  BY <1>5 DEF C!RequestChannels, C!ChatTypeOK, C!NobodyGone, C!PrivateIsPrivate, C!WindowsServed
<1>6. ASSUME NEW p \in Talkers, C!CreatePrivate(p) PROVE C!ChatInv'
  BY <1>6 DEF C!CreatePrivate, C!ChatTypeOK, C!NobodyGone, C!PrivateIsPrivate, C!WindowsServed,
     C!Owned, C!Show, C!Channels
<1>7. ASSUME NEW p \in Talkers, NEW c \in C!Channels, C!Open(p, c) PROVE C!ChatInv'
  BY <1>7 DEF C!Open, C!ChatTypeOK, C!NobodyGone, C!PrivateIsPrivate, C!WindowsServed,
     C!MayUse, C!Show, C!Channels
<1>8. ASSUME NEW p \in Talkers, NEW c \in C!Channels, C!Close(p, c) PROVE C!ChatInv'
  BY <1>8 DEF C!Close, C!ChatTypeOK, C!NobodyGone, C!PrivateIsPrivate, C!WindowsServed,
     C!MayUse, C!Owned, C!Channels
<1>9. ASSUME NEW p \in Talkers, NEW q \in Talkers, C!Invite(p, q) PROVE C!ChatInv'
  BY <1>9 DEF C!Invite, C!ChatTypeOK, C!NobodyGone, C!PrivateIsPrivate, C!WindowsServed, C!Owned
<1>10. ASSUME NEW p \in Talkers, NEW q \in Talkers, C!Exclude(p, q) PROVE C!ChatInv'
  BY <1>10 DEF C!Exclude, C!ChatTypeOK, C!NobodyGone, C!PrivateIsPrivate, C!WindowsServed, C!Owned,
     C!Channels
<1>11. ASSUME NEW p \in Talkers, NEW x \in Addresses, C!JoinParty(p, x) PROVE C!ChatInv'
  BY <1>11 DEF C!JoinParty, C!ChatTypeOK, C!NobodyGone, C!PrivateIsPrivate, C!WindowsServed
<1>12. ASSUME NEW P \in SUBSET Talkers, NEW x \in Addresses, C!LeaveParty(P, x) PROVE C!ChatInv'
  BY <1>12 DEF C!LeaveParty, C!Crew, C!ChatTypeOK, C!NobodyGone, C!PrivateIsPrivate, C!WindowsServed
<1>13. CASE UNCHANGED C!vars
  BY <1>13 DEF C!vars, C!ChatTypeOK, C!NobodyGone, C!PrivateIsPrivate, C!WindowsServed
<1> HIDE DEF C!ChatInv, C!ChatAssumption
<1>14. CASE C!Next
  <2>1. \/ \E p \in Talkers : C!LogIn(p) \/ C!Disconnect(p) \/ C!Connect(p) \/ C!LogOut(p)
                              \/ C!RequestChannels(p) \/ C!CreatePrivate(p)
        \/ \E p \in Talkers, c \in C!Channels : C!Open(p, c) \/ C!Close(p, c)
        \/ \E p \in Talkers, q \in Talkers : C!Invite(p, q) \/ C!Exclude(p, q)
        \/ \E p \in Talkers, x \in Addresses : C!JoinParty(p, x)
        \/ \E P \in SUBSET Talkers, x \in Addresses : C!LeaveParty(P, x)
    BY <1>14 DEF C!Next
  <2> QED BY <2>1, <1>1, <1>2, <1>3, <1>4, <1>5, <1>6, <1>7, <1>8, <1>9, <1>10, <1>11, <1>12
<1> QED BY <1>13, <1>14
-----------------------------------------------------------------------------
(* What a thing lies in (Above of Trade). The recursive function of its    *)
(* definition exists; what it collects is the smallest set that has the    *)
(* container of i and, with a thing, the container of that.  Longer chains *)
(* than there are things repeat themselves, so that nothing is missed.     *)

UpStep(in, x) == IF x = None THEN None ELSE in[x]
Ups(in, i, up) == up = [n \in Nat |-> IF n = 0 THEN i ELSE UpStep(in, up[n - 1])]
UpsTo(in, i, n, g) == g = [k \in 0 .. n |-> IF k = 0 THEN i ELSE UpStep(in, g[k - 1])]

LEMMA UpsToIs ==
  ASSUME NEW in, NEW i, NEW n \in Nat, NEW g, UpsTo(in, i, n, g)
  PROVE  g[0] = i /\ \A k \in 1 .. n : g[k] = UpStep(in, g[k - 1])
<1> DEFINE F(k) == IF k = 0 THEN i ELSE UpStep(in, g[k - 1])
<1>1. g = [k \in 0 .. n |-> F(k)]
  BY DEF UpsTo
<1> HIDE DEF F
<1>2. \A k \in 0 .. n : g[k] = F(k)
  BY <1>1
<1>3. \A k \in 1 .. n : k \in 0 .. n /\ k # 0
  OBVIOUS
<1> QED BY <1>2, <1>3 DEF F

LEMMA UpsToNext ==
  ASSUME NEW in, NEW i, NEW n \in Nat, NEW g, UpsTo(in, i, n, g), NEW k \in Nat, k + 1 <= n
  PROVE  g[k + 1] = UpStep(in, g[k])
<1> DEFINE j == k + 1
<1>1. j \in 1 .. n /\ j - 1 = k
  OBVIOUS
<1>2. \A x \in 1 .. n : g[x] = UpStep(in, g[x - 1])
  BY UpsToIs
<1> HIDE DEF j
<1>3. g[j] = UpStep(in, g[k])
  BY <1>1, <1>2
<1> QED BY <1>3 DEF j

LEMMA UpsExist ==
  ASSUME NEW in, NEW i PROVE \E up : Ups(in, i, up)
<1> DEFINE S == {n \in Nat : \E g : UpsTo(in, i, n, g)}
           A == {k \in Nat : \A n, m \in Nat : \A g, h :
                  k <= n /\ k <= m /\ UpsTo(in, i, n, g) /\ UpsTo(in, i, m, h) => g[k] = h[k]}
<1>1. 0 \in S
  <2> DEFINE g == [k \in 0 .. 0 |-> i]
  <2>1. g = [k \in 0 .. 0 |-> IF k = 0 THEN i ELSE UpStep(in, g[k - 1])]
    <3>1. \A k \in 0 .. 0 : k = 0
      OBVIOUS
    <3> QED BY <3>1
  <2> QED BY <2>1 DEF UpsTo
<1>2. ASSUME NEW n \in Nat, n \in S PROVE n + 1 \in S
  <2>1. PICK g : UpsTo(in, i, n, g)
    BY <1>2
  <2> DEFINE h == [k \in 0 .. (n + 1) |-> IF k = n + 1 THEN UpStep(in, g[n]) ELSE g[k]]
  <2>2. \A k \in 0 .. n : h[k] = g[k]
    OBVIOUS
  <2>3. h[n + 1] = UpStep(in, g[n])
    OBVIOUS
  <2>4. \A k \in 0 .. (n + 1) : h[k] = IF k = 0 THEN i ELSE UpStep(in, h[k - 1])
    <3> HIDE DEF h
    <3> TAKE k \in 0 .. (n + 1)
    <3>1. CASE k = 0
      BY <2>1, <2>2, <3>1, UpsToIs
    <3>2. CASE k = n + 1
      <4>1. k - 1 = n /\ n \in 0 .. n /\ k # 0
        BY <3>2
      <4> QED BY <2>2, <2>3, <3>2, <4>1
    <3>3. CASE k # 0 /\ k # n + 1
      <4>1. k \in 1 .. n /\ k \in 0 .. n /\ k - 1 \in 0 .. n
        BY <3>3
      <4>2. g[k] = UpStep(in, g[k - 1])
        BY <2>1, <4>1, UpsToIs
      <4> QED BY <2>2, <3>3, <4>1, <4>2
    <3> QED BY <3>1, <3>2, <3>3
  <2>5. h = [k \in 0 .. (n + 1) |-> h[k]]
    OBVIOUS
  <2> HIDE DEF h
  <2>6. UpsTo(in, i, n + 1, h)
    <3>1. [k \in 0 .. (n + 1) |-> h[k]] = [k \in 0 .. (n + 1) |-> IF k = 0 THEN i ELSE UpStep(in, h[k - 1])]
      BY <2>4
    <3> QED BY <2>5, <3>1 DEF UpsTo
  <2> QED BY <2>6
<1>3. 0 \in A
  <2> SUFFICES ASSUME NEW n \in Nat, NEW m \in Nat, NEW g, NEW h,
                      UpsTo(in, i, n, g), UpsTo(in, i, m, h)
               PROVE  g[0] = h[0]
    OBVIOUS
  <2>1. \A z1 \in Nat : \A z2 : UpsTo(in, i, z1, z2) => z2[0] = i
    BY UpsToIs
  <2> QED BY <2>1
<1>4. ASSUME NEW k \in Nat, k \in A PROVE k + 1 \in A
  <2> SUFFICES ASSUME NEW n \in Nat, NEW m \in Nat, NEW g, NEW h, k + 1 <= n, k + 1 <= m,
                      UpsTo(in, i, n, g), UpsTo(in, i, m, h)
               PROVE  g[k + 1] = h[k + 1]
    OBVIOUS
  <2>1. k <= n /\ k <= m /\ k + 1 \in 1 .. n /\ k + 1 \in 1 .. m /\ (k + 1) - 1 = k
    OBVIOUS
  <2>2. g[k] = h[k]
    BY <1>4, <2>1
  <2>3. g[k + 1] = UpStep(in, g[k])
    BY UpsToNext
  <2>4. h[k + 1] = UpStep(in, h[k])
    BY UpsToNext
  <2> QED BY <2>2, <2>3, <2>4
<1> HIDE DEF S, A
<1>5. Nat \subseteq S
  BY <1>1, <1>2, AllNumbers
<1>6. Nat \subseteq A
  BY <1>3, <1>4, AllNumbers
<1> DEFINE G(n) == CHOOSE g : UpsTo(in, i, n, g)
           f == [n \in Nat |-> G(n)[n]]
<1>7. \A n \in Nat : UpsTo(in, i, n, G(n))
  BY <1>5 DEF S
<1> HIDE DEF G
<1>8. ASSUME NEW n \in Nat PROVE f[n] = IF n = 0 THEN i ELSE UpStep(in, f[n - 1])
  <2>1. CASE n = 0
    BY <1>7, <2>1, UpsToIs
  <2>2. CASE n # 0
    <3>1. n - 1 \in Nat /\ n - 1 <= n /\ n - 1 <= n - 1 /\ n \in 1 .. n
      BY <2>2
    <3>2. G(n)[n] = UpStep(in, G(n)[n - 1])
      BY <1>7, <3>1, UpsToIs
    <3>3. G(n)[n - 1] = G(n - 1)[n - 1]
      BY <1>6, <1>7, <3>1 DEF A
    <3> QED BY <2>2, <3>1, <3>2, <3>3
  <2> QED BY <2>1, <2>2
<1>9. f = [n \in Nat |-> f[n]]
  OBVIOUS
<1> HIDE DEF f
<1>10. [n \in Nat |-> f[n]] = [n \in Nat |-> IF n = 0 THEN i ELSE UpStep(in, f[n - 1])]
  BY <1>8
<1> QED BY <1>9, <1>10 DEF Ups

LEMMA TradeCardinality ==
  /\ T!IsFiniteSet(Things) <=> IsFiniteSet(Things)
  /\ T!Cardinality(Things) = Cardinality(Things)
BY DEF T!IsFiniteSet, IsFiniteSet, T!Cardinality, Cardinality

\* The chain up from i, and that it repeats itself.
LEMMA ChainIs ==
  ASSUME T!TradeAssumption, NEW in \in [Things -> Things \cup {None}], NEW i \in Things,
         NEW up, Ups(in, i, up)
  PROVE  /\ up[0] = i
         /\ \A n \in Nat : up[n] \in Things \cup {None}
         /\ \A n \in Nat : up[n + 1] = UpStep(in, up[n])
<1> DEFINE F(n) == IF n = 0 THEN i ELSE UpStep(in, up[n - 1])
<1>1. up = [n \in Nat |-> F(n)]
  BY DEF Ups
<1> HIDE DEF F
<1>2. \A n \in Nat : up[n] = F(n)
  BY <1>1
<1>3. up[0] = i
  BY <1>2 DEF F
<1>4. ASSUME NEW n \in Nat PROVE up[n + 1] = UpStep(in, up[n])
  <2>1. n + 1 \in Nat /\ n + 1 # 0 /\ (n + 1) - 1 = n
    OBVIOUS
  <2>2. up[n + 1] = F(n + 1)
    BY <1>2, <2>1
  <2> QED BY <2>1, <2>2 DEF F
<1> DEFINE S == {n \in Nat : up[n] \in Things \cup {None}}
<1>5. 0 \in S
  BY <1>3
<1>6. ASSUME NEW n \in Nat, n \in S PROVE n + 1 \in S
  BY <1>4, <1>6 DEF UpStep
<1> HIDE DEF S
<1>7. Nat \subseteq S
  BY <1>5, <1>6, AllNumbers
<1> QED BY <1>3, <1>4, <1>7 DEF S

LEMMA ChainRepeats ==
  ASSUME T!TradeAssumption, NEW in \in [Things -> Things \cup {None}], NEW i \in Things,
         NEW up, Ups(in, i, up), up[Cardinality(Things) + 1] # None
  PROVE  \E n \in 1 .. Cardinality(Things) : up[Cardinality(Things) + 1] = up[n]
<1> DEFINE N == Cardinality(Things)
<1>0. IsFiniteSet(Things) /\ N \in Nat
  BY TradeCardinality, FS_CardinalityType DEF T!TradeAssumption
<1> HIDE DEF N
<1>1. /\ \A n \in Nat : up[n] \in Things \cup {None}
      /\ \A n \in Nat : up[n + 1] = UpStep(in, up[n])
  BY ChainIs
\* before the end nobody is None
<1> DEFINE B == {d \in Nat : d <= N + 1 => up[(N + 1) - d] # None}
<1>2. 0 \in B
  BY <1>0 DEF N
<1>3. ASSUME NEW d \in Nat, d \in B PROVE d + 1 \in B
  <2> SUFFICES ASSUME d + 1 <= N + 1 PROVE up[(N + 1) - (d + 1)] # None
    OBVIOUS
  <2> DEFINE m == (N + 1) - (d + 1)
  <2>1. m \in Nat /\ m + 1 = (N + 1) - d /\ up[m + 1] # None
    BY <1>0, <1>3
  <2> HIDE DEF m
  <2>2. up[m] # None
    BY <1>1, <2>1 DEF UpStep
  <2> QED BY <2>2 DEF m
<1> HIDE DEF B
<1>4. Nat \subseteq B
  BY <1>2, <1>3, AllNumbers
<1>5. ASSUME NEW n \in 1 .. (N + 1) PROVE up[n] \in Things
  <2> DEFINE d == (N + 1) - n
  <2>1. d \in Nat /\ d <= N + 1 /\ (N + 1) - d = n /\ n \in Nat
    BY <1>0
  <2> HIDE DEF d
  <2>2. up[n] # None
    BY <1>4, <2>1 DEF B
  <2> QED BY <1>1, <2>1, <2>2
<1> DEFINE f == [n \in 1 .. (N + 1) |-> up[n]]
<1>6. f \in [1 .. (N + 1) -> Things]
  BY <1>5
<1>7. IsFiniteSet(1 .. (N + 1)) /\ Cardinality(1 .. (N + 1)) = N + 1
  BY <1>0, FS_Interval
<1>8. \E x, y \in 1 .. (N + 1) : x # y /\ f[x] = f[y]
  <2> HIDE DEF f
  <2>1. Cardinality(Things) < Cardinality(1 .. (N + 1))
    BY <1>0, <1>7 DEF N
  <2> QED BY <1>0, <1>6, <1>7, <2>1, FS_PigeonHole
<1>9. PICK a1 \in 1 .. (N + 1), b1 \in 1 .. (N + 1) : a1 < b1 /\ up[a1] = up[b1]
  <2>1. PICK x \in 1 .. (N + 1), y \in 1 .. (N + 1) : x # y /\ f[x] = f[y]
    BY <1>8
  <2>2. x < y \/ y < x
    BY <1>0, <2>1
  <2> QED BY <2>1, <2>2
<1> HIDE DEF f
<1> DEFINE A == {j \in Nat : up[a1 + j] = up[b1 + j]}
<1>10. 0 \in A
  BY <1>9, <1>0
<1>11. ASSUME NEW j \in Nat, j \in A PROVE j + 1 \in A
  <2> DEFINE x == a1 + j
             y == b1 + j
  <2>1. x \in Nat /\ y \in Nat /\ up[x] = up[y] /\ x + 1 = a1 + (j + 1) /\ y + 1 = b1 + (j + 1)
    BY <1>0, <1>11
  <2> HIDE DEF x, y
  <2>2. up[x + 1] = up[y + 1]
    BY <1>1, <2>1
  <2> QED BY <2>1, <2>2
<1> HIDE DEF A
<1>12. Nat \subseteq A
  BY <1>10, <1>11, AllNumbers
<1> DEFINE j == (N + 1) - b1
<1>13. j \in Nat /\ b1 + j = N + 1 /\ a1 + j \in 1 .. N
  BY <1>0, <1>9
<1> HIDE DEF j
<1>14. up[a1 + j] = up[b1 + j]
  BY <1>12, <1>13 DEF A
<1>15. up[N + 1] = up[a1 + j]
  BY <1>13, <1>14
<1> QED BY <1>13, <1>15 DEF N

\* Above is a set of things that has the container of i and the containers of its things, ...
LEMMA AboveCloses ==
  ASSUME T!TradeAssumption, NEW in \in [Things -> Things \cup {None}], NEW i \in Things
  PROVE  /\ T!Above(in, i) \subseteq Things
         /\ in[i] # None => in[i] \in T!Above(in, i)
         /\ \A x \in T!Above(in, i) : in[x] # None => in[x] \in T!Above(in, i)
         /\ \A A \in SUBSET Things :
              (in[i] # None => in[i] \in A) /\ (\A x \in A : in[x] # None => in[x] \in A)
                => T!Above(in, i) \subseteq A
<1> DEFINE N == Cardinality(Things)
<1>0. IsFiniteSet(Things) /\ N \in Nat /\ N # 0 /\ None \notin Things
  BY TradeCardinality, FS_CardinalityType, FS_EmptySet DEF T!TradeAssumption, T!Offers
<1>1. PICK up : Ups(in, i, up) /\ T!Above(in, i) = {up[n] : n \in 1 .. N} \ {None}
  <2> DEFINE it == CHOOSE f : Ups(in, i, f)
  <2>1. Ups(in, i, it)
    BY UpsExist
  <2>2. T!Above(in, i) = {it[n] : n \in 1 .. N} \ {None}
    BY TradeCardinality DEF T!Above, Ups, UpStep
  <2> QED BY <2>1, <2>2
<1> HIDE DEF N
<1>2. /\ up[0] = i /\ \A n \in Nat : up[n] \in Things \cup {None}
      /\ \A n \in Nat : up[n + 1] = UpStep(in, up[n])
  BY <1>1, ChainIs
<1>3. T!Above(in, i) \subseteq Things
  BY <1>0, <1>1, <1>2
<1>4. up[1] = in[i]
  <2>1. 0 \in Nat /\ 0 + 1 = 1 /\ i # None
    BY <1>0
  <2>2. up[0 + 1] = UpStep(in, up[0])
    BY <1>2
  <2> QED BY <1>2, <2>1, <2>2 DEF UpStep
<1>5. in[i] # None => in[i] \in T!Above(in, i)
  <2>1. 1 \in 1 .. N
    BY <1>0
  <2> QED BY <1>1, <1>4, <2>1
<1>6. ASSUME NEW x \in T!Above(in, i), in[x] # None PROVE in[x] \in T!Above(in, i)
  <2>1. PICK n \in 1 .. N : x = up[n] /\ x # None
    BY <1>1
  <2>2. n \in Nat /\ n + 1 \in Nat /\ up[n + 1] = in[x]
    BY <1>0, <1>2, <2>1 DEF UpStep
  <2>3. CASE n # N
    <3>1. n + 1 \in 1 .. N
      BY <1>0, <2>1, <2>3
    <3> QED BY <1>1, <1>6, <2>2, <3>1
  <2>4. CASE n = N
    <3>1. up[N + 1] # None
      BY <1>6, <2>2, <2>4
    <3>2. PICK m \in 1 .. N : up[N + 1] = up[m]
      BY <1>1, <3>1, ChainRepeats DEF N
    <3> QED BY <1>1, <1>6, <2>2, <2>4, <3>2
  <2> QED BY <2>3, <2>4
<1>7. ASSUME NEW A \in SUBSET Things, in[i] # None => in[i] \in A,
             \A x \in A : in[x] # None => in[x] \in A
      PROVE  T!Above(in, i) \subseteq A
  <2> DEFINE S == {n \in Nat : up[n + 1] \in A \cup {None}}
  <2>1. 0 \in S
    <3>1. 0 + 1 = 1
      OBVIOUS
    <3> QED BY <1>4, <1>7, <3>1
  <2>2. ASSUME NEW n \in Nat, n \in S PROVE n + 1 \in S
    <3> DEFINE m == n + 1
    <3>1. m \in Nat /\ up[m] \in A \cup {None}
      BY <2>2
    <3> HIDE DEF m
    <3>2. up[m + 1] \in A \cup {None}
      BY <1>2, <1>7, <3>1 DEF UpStep
    <3> QED BY <3>1, <3>2 DEF m
  <2> HIDE DEF S
  <2>3. Nat \subseteq S
    BY <2>1, <2>2, AllNumbers
  <2>4. ASSUME NEW n \in 1 .. N PROVE up[n] \in A \cup {None}
    <3> DEFINE m == n - 1
    <3>1. m \in Nat /\ m + 1 = n
      BY <1>0
    <3> HIDE DEF m
    <3> QED BY <2>3, <3>1 DEF S
  <2> QED BY <1>1, <2>4
<1> QED BY <1>3, <1>5, <1>6, <1>7

\* ... and nothing else. What follows is about these sets alone.
Nested == [Things -> Things \cup {None}]
NoCycle(in) == \A x \in Things : x \notin T!Above(in, x)

LEMMA AboveGoesOn ==
  ASSUME T!TradeAssumption, NEW in \in Nested, NEW x \in Things, NEW y \in T!Above(in, x)
  PROVE  y \in Things /\ T!Above(in, y) \subseteq T!Above(in, x)
<1>1. y \in Things /\ T!Above(in, x) \subseteq Things
  BY AboveCloses DEF Nested
<1>2. \A o \in T!Above(in, x) : in[o] # None => in[o] \in T!Above(in, x)
  BY AboveCloses DEF Nested
<1> QED BY <1>1, <1>2, AboveCloses DEF Nested

LEMMA AboveNext ==
  ASSUME T!TradeAssumption, NEW in \in Nested, NEW x \in Things
  PROVE  /\ in[x] = None => T!Above(in, x) = {}
         /\ in[x] # None => T!Above(in, x) = {in[x]} \cup T!Above(in, in[x])
<1>1. CASE in[x] = None
  <2>1. T!Above(in, x) \subseteq {}
    <3> DEFINE A == {}
    <3>1. A \in SUBSET Things /\ (in[x] # None => in[x] \in A) /\ \A y \in A : in[y] # None => in[y] \in A
      BY <1>1
    <3> HIDE DEF A
    <3>2. T!Above(in, x) \subseteq A
      BY <3>1, AboveCloses DEF Nested
    <3> QED BY <3>2 DEF A
  <2> QED BY <1>1, <2>1
<1>2. CASE in[x] # None
  <2> DEFINE c == in[x]
             A == {c} \cup T!Above(in, c)
  <2>1. c \in Things
    BY <1>2 DEF Nested
  <2>2. A \in SUBSET Things /\ c \in A /\ \A y \in A : in[y] # None => in[y] \in A
    BY <2>1, AboveCloses DEF Nested
  <2> HIDE DEF A
  <2>3. T!Above(in, x) \subseteq A
    BY <2>2, AboveCloses DEF Nested
  <2>4. c \in T!Above(in, x)
    BY <1>2, AboveCloses DEF Nested
  <2>5. T!Above(in, c) \subseteq T!Above(in, x)
    BY <2>4, AboveGoesOn
  <2> QED BY <1>2, <2>3, <2>4, <2>5 DEF A
<1> QED BY <1>1, <1>2

\* What is around a thing lies in a line.
LEMMA AboveLine ==
  ASSUME T!TradeAssumption, NEW in \in Nested, NEW x \in Things,
         NEW o \in T!Above(in, x), NEW m \in T!Above(in, x)
  PROVE  o = m \/ o \in T!Above(in, m) \/ m \in T!Above(in, o)
<1> DEFINE A == {y \in T!Above(in, x) : y = m \/ m \in T!Above(in, y) \/ y \in T!Above(in, m)}
<1>1. /\ T!Above(in, x) \subseteq Things
      /\ in[x] # None => in[x] \in T!Above(in, x)
      /\ \A y \in T!Above(in, x) : in[y] # None => in[y] \in T!Above(in, x)
  BY AboveCloses DEF Nested
<1>2. in[x] # None => in[x] \in A
  BY <1>1, AboveNext
<1>3. ASSUME NEW y \in A, in[y] # None PROVE in[y] \in A
  <2>1. y \in Things /\ in[y] \in T!Above(in, x)
    BY <1>1, <1>3
  <2>2. CASE y = m
    BY <1>1, <1>3, <2>1, <2>2, AboveNext
  <2>3. CASE m \in T!Above(in, y)
    BY <1>3, <2>1, <2>3, AboveNext
  <2>4. CASE y \in T!Above(in, m)
    <3>1. in[y] \in T!Above(in, m)
      BY <1>1, <1>3, <2>4, AboveCloses DEF Nested
    <3> QED BY <2>1, <3>1
  <2> QED BY <2>2, <2>3, <2>4
<1>4. A \in SUBSET Things
  BY <1>1
<1>5. T!Above(in, x) \subseteq A
  <2> HIDE DEF A
  <2> QED BY <1>2, <1>3, <1>4, AboveCloses DEF Nested
<1> QED BY <1>5

\* As long as the containers of x and of what it lies in are the same, it lies in the same.
LEMMA AboveSame ==
  ASSUME T!TradeAssumption, NEW in \in Nested, NEW jn \in Nested, NEW x \in Things,
         \A y \in {x} \cup T!Above(in, x) : jn[y] = in[y]
  PROVE  T!Above(jn, x) = T!Above(in, x)
<1>1. T!Above(jn, x) \subseteq T!Above(in, x)
  <2> DEFINE A == T!Above(in, x)
  <2>1. A \in SUBSET Things /\ (in[x] # None => in[x] \in A) /\ \A y \in A : in[y] # None => in[y] \in A
    BY AboveCloses DEF Nested
  <2>2. (jn[x] # None => jn[x] \in A) /\ \A y \in A : jn[y] # None => jn[y] \in A
    BY <2>1
  <2> HIDE DEF A
  <2>3. T!Above(jn, x) \subseteq A
    BY <2>1, <2>2, AboveCloses DEF Nested
  <2> QED BY <2>3 DEF A
<1>2. T!Above(in, x) \subseteq T!Above(jn, x)
  <2> DEFINE A == T!Above(jn, x)
  <2>1. A \in SUBSET Things /\ (jn[x] # None => jn[x] \in A) /\ \A y \in A : jn[y] # None => jn[y] \in A
    BY AboveCloses DEF Nested
  <2>2. (in[x] # None => in[x] \in A) /\ \A y \in A : in[y] # None => in[y] \in A
    BY <1>1, <2>1
  <2> HIDE DEF A
  <2>3. T!Above(in, x) \subseteq A
    BY <2>1, <2>2, AboveCloses DEF Nested
  <2> QED BY <2>3 DEF A
<1> QED BY <1>1, <1>2

\* Things that are taken out lie in less.
LEMMA AboveLess ==
  ASSUME T!TradeAssumption, NEW in \in Nested, NEW jn \in Nested, NEW x \in Things,
         \A y \in Things : jn[y] \in {in[y], None}
  PROVE  T!Above(jn, x) \subseteq T!Above(in, x)
<1> DEFINE A == T!Above(in, x)
<1>1. A \in SUBSET Things /\ (in[x] # None => in[x] \in A) /\ \A y \in A : in[y] # None => in[y] \in A
  BY AboveCloses DEF Nested
<1>2. (jn[x] # None => jn[x] \in A) /\ \A y \in A : jn[y] # None => jn[y] \in A
  BY <1>1
<1> HIDE DEF A
<1>3. T!Above(jn, x) \subseteq A
  BY <1>1, <1>2, AboveCloses DEF Nested
<1> QED BY <1>3 DEF A

\* When m is put into c, what is m or lies in it lies in c and around c too.
LEMMA AbovePut ==
  ASSUME T!TradeAssumption, NEW in \in Nested, NEW m \in Things, NEW c \in Things \cup {None},
         NEW x \in Things
  PROVE  /\ [in EXCEPT ![m] = c] \in Nested
         /\ m \notin {x} \cup T!Above(in, x) => T!Above([in EXCEPT ![m] = c], x) = T!Above(in, x)
         /\ c = None => T!Above([in EXCEPT ![m] = c], x) \subseteq T!Above(in, x)
         /\ c # None => T!Above([in EXCEPT ![m] = c], x)
                          \subseteq T!Above(in, x) \cup {c} \cup T!Above(in, c)
<1> DEFINE jn == [in EXCEPT ![m] = c]
<1>1. jn \in Nested /\ jn[m] = c /\ \A y \in Things : y # m => jn[y] = in[y]
  BY DEF Nested
<1> HIDE DEF jn
<1>2. /\ T!Above(in, x) \subseteq Things /\ (in[x] # None => in[x] \in T!Above(in, x))
      /\ \A y \in T!Above(in, x) : in[y] # None => in[y] \in T!Above(in, x)
  BY AboveCloses DEF Nested
<1>3. m \notin {x} \cup T!Above(in, x) => T!Above(jn, x) = T!Above(in, x)
  BY <1>1, <1>2, AboveSame
<1>4. c = None => T!Above(jn, x) \subseteq T!Above(in, x)
  BY <1>1, AboveLess
<1>5. ASSUME c # None PROVE T!Above(jn, x) \subseteq T!Above(in, x) \cup {c} \cup T!Above(in, c)
  <2> DEFINE A == T!Above(in, x) \cup {c} \cup T!Above(in, c)
  <2>1. /\ T!Above(in, c) \subseteq Things /\ (in[c] # None => in[c] \in T!Above(in, c))
        /\ \A y \in T!Above(in, c) : in[y] # None => in[y] \in T!Above(in, c)
    BY <1>5, AboveCloses DEF Nested
  <2>2. A \in SUBSET Things /\ (jn[x] # None => jn[x] \in A) /\ \A y \in A : jn[y] # None => jn[y] \in A
    BY <1>1, <1>2, <1>5, <2>1
  <2> HIDE DEF A
  <2>3. T!Above(jn, x) \subseteq A
    BY <1>1, <2>2, AboveCloses DEF Nested
  <2> QED BY <2>3 DEF A
<1> QED BY <1>1, <1>3, <1>4, <1>5 DEF jn

\* queryAdd keeps a container from lying in itself.
LEMMA PutKeepsNoCycle ==
  ASSUME T!TradeAssumption, NEW in \in Nested, NEW m \in Things, NEW c \in Things \cup {None},
         NoCycle(in), c # m, c # None => m \notin T!Above(in, c)
  PROVE  NoCycle([in EXCEPT ![m] = c])
<1> SUFFICES ASSUME NEW x \in Things, x \in T!Above([in EXCEPT ![m] = c], x) PROVE FALSE
  BY DEF NoCycle
<1>1. x \notin T!Above(in, x)
  BY DEF NoCycle
<1>2. (m = x \/ m \in T!Above(in, x)) /\ c # None /\ x \in {c} \cup T!Above(in, c)
  BY <1>1, AbovePut
<1>3. m \in T!Above(in, x) => x # c
  BY <1>2
<1>4. x \in T!Above(in, c) => T!Above(in, x) \subseteq T!Above(in, c)
  BY <1>2, AboveGoesOn
<1> QED BY <1>2, <1>3, <1>4

\* The outermost container.
LEMMA TopIs ==
  ASSUME T!TradeAssumption, NEW in \in Nested, NEW i \in Things, NoCycle(in)
  PROVE  \E t \in {i} \cup T!Above(in, i) : in[t] = None
<1> DEFINE S == {Cardinality(T!Above(in, t)) : t \in {i} \cup T!Above(in, i)}
           Less == {ss \in Nat \X Nat : ss[1] < ss[2]}
<1>0. \A t \in {i} \cup T!Above(in, i) : t \in Things
  BY AboveCloses DEF Nested
<1>1. \A t \in Things : IsFiniteSet(T!Above(in, t)) /\ Cardinality(T!Above(in, t)) \in Nat
  BY TradeCardinality, AboveCloses, FS_Subset, FS_CardinalityType DEF Nested, T!TradeAssumption
<1>2. S \subseteq Nat /\ S # {}
  BY <1>0, <1>1
<1>3. PICK k \in S : \A j \in S : ~(<<j, k>> \in Less)
  <2>1. IsWellFoundedOn(Less, Nat)
    BY NatLessThanWellFounded DEF OpToRel
  <2> HIDE DEF Less, S
  <2> QED BY <1>2, <2>1, WFMin
<1>4. PICK t \in {i} \cup T!Above(in, i) : k = Cardinality(T!Above(in, t))
  BY <1>3
<1>5. CASE in[t] # None
  <2>1. t \in Things /\ in[t] \in Things
    BY <1>0, <1>5 DEF Nested
  <2>2. T!Above(in, t) = {in[t]} \cup T!Above(in, in[t]) /\ in[t] \notin T!Above(in, in[t])
    BY <1>5, <2>1, AboveNext DEF NoCycle
  <2>3. Cardinality(T!Above(in, t)) = Cardinality(T!Above(in, in[t])) + 1
    <3> DEFINE A == T!Above(in, in[t])
    <3>1. IsFiniteSet(A) /\ in[t] \notin A /\ T!Above(in, t) = A \cup {in[t]}
      BY <1>1, <2>1, <2>2
    <3> HIDE DEF A
    <3>2. Cardinality(A \cup {in[t]}) = Cardinality(A) + 1
      BY <3>1, FS_AddElement
    <3> QED BY <3>1, <3>2 DEF A
  <2>4. in[t] \in T!Above(in, i)
    BY <1>5, AboveCloses DEF Nested
  <2>5. Cardinality(T!Above(in, in[t])) \in S
    BY <2>4
  <2>6. Cardinality(T!Above(in, in[t])) \in Nat /\ k = Cardinality(T!Above(in, in[t])) + 1
    BY <1>1, <1>4, <2>1, <2>3
  <2>7. <<Cardinality(T!Above(in, in[t])), k>> \in Less
    BY <2>6
  <2> HIDE DEF Less, S
  <2> QED BY <1>3, <2>5, <2>7
<1> QED BY <1>4, <1>5

-----------------------------------------------------------------------------
(* A trade (Trade). Inv of Trade is not inductive by itself: that nobody   *)
(* in a trade starts another needs that whose state says so is idle.       *)

Deal == [state : {"NONE", "INITIATED", "ACKNOWLEDGE", "ACCEPT"},
         partner : Traders \cup {None}, item : T!Offers \cup {None}]

\* What the traders, the map of offers, the counters and the documents say.
Sides ==
  /\ trade \in [Traders -> Deal] /\ tradeItems \subseteq T!Offers /\ transfer \subseteq Houses
  /\ refs \in [T!Offers -> Nat]
  /\ T!PartnersAgree /\ T!StatesAgree /\ T!DocumentsAgree /\ T!OffersAgree
  /\ \A p \in Traders : trade[p].partner # p /\ (trade[p].state = "NONE" => trade[p] = T!Idle)

\* The trades of S end, and nobody out of a trade leaves the game.
LEMMA EndSides ==
  ASSUME T!TradeAssumption, Sides, NEW S \in SUBSET Traders,
         \A p \in S : trade[p].partner \in S \cup {None}, T!End(S),
         \A p \in Traders \ S : trade[p].partner # None => p \in trade_online'
  PROVE  /\ Sides'
         /\ tradeItems' \subseteq tradeItems
         /\ \A p \in Traders : trade'[p] = IF p \in S THEN T!Idle ELSE trade[p]
<1> DEFINE I == T!Items(S)
<1>1. /\ \A p \in Traders : trade'[p] = IF p \in S THEN T!Idle ELSE trade[p]
      /\ trade' = [p \in Traders |-> IF p \in S THEN T!Idle ELSE trade[p]]
      /\ tradeItems' = tradeItems \ I /\ transfer' = transfer \ I
      /\ refs' = [i \in T!Offers |-> IF i \in I THEN refs[i] - 1 ELSE refs[i]]
  BY DEF T!End, T!Dereferenced
<1>2. T!Idle \in Deal /\ T!Idle.state = "NONE" /\ T!Idle.partner = None /\ T!Idle.item = None
  BY DEF T!Idle, Deal
<1>3. trade' \in [Traders -> Deal]
  BY <1>1, <1>2 DEF Sides
<1>4. \A p \in Traders \ S : trade[p].item \notin I
  <2> SUFFICES ASSUME NEW p \in Traders \ S, NEW q \in S, trade[p].item = trade[q].item,
                      trade[q].item # None
               PROVE  FALSE
    BY DEF T!Items
  <2>1. q \in Traders /\ p # q
    OBVIOUS
  <2> QED BY <2>1 DEF Sides, T!OffersAgree
<1>5. T!PartnersAgree'
  <2> SUFFICES ASSUME NEW p \in Traders
               PROVE  /\ trade'[p].partner = None <=> trade'[p] = T!Idle
                      /\ trade'[p].partner # None =>
                           trade'[trade'[p].partner].partner = p /\ p \in trade_online'
    BY DEF T!PartnersAgree
  <2>1. CASE p \in S
    BY <1>1, <1>2, <2>1
  <2>2. CASE p \notin S
    <3>1. /\ trade[p].partner = None <=> trade[p] = T!Idle
          /\ trade[p].partner # None => trade[trade[p].partner].partner = p
          /\ trade[p].partner \in Traders \cup {None}
      BY DEF Sides, T!PartnersAgree, Deal
    <3>2. trade[p].partner # None => trade[p].partner \in Traders \ S
      BY <2>2, <3>1 DEF T!TradeAssumption
    <3> QED BY <1>1, <2>2, <3>1, <3>2
  <2> QED BY <2>1, <2>2
<1>6. T!StatesAgree'
  <2> SUFFICES ASSUME NEW p \in Traders
               PROVE  /\ trade'[p].state = "INITIATED" => trade'[p].item # None
                      /\ trade'[p].state = "ACKNOWLEDGE" => trade'[p].item = None
                      /\ trade'[p].partner # None =>
                           /\ trade'[trade'[p].partner].state # "ACCEPT" \/ trade'[p].state # "ACCEPT"
                           /\ trade'[p].item # None \/ trade'[trade'[p].partner].item # None
    BY DEF T!StatesAgree
  <2>1. CASE p \in S
    BY <1>1, <1>2, <2>1
  <2>2. CASE p \notin S
    <3>1. /\ trade[p].partner # None => trade[trade[p].partner].partner = p
          /\ trade[p].partner \in Traders \cup {None}
      BY DEF Sides, T!PartnersAgree, Deal
    <3>2. trade[p].partner # None => trade[p].partner \in Traders \ S
      BY <2>2, <3>1 DEF T!TradeAssumption
    <3>3. /\ trade[p].state = "INITIATED" => trade[p].item # None
          /\ trade[p].state = "ACKNOWLEDGE" => trade[p].item = None
          /\ trade[p].partner # None =>
               /\ trade[trade[p].partner].state # "ACCEPT" \/ trade[p].state # "ACCEPT"
               /\ trade[p].item # None \/ trade[trade[p].partner].item # None
      BY DEF Sides, T!StatesAgree
    <3> QED BY <1>1, <2>2, <3>2, <3>3
  <2> QED BY <2>1, <2>2
<1>7. T!Items(Traders)' = T!Items(Traders) \ I
  BY <1>1, <1>2, <1>4 DEF T!Items
<1>8. T!DocumentsAgree'
  BY <1>1, <1>7 DEF Sides, T!DocumentsAgree
<1>9. T!OffersAgree' /\ refs' \in [T!Offers -> Nat]
  <2>1. \A i \in I : i \in tradeItems
    BY DEF Sides, T!OffersAgree, T!Items
  <2>2. \A i \in T!Offers : refs[i] = IF i \in tradeItems THEN 1 ELSE 0
    BY DEF Sides, T!OffersAgree
  <2> HIDE DEF I
  <2>3. \A i \in T!Offers : refs'[i] = IF i \in tradeItems' THEN 1 ELSE 0
    BY <1>1, <2>1, <2>2
  <2>4. tradeItems' = T!Items(Traders)'
    BY <1>1, <1>7 DEF Sides, T!OffersAgree
  <2>5. \A p, q \in Traders : p # q /\ trade'[p].item = trade'[q].item => trade'[p].item = None
    BY <1>1, <1>2 DEF Sides, T!OffersAgree
  <2>6. refs' \in [T!Offers -> Nat]
    <3>1. \A i \in T!Offers : refs'[i] \in Nat
      BY <2>3
    <3>2. refs' = [i \in T!Offers |-> refs'[i]]
      BY <1>1
    <3> QED BY <3>1, <3>2
  <2> QED BY <2>3, <2>4, <2>5, <2>6 DEF T!OffersAgree
<1>10. \A p \in Traders : trade'[p].partner # p /\ (trade'[p].state = "NONE" => trade'[p] = T!Idle)
  BY <1>1, <1>2 DEF Sides, T!TradeAssumption
<1> HIDE DEF I
<1> QED BY <1>1, <1>3, <1>5, <1>6, <1>8, <1>9, <1>10 DEF Sides

LEMMA BothAreTraders ==
  ASSUME T!TradeAssumption, Sides, NEW X \in SUBSET Traders
  PROVE  /\ T!BothSides(X) \in SUBSET Traders /\ X \subseteq T!BothSides(X)
         /\ \A p \in T!BothSides(X) : trade[p].partner \in T!BothSides(X) \cup {None}
<1>1. \A p \in Traders : /\ trade[p].partner \in Traders \cup {None}
                         /\ trade[p].partner # None => trade[trade[p].partner].partner = p
  BY DEF Sides, T!PartnersAgree, Deal
<1>2. None \notin Traders
  BY DEF T!TradeAssumption
<1> QED BY <1>1, <1>2 DEF T!BothSides

\* The trades of X are closed by either side.
LEMMA CloseSides ==
  ASSUME T!TradeAssumption, Sides, NEW X \in SUBSET Traders, T!CloseTrades(X),
         \A p \in Traders \ X :
           p \in trade_online /\ trade[p].partner # None => p \in trade_online'
  PROVE  /\ Sides'
         /\ tradeItems' \subseteq tradeItems
         /\ \A p \in Traders : trade'[p] \in {trade[p], T!Idle}
         /\ \A p \in X : trade'[p] = T!Idle
<1>1. /\ T!BothSides(X) \in SUBSET Traders /\ X \subseteq T!BothSides(X)
      /\ \A p \in T!BothSides(X) : trade[p].partner \in T!BothSides(X) \cup {None}
  BY BothAreTraders
<1>2. \A p \in Traders : trade[p].partner # None => p \in trade_online
  BY DEF Sides, T!PartnersAgree
<1>3. T!End(T!BothSides(X))
  BY DEF T!CloseTrades
<1>4. \A p \in Traders \ T!BothSides(X) : trade[p].partner # None => p \in trade_online'
  BY <1>1, <1>2
<1> DEFINE S == T!BothSides(X)
<1>5. /\ Sides' /\ tradeItems' \subseteq tradeItems
      /\ \A p \in Traders : trade'[p] = IF p \in S THEN T!Idle ELSE trade[p]
  <2> HIDE DEF S
  <2>1. /\ S \in SUBSET Traders /\ \A p \in S : trade[p].partner \in S \cup {None}
        /\ T!End(S) /\ \A p \in Traders \ S : trade[p].partner # None => p \in trade_online'
    BY <1>1, <1>3, <1>4 DEF S
  <2> QED BY <2>1, EndSides
<1> QED BY <1>1, <1>5

\* i, which nobody offers, is offered by p to q.
LEMMA StartSides ==
  ASSUME T!TradeAssumption, Sides, NEW p \in Traders, NEW q \in Traders, p # q,
         NEW i \in T!Offers, i \notin tradeItems,
         {p, q} \subseteq trade_online, UNCHANGED trade_online,
         T!MayStart(p, q), T!Start(p, q, i),
         transfer' = transfer \cup ({i} \cap Houses)
  PROVE  /\ Sides'
         /\ tradeItems' = tradeItems \cup {i}
         /\ \A r \in Traders : trade'[r].item = trade[r].item \/ (r = p /\ trade[r].item = None)
<1> DEFINE one == [state |-> "INITIATED", partner |-> q, item |-> i]
           two == IF trade[q].state = "NONE"
                    THEN [state |-> "ACKNOWLEDGE", partner |-> p, item |-> None] ELSE trade[q]
<1>1. /\ trade \in [Traders -> Deal] /\ None \notin Traders /\ None \notin T!Offers
      /\ \A r \in Traders : trade[r].state = "NONE" => trade[r] = T!Idle
      /\ T!Idle \in Deal /\ T!Idle.state = "NONE" /\ T!Idle.partner = None /\ T!Idle.item = None
  BY DEF Sides, T!TradeAssumption, T!Idle, Deal
<1>2. trade[q].state = "NONE" =>
        [[trade[q] EXCEPT !.state = "ACKNOWLEDGE"] EXCEPT !.partner = p]
          = [state |-> "ACKNOWLEDGE", partner |-> p, item |-> None]
  <2>1. [[[state |-> "NONE", partner |-> None, item |-> None]
            EXCEPT !.state = "ACKNOWLEDGE"] EXCEPT !.partner = p]
          = [state |-> "ACKNOWLEDGE", partner |-> p, item |-> None]
    <3>1. [[state |-> "NONE", partner |-> None, item |-> None] EXCEPT !.state = "ACKNOWLEDGE"]
            = [state |-> "ACKNOWLEDGE", partner |-> None, item |-> None]
      OBVIOUS
    <3>2. [[state |-> "ACKNOWLEDGE", partner |-> None, item |-> None] EXCEPT !.partner = p]
            = [state |-> "ACKNOWLEDGE", partner |-> p, item |-> None]
      OBVIOUS
    <3> QED BY <3>1, <3>2
  <2>2. trade[q].state = "NONE" => trade[q] = [state |-> "NONE", partner |-> None, item |-> None]
    BY <1>1 DEF T!Idle
  <2> QED BY <2>1, <2>2
<1>3. /\ trade' = [[trade EXCEPT ![p] = one] EXCEPT ![q] = two]
      /\ tradeItems' = tradeItems \cup {i} /\ refs' = [refs EXCEPT ![i] = @ + 1]
  BY <1>1, <1>2 DEF T!Start
<1>4. /\ trade'[p] = one /\ trade'[q] = two
      /\ \A r \in Traders \ {p, q} : trade'[r] = trade[r]
  <2> HIDE DEF one, two
  <2> QED BY <1>1, <1>3
<1>5. one \in Deal /\ two \in Deal
  BY <1>1 DEF Deal
<1>6. trade' \in [Traders -> Deal]
  <2> HIDE DEF one, two
  <2> QED BY <1>1, <1>3, <1>5
<1>7. /\ one.state = "INITIATED" /\ one.partner = q /\ one.item = i
      /\ two.partner = p /\ two.item = trade[q].item
      /\ two.state # "ACCEPT" \/ two = trade[q]
      /\ two.state \in {"NONE", "INITIATED"} => two = trade[q]
      /\ two.state = "ACKNOWLEDGE" => two.item = None
      /\ two.state # "NONE"
  <2>1. trade[q].state = "NONE" \/ trade[q].partner = p
    BY DEF T!MayStart
  <2>2. trade[q].state = "NONE" => trade[q].item = None
    BY <1>1
  <2>3. trade[q].state = "ACKNOWLEDGE" => trade[q].item = None
    BY DEF Sides, T!StatesAgree
  <2> QED BY <2>1, <2>2, <2>3
<1> HIDE DEF one, two
\* p offered nothing before, and whom it was with is q, or nobody
<1>8. trade[p].item = None /\ trade[p].partner \in {None, q} /\ trade[q].partner \in {None, p}
  <2>1. trade[p].state = "NONE" \/ (trade[p].state = "ACKNOWLEDGE" /\ trade[p].partner = q)
    BY DEF T!MayStart
  <2>2. trade[q].state = "NONE" \/ trade[q].partner = p
    BY DEF T!MayStart
  <2>3. trade[p].state = "ACKNOWLEDGE" => trade[p].item = None
    BY DEF Sides, T!StatesAgree
  <2> QED BY <1>1, <2>1, <2>2, <2>3
<1>9. \A r \in Traders \ {p, q} : trade[r].partner \notin {p, q}
  BY <1>1, <1>8 DEF Sides, T!PartnersAgree, Deal
<1>10. i \notin T!Items(Traders) /\ T!Items(Traders) = tradeItems /\ refs[i] = 0
  BY DEF Sides, T!OffersAgree
<1>11. \A r \in Traders : r # p => trade'[r].item = trade[r].item
  BY <1>4, <1>7
<1>12. T!PartnersAgree'
  <2> SUFFICES ASSUME NEW r \in Traders
               PROVE  /\ trade'[r].partner = None <=> trade'[r] = T!Idle
                      /\ trade'[r].partner # None =>
                           trade'[trade'[r].partner].partner = r /\ r \in trade_online'
    BY DEF T!PartnersAgree
  <2>1. CASE r = p
    BY <1>1, <1>4, <1>7, <2>1
  <2>2. CASE r = q
    BY <1>1, <1>4, <1>7, <2>2
  <2>3. CASE r \notin {p, q}
    <3>1. /\ trade[r].partner = None <=> trade[r] = T!Idle
          /\ trade[r].partner # None => trade[trade[r].partner].partner = r /\ r \in trade_online
          /\ trade[r].partner \in Traders \cup {None}
      BY DEF Sides, T!PartnersAgree, Deal
    <3> QED BY <1>4, <1>9, <2>3, <3>1
  <2> QED BY <2>1, <2>2, <2>3
<1>13. T!StatesAgree'
  <2> SUFFICES ASSUME NEW r \in Traders
               PROVE  /\ trade'[r].state = "INITIATED" => trade'[r].item # None
                      /\ trade'[r].state = "ACKNOWLEDGE" => trade'[r].item = None
                      /\ trade'[r].partner # None =>
                           /\ trade'[trade'[r].partner].state # "ACCEPT" \/ trade'[r].state # "ACCEPT"
                           /\ trade'[r].item # None \/ trade'[trade'[r].partner].item # None
    BY DEF T!StatesAgree
  <2>0. \A x \in Traders : /\ trade[x].state = "INITIATED" => trade[x].item # None
                           /\ trade[x].state = "ACKNOWLEDGE" => trade[x].item = None
    BY DEF Sides, T!StatesAgree
  <2>1. CASE r = p
    BY <1>1, <1>4, <1>7, <2>1
  <2>2. CASE r = q
    BY <1>1, <1>4, <1>7, <2>0, <2>2
  <2>3. CASE r \notin {p, q}
    <3>1. /\ trade[r].partner # None =>
               /\ trade[trade[r].partner].state # "ACCEPT" \/ trade[r].state # "ACCEPT"
               /\ trade[r].item # None \/ trade[trade[r].partner].item # None
          /\ trade[r].partner \in Traders \cup {None}
      BY DEF Sides, T!StatesAgree, Deal
    <3> QED BY <1>4, <1>9, <2>0, <2>3, <3>1
  <2> QED BY <2>1, <2>2, <2>3
<1>14. T!Items(Traders)' = T!Items(Traders) \cup {i}
  <2>1. \A r \in Traders : trade'[r].item = IF r = p THEN i ELSE trade[r].item
    BY <1>4, <1>7, <1>11
  <2> QED BY <1>1, <1>8, <2>1 DEF T!Items
<1>15. T!DocumentsAgree'
  BY <1>14 DEF Sides, T!DocumentsAgree
<1>16. T!OffersAgree' /\ refs' \in [T!Offers -> Nat]
  <2>1. \A x, y \in Traders : x # y /\ trade[x].item = trade[y].item => trade[x].item = None
    BY DEF Sides, T!OffersAgree
  <2>2. \A x \in Traders : trade[x].item # i
    BY <1>1, <1>10 DEF T!Items
  <2>3. \A x, y \in Traders : x # y /\ trade'[x].item = trade'[y].item => trade'[x].item = None
    BY <1>4, <1>7, <1>11, <2>1, <2>2
  <2>4. refs \in [T!Offers -> Nat] /\ \A x \in T!Offers : refs[x] = IF x \in tradeItems THEN 1 ELSE 0
    BY DEF Sides, T!OffersAgree
  <2>5. refs' \in [T!Offers -> Nat] /\ \A x \in T!Offers : refs'[x] = IF x \in tradeItems' THEN 1 ELSE 0
    BY <1>3, <1>10, <2>4
  <2> QED BY <1>3, <1>10, <1>14, <2>3, <2>5 DEF T!OffersAgree
<1>17. \A r \in Traders : trade'[r].partner # r /\ (trade'[r].state = "NONE" => trade'[r] = T!Idle)
  BY <1>1, <1>4, <1>7 DEF Sides
<1>18. tradeItems' \subseteq T!Offers /\ transfer' \subseteq Houses
  BY <1>3 DEF Sides
<1>19. Sides'
  BY <1>6, <1>12, <1>13, <1>15, <1>16, <1>17, <1>18 DEF Sides
<1> QED BY <1>3, <1>8, <1>11, <1>19

\* The first of the two accepts.
LEMMA AcceptSides ==
  ASSUME T!TradeAssumption, Sides, NEW p \in Traders, T!AcceptFirst(p)
  PROVE  Sides'
<1>1. /\ trade \in [Traders -> Deal] /\ None \notin Traders
      /\ T!Idle.state = "NONE" /\ T!Idle.partner = None /\ T!Idle.item = None
      /\ trade[p].state \in {"ACKNOWLEDGE", "INITIATED"}
      /\ trade[trade[p].partner].state # "ACCEPT"
      /\ trade' = [trade EXCEPT ![p].state = "ACCEPT"]
      /\ UNCHANGED <<trade_online, tradeItems, refs, transfer>>
  BY DEF Sides, T!TradeAssumption, T!Idle, T!AcceptFirst, T!AcceptState
<1> DEFINE new == [trade[p] EXCEPT !.state = "ACCEPT"]
<1>2. /\ new \in Deal /\ new.state = "ACCEPT" /\ new.partner = trade[p].partner
      /\ new.item = trade[p].item
  <2>1. trade[p] \in Deal
    BY <1>1
  <2> QED BY <2>1 DEF Deal
<1>3. trade' = [trade EXCEPT ![p] = new]
  BY <1>1
<1> HIDE DEF new
<1>4. trade' \in [Traders -> Deal] /\ trade'[p] = new /\ \A r \in Traders : r # p => trade'[r] = trade[r]
  BY <1>1, <1>2, <1>3
<1>5. /\ \A r \in Traders : trade'[r].partner = trade[r].partner /\ trade'[r].item = trade[r].item
      /\ \A r \in Traders : trade'[r].state = IF r = p THEN "ACCEPT" ELSE trade[r].state
  BY <1>2, <1>4
<1>6. /\ \A r \in Traders : trade[r].partner = None <=> trade[r] = T!Idle
      /\ \A r \in Traders : trade[r].partner # None =>
                              trade[trade[r].partner].partner = r /\ r \in trade_online
      /\ \A r \in Traders : trade[r].partner \in Traders \cup {None}
  BY <1>1 DEF Sides, T!PartnersAgree, Deal
<1>7. trade[p].partner \in Traders
  BY <1>1, <1>6
<1>8. T!PartnersAgree'
  <2>1. \A r \in Traders : trade'[r].partner = None <=> trade'[r] = T!Idle
    BY <1>1, <1>2, <1>4, <1>6, <1>7
  <2> QED BY <1>1, <1>5, <1>6, <2>1 DEF T!PartnersAgree
<1>9. T!StatesAgree'
  <2>1. \A r \in Traders :
          /\ trade[r].state = "INITIATED" => trade[r].item # None
          /\ trade[r].state = "ACKNOWLEDGE" => trade[r].item = None
          /\ trade[r].partner # None =>
               /\ trade[trade[r].partner].state # "ACCEPT" \/ trade[r].state # "ACCEPT"
               /\ trade[r].item # None \/ trade[trade[r].partner].item # None
    BY DEF Sides, T!StatesAgree
  <2> SUFFICES ASSUME NEW r \in Traders
               PROVE  /\ trade'[r].state = "INITIATED" => trade'[r].item # None
                      /\ trade'[r].state = "ACKNOWLEDGE" => trade'[r].item = None
                      /\ trade'[r].partner # None =>
                           /\ trade'[trade'[r].partner].state # "ACCEPT" \/ trade'[r].state # "ACCEPT"
                           /\ trade'[r].item # None \/ trade'[trade'[r].partner].item # None
    BY DEF T!StatesAgree
  <2>2. p # trade[p].partner
    BY DEF Sides
  <2>3. trade[r].partner = p => r = trade[p].partner
    BY <1>1, <1>6
  <2> QED BY <1>1, <1>5, <1>6, <2>1, <2>2, <2>3
<1>10. T!Items(Traders)' = T!Items(Traders)
  BY <1>5 DEF T!Items
<1>11. T!DocumentsAgree' /\ T!OffersAgree'
  BY <1>1, <1>5, <1>10 DEF Sides, T!DocumentsAgree, T!OffersAgree
<1>12. \A r \in Traders : trade'[r].partner # r /\ (trade'[r].state = "NONE" => trade'[r] = T!Idle)
  BY <1>4, <1>5 DEF Sides
<1> QED BY <1>1, <1>4, <1>8, <1>9, <1>11, <1>12 DEF Sides

TradeIInv ==
  /\ Sides /\ trade_online \subseteq Traders
  /\ owner \in [Houses -> Traders \cup {None}] /\ holder \in [Things -> Traders \cup {None}]
  /\ inside \in Nested /\ NoCycle(inside) /\ T!OffersDisjoint

LEMMA TradeIInvImpliesInv ==
  ASSUME TradeIInv PROVE T!Inv
BY DEF TradeIInv, Sides, T!Inv, T!TypeOK, Deal, Nested, NoCycle, T!Holding

LEMMA TradeInitIInv ==
  ASSUME T!TradeAssumption, T!Init PROVE TradeIInv
<1>1. /\ trade_online = Traders /\ trade = [p \in Traders |-> T!Idle] /\ tradeItems = {}
      /\ refs = [i \in T!Offers |-> 0] /\ transfer = {} /\ inside = [i \in Things |-> None]
      /\ owner \in [Houses -> Traders \cup {None}] /\ holder \in [Things -> Traders \cup {None}]
  BY DEF T!Init
<1>2. T!Idle \in Deal /\ T!Idle.state = "NONE" /\ T!Idle.partner = None /\ T!Idle.item = None
  BY DEF T!Idle, Deal
<1>3. \A p \in Traders : trade[p] = T!Idle
  BY <1>1
<1>4. T!Items(Traders) = {}
  BY <1>2, <1>3 DEF T!Items
<1>5. T!PartnersAgree /\ T!StatesAgree
  BY <1>2, <1>3 DEF T!PartnersAgree, T!StatesAgree
<1>6. T!DocumentsAgree /\ T!OffersAgree
  BY <1>1, <1>2, <1>3, <1>4 DEF T!DocumentsAgree, T!OffersAgree
<1>7. \A p \in Traders : trade[p].partner # p
  BY <1>2, <1>3 DEF T!TradeAssumption
<1>8. Sides
  BY <1>1, <1>2, <1>3, <1>5, <1>6, <1>7 DEF Sides
<1>9. inside \in Nested /\ \A i \in Things : inside[i] = None
  BY <1>1 DEF Nested
<1>10. NoCycle(inside)
  BY <1>9, AboveNext DEF NoCycle
<1>11. T!OffersDisjoint
  BY <1>1 DEF T!OffersDisjoint
<1> QED BY <1>1, <1>8, <1>9, <1>10, <1>11 DEF TradeIInv

\* Nothing new is offered, and no thing lies in more than before.
LEMMA DisjointLess ==
  ASSUME TradeIInv, tradeItems' \subseteq tradeItems,
         \A x \in Things : T!Above(inside', x) \subseteq T!Above(inside, x)
  PROVE  NoCycle(inside') /\ T!OffersDisjoint'
<1>1. NoCycle(inside')
  BY DEF TradeIInv, NoCycle
<1>2. \A x, y \in tradeItems : ~(x \in Things /\ y \in Things /\ x \in T!Above(inside, y))
  BY DEF TradeIInv, T!OffersDisjoint, T!Holding
<1>3. \A x, y \in tradeItems' : ~(x \in Things /\ y \in Things /\ x \in T!Above(inside', y))
  BY <1>2
<1> QED BY <1>1, <1>3 DEF T!OffersDisjoint, T!Holding

\* Trades are closed and nothing is moved.
LEMMA CloseIInv ==
  ASSUME T!TradeAssumption, TradeIInv, NEW X \in SUBSET Traders, T!CloseTrades(X),
         \A p \in Traders \ X :
           p \in trade_online /\ trade[p].partner # None => p \in trade_online',
         trade_online' \subseteq Traders, owner' \in [Houses -> Traders \cup {None}],
         UNCHANGED <<inside, holder>>
  PROVE  TradeIInv'
<1>1. Sides' /\ tradeItems' \subseteq tradeItems
  BY CloseSides DEF TradeIInv
<1>2. NoCycle(inside') /\ T!OffersDisjoint'
  BY <1>1, DisjointLess
<1> QED BY <1>1, <1>2 DEF TradeIInv

LEMMA StartIInv ==
  ASSUME T!TradeAssumption, TradeIInv, NEW p \in Traders, NEW q \in Traders,
         NEW i \in T!Offers,
         \/ i \in Things /\ T!RequestTrade(p, q, i)
         \/ i \in Houses /\ T!StartHouseTrade(p, q, i)
  PROVE  TradeIInv'
<1>1. /\ p # q /\ {p, q} \subseteq trade_online /\ T!MayStart(p, q) /\ T!Start(p, q, i)
      /\ UNCHANGED <<trade_online, owner, inside, holder>>
  BY DEF T!RequestTrade, T!StartHouseTrade
<1>2. transfer' = transfer \cup ({i} \cap Houses)
  BY DEF T!RequestTrade, T!StartHouseTrade, T!TradeAssumption
<1>3. i \notin tradeItems
  <2>1. CASE i \in Things /\ T!RequestTrade(p, q, i)
    BY <2>1 DEF T!RequestTrade, T!Free
  <2>2. CASE i \in Houses /\ T!StartHouseTrade(p, q, i)
    BY <2>2 DEF T!StartHouseTrade, TradeIInv, Sides, T!DocumentsAgree, T!OffersAgree
  <2> QED BY <2>1, <2>2
<1>4. Sides' /\ tradeItems' = tradeItems \cup {i}
  BY <1>1, <1>2, <1>3, StartSides DEF TradeIInv
<1>5. \A x \in tradeItems : ~T!Holding(x, i) /\ ~T!Holding(i, x)
  <2>1. CASE i \in Things /\ T!RequestTrade(p, q, i)
    BY <2>1 DEF T!RequestTrade, T!Free
  <2>2. CASE i \in Houses /\ T!StartHouseTrade(p, q, i)
    BY <2>2 DEF T!Holding, T!TradeAssumption
  <2> QED BY <2>1, <2>2
<1>6. ~T!Holding(i, i)
  BY DEF TradeIInv, NoCycle, T!Holding
<1>7. \A x, y \in tradeItems \cup {i} : ~T!Holding(x, y)
  BY <1>5, <1>6 DEF TradeIInv, T!OffersDisjoint
<1>8. T!OffersDisjoint'
  BY <1>1, <1>4, <1>7 DEF T!OffersDisjoint, T!Holding
<1> QED BY <1>1, <1>4, <1>8 DEF TradeIInv

\* The second accepts: what is offered leaves its container, and the trade ends with
\* those of the people who have to leave a house.
LEMMA LastIs ==
  ASSUME T!TradeAssumption, TradeIInv, NEW p \in Traders, T!AcceptLast(p)
  PROVE  \E S \in SUBSET Traders :
           /\ p \in S /\ trade[p].partner \in S /\ trade[p].partner \in Traders
           /\ \A r \in S : trade[r].partner \in S \cup {None}
           /\ T!End(S)
<1>1. /\ trade[p].state \in {"ACKNOWLEDGE", "INITIATED"} /\ p \in Traders
      /\ \A r \in Traders : /\ trade[r].partner \in Traders \cup {None}
                            /\ trade[r].partner = None <=> trade[r] = T!Idle
                            /\ trade[r].partner # None => trade[trade[r].partner].partner = r
  BY DEF T!AcceptLast, T!MayAcceptLast, T!AcceptState, TradeIInv, Sides, T!PartnersAgree, Deal
<1> DEFINE q == trade[p].partner
<1>2. q \in Traders /\ trade[q].partner = p
  BY <1>1 DEF T!Idle
<1>3. PICK X \in SUBSET Traders : T!End({p, q} \cup T!BothSides(X))
  BY DEF T!AcceptLast
<1>4. /\ T!BothSides(X) \in SUBSET Traders
      /\ \A r \in T!BothSides(X) : trade[r].partner \in T!BothSides(X) \cup {None}
  BY BothAreTraders DEF TradeIInv
<1>5. \A r \in {p, q} \cup T!BothSides(X) : trade[r].partner \in ({p, q} \cup T!BothSides(X)) \cup {None}
  BY <1>2, <1>4
<1> QED BY <1>2, <1>3, <1>4, <1>5

LEMMA LastIInv ==
  ASSUME T!TradeAssumption, TradeIInv, NEW p \in Traders, T!AcceptLast(p)
  PROVE  TradeIInv'
<1>1. PICK S \in SUBSET Traders :
         /\ p \in S /\ trade[p].partner \in S /\ trade[p].partner \in Traders
         /\ \A r \in S : trade[r].partner \in S \cup {None}
         /\ T!End(S)
  BY LastIs
<1>2. /\ UNCHANGED trade_online
      /\ inside' = [x \in Things |-> IF x \in {trade[p].item, trade[trade[p].partner].item}
                                       THEN None ELSE inside[x]]
      /\ owner' = [x \in Houses |-> IF x \in {trade[p].item, trade[trade[p].partner].item}
                                      THEN T!Given(p, trade[p].partner, x) ELSE owner[x]]
      /\ holder' = [x \in Things |-> IF x \in {trade[p].item, trade[trade[p].partner].item}
                                      THEN T!Given(p, trade[p].partner, x) ELSE holder[x]]
  BY DEF T!AcceptLast
<1>3. \A r \in Traders \ S : trade[r].partner # None => r \in trade_online'
  BY <1>2 DEF TradeIInv, Sides, T!PartnersAgree
<1>4. Sides' /\ tradeItems' \subseteq tradeItems
  BY <1>1, <1>3, EndSides DEF TradeIInv
<1>5. \A x : T!Given(p, trade[p].partner, x) \in Traders \cup {None}
  BY <1>1 DEF T!Given
<1>6. owner' \in [Houses -> Traders \cup {None}] /\ holder' \in [Things -> Traders \cup {None}]
  BY <1>2, <1>5 DEF TradeIInv
<1>7. inside' \in Nested /\ \A x \in Things : inside'[x] \in {inside[x], None}
  BY <1>2 DEF TradeIInv, Nested
<1>8. NoCycle(inside') /\ T!OffersDisjoint'
  <2>1. \A x \in Things : T!Above(inside', x) \subseteq T!Above(inside, x)
    BY <1>7, AboveLess DEF TradeIInv
  <2> QED BY <1>4, <2>1, DisjointLess
<1> QED BY <1>2, <1>4, <1>6, <1>7, <1>8 DEF TradeIInv

\* What is moved, holds it, is held by it, or holds its new place is not offered any more.
LEMMA MoveEnds ==
  ASSUME T!TradeAssumption, TradeIInv, NEW i \in Things, NEW c \in Things \cup {None},
         NEW q \in Traders \cup {None}, T!MoveThing(i, c, q)
  PROVE  /\ Sides' /\ tradeItems' \subseteq tradeItems
         /\ \A r \in Traders : trade'[r].item # None =>
              /\ trade'[r] = trade[r] /\ trade[r].item # i /\ trade[r].item # c
              /\ ~T!Holding(trade[r].item, i) /\ ~T!Holding(i, trade[r].item)
              /\ ~T!Holding(trade[r].item, c)
<1>1. T!CloseTrades(T!Touched(i, c)) /\ UNCHANGED trade_online
  BY DEF T!MoveThing
<1>2. T!Touched(i, c) \in SUBSET Traders
  BY DEF T!Touched
<1>3. /\ Sides' /\ tradeItems' \subseteq tradeItems
      /\ \A r \in Traders : trade'[r] \in {trade[r], T!Idle}
      /\ \A r \in T!Touched(i, c) : trade'[r] = T!Idle
  <2> DEFINE X == T!Touched(i, c)
  <2>1. X \in SUBSET Traders /\ T!CloseTrades(X)
    BY <1>1, <1>2
  <2> HIDE DEF X
  <2>2. /\ Sides' /\ tradeItems' \subseteq tradeItems
        /\ \A r \in Traders : trade'[r] \in {trade[r], T!Idle}
        /\ \A r \in X : trade'[r] = T!Idle
    BY <1>1, <2>1, CloseSides DEF TradeIInv
  <2> QED BY <2>2 DEF X
<1>4. T!Idle.item = None
  BY DEF T!Idle
<1>5. \A r \in Traders : trade'[r].item # None => trade'[r] = trade[r] /\ r \notin T!Touched(i, c)
  BY <1>3, <1>4
<1> QED BY <1>3, <1>5 DEF T!Touched

LEMMA MoveIInv ==
  ASSUME T!TradeAssumption, TradeIInv, NEW i \in Things, NEW c \in Things \cup {None},
         NEW q \in Traders \cup {None}, T!MoveThing(i, c, q)
  PROVE  TradeIInv'
<1>1. /\ T!MayHold(c, i) /\ UNCHANGED <<trade_online, owner>>
      /\ inside' = [inside EXCEPT ![i] = c]
      /\ holder' = [holder EXCEPT ![i] = IF c = None THEN q ELSE None]
  BY DEF T!MoveThing
<1>2. inside \in Nested /\ NoCycle(inside)
  BY DEF TradeIInv
<1>3. c # i /\ (c # None => i \notin T!Above(inside, c))
  BY <1>1 DEF T!MayHold, T!Holding
<1>4. NoCycle(inside')
  BY <1>1, <1>2, <1>3, PutKeepsNoCycle
<1>5. inside' \in Nested
  BY <1>1, <1>2, AbovePut
<1>6. /\ Sides' /\ tradeItems' \subseteq tradeItems
      /\ \A r \in Traders : trade'[r].item # None => trade'[r].item # i /\ ~T!Holding(i, trade'[r].item)
  BY MoveEnds
<1>7. \A y \in tradeItems' : y # i /\ ~T!Holding(i, y)
  <2>1. tradeItems' = T!Items(Traders)'
    BY <1>6 DEF Sides, T!OffersAgree
  <2>2. \A y \in tradeItems' : \E r \in Traders : y = trade'[r].item /\ trade'[r].item # None
    BY <2>1 DEF T!Items
  <2> QED BY <1>6, <2>2
<1>8. ASSUME NEW x \in tradeItems', NEW y \in tradeItems', x \in Things, y \in Things,
             x \in T!Above(inside', y)
      PROVE  FALSE
  <2>1. i \notin {y} \cup T!Above(inside, y)
    BY <1>7, <1>8 DEF T!Holding
  <2>2. T!Above(inside', y) = T!Above(inside, y)
    BY <1>1, <1>2, <1>8, <2>1, AbovePut
  <2>3. x \in tradeItems /\ y \in tradeItems /\ T!Holding(x, y)
    BY <1>6, <1>8, <2>2 DEF T!Holding
  <2> QED BY <2>3 DEF TradeIInv, T!OffersDisjoint
<1>9. T!OffersDisjoint'
  BY <1>8 DEF T!OffersDisjoint, T!Holding
<1>10. holder' \in [Things -> Traders \cup {None}] /\ owner' \in [Houses -> Traders \cup {None}]
  BY <1>1 DEF TradeIInv
<1> QED BY <1>1, <1>4, <1>5, <1>6, <1>9, <1>10 DEF TradeIInv

LEMMA TradeStepIInv ==
  ASSUME T!TradeAssumption, TradeIInv, [T!Next]_(T!vars) PROVE TradeIInv'
<1>1. ASSUME NEW p \in Traders, T!AcceptFirst(p) PROVE TradeIInv'
  <2>1. Sides'
    BY <1>1, AcceptSides DEF TradeIInv
  <2>2. UNCHANGED <<trade_online, tradeItems, owner, inside, holder>>
    BY <1>1 DEF T!AcceptFirst
  <2> QED BY <2>1, <2>2 DEF TradeIInv, T!OffersDisjoint, T!Holding
<1>2. ASSUME NEW p \in Traders, T!AcceptFails(p) \/ T!CloseTrade(p) \/ T!MoveAway(p)
      PROVE  TradeIInv'
  <2>1. T!CloseTrades({p}) /\ UNCHANGED <<trade_online, owner, inside, holder>>
    BY <1>2 DEF T!AcceptFails, T!CloseTrade, T!MoveAway
  <2>2. {p} \in SUBSET Traders
    OBVIOUS
  <2>3. trade_online' \subseteq Traders /\ owner' \in [Houses -> Traders \cup {None}]
    BY <2>1 DEF TradeIInv
  <2> QED BY <2>1, <2>2, <2>3, CloseIInv
<1>3. ASSUME NEW p \in Traders, T!AcceptLast(p) PROVE TradeIInv'
  BY <1>3, LastIInv
<1>4. ASSUME NEW p \in Traders, T!RemoveCreature(p) PROVE TradeIInv'
  <2> DEFINE X == IF trade[p].partner # None THEN {p} ELSE {}
  <2>1. /\ T!CloseTrades(X) /\ X \in SUBSET Traders /\ trade_online' = trade_online \ {p}
        /\ UNCHANGED <<owner, inside, holder>>
    BY <1>4 DEF T!RemoveCreature
  <2>2. \A r \in Traders \ X : r \in trade_online /\ trade[r].partner # None => r \in trade_online'
    BY <2>1
  <2>3. trade_online' \subseteq Traders /\ owner' \in [Houses -> Traders \cup {None}]
    BY <2>1 DEF TradeIInv
  <2> HIDE DEF X
  <2> QED BY <2>1, <2>2, <2>3, CloseIInv
<1>5. ASSUME NEW p \in Traders, T!LogIn(p) PROVE TradeIInv'
  <2>1. /\ trade_online' = trade_online \cup {p}
        /\ UNCHANGED <<trade, tradeItems, refs, transfer, owner, inside, holder>>
    BY <1>5 DEF T!LogIn, T!trading
  <2>2. T!PartnersAgree' /\ T!StatesAgree' /\ T!DocumentsAgree' /\ T!OffersAgree'
    BY <2>1 DEF TradeIInv, Sides, T!PartnersAgree, T!StatesAgree, T!DocumentsAgree,
                T!OffersAgree, T!Items
  <2>3. Sides'
    BY <2>1, <2>2 DEF TradeIInv, Sides
  <2> QED BY <2>1, <2>3 DEF TradeIInv, T!OffersDisjoint, T!Holding
<1>6. ASSUME NEW p \in Traders, NEW q \in Traders, NEW i \in Things, T!RequestTrade(p, q, i)
      PROVE  TradeIInv'
  BY <1>6, StartIInv DEF T!Offers
<1>7. ASSUME NEW p \in Traders, NEW q \in Traders, NEW h \in Houses, T!StartHouseTrade(p, q, h)
      PROVE  TradeIInv'
  BY <1>7, StartIInv DEF T!Offers
<1>8. ASSUME NEW i \in Things, NEW c \in Things \cup {None}, NEW q \in Traders \cup {None},
             T!MoveThing(i, c, q)
      PROVE  TradeIInv'
  BY <1>8, MoveIInv
<1>9. ASSUME NEW h \in Houses, NEW p \in Traders \cup {None}, T!SetOwner(h, p) PROVE TradeIInv'
  <2>1. PICK X \in SUBSET Traders : T!CloseTrades(X)
    BY <1>9 DEF T!SetOwner
  <2>2. owner' = [owner EXCEPT ![h] = p] /\ UNCHANGED <<trade_online, inside, holder>>
    BY <1>9 DEF T!SetOwner
  <2>3. trade_online' \subseteq Traders /\ owner' \in [Houses -> Traders \cup {None}]
    BY <2>2 DEF TradeIInv
  <2> QED BY <2>1, <2>2, <2>3, CloseIInv
<1>10. CASE UNCHANGED T!vars
  BY <1>10 DEF T!vars, TradeIInv, Sides, T!PartnersAgree, T!StatesAgree, T!DocumentsAgree,
               T!OffersAgree, T!Items, T!OffersDisjoint, T!Holding
<1>11. CASE T!Next
  <2>1. \/ \E p \in Traders : \/ T!AcceptFirst(p) \/ T!AcceptFails(p) \/ T!AcceptLast(p)
                              \/ T!CloseTrade(p) \/ T!MoveAway(p) \/ T!RemoveCreature(p) \/ T!LogIn(p)
        \/ \E p \in Traders, q \in Traders, i \in Things : T!RequestTrade(p, q, i)
        \/ \E p \in Traders, q \in Traders, h \in Houses : T!StartHouseTrade(p, q, h)
        \/ \E i \in Things, c \in Things \cup {None}, q \in Traders \cup {None} : T!MoveThing(i, c, q)
        \/ \E h \in Houses, p \in Traders \cup {None} : T!SetOwner(h, p)
    BY <1>11 DEF T!Next
  <2> QED BY <2>1, <1>1, <1>2, <1>3, <1>4, <1>5, <1>6, <1>7, <1>8, <1>9
<1> QED BY <1>10, <1>11

\* Where an offer lies, and what lies in it, is as before if what is moved is neither it nor
\* around it, and lies neither in it nor around the place it comes to.
Lying(x) ==
  /\ {y \in Things : T!Holding(x, y)} = {y \in Things : T!Holding(x, y)}'
  /\ T!Above(inside, x) = T!Above(inside, x)' /\ holder[T!Top(x)] = holder[T!Top(x)]'

LEMMA IntactIs ==
  ASSUME T!TradeAssumption, inside \in Nested, NoCycle(inside), inside' \in Nested,
         NEW x \in Things, NEW M \in SUBSET Things,
         \A y \in Things \ M : inside'[y] = inside[y] /\ holder'[y] = holder[y],
         \A y \in M : y # x /\ y \notin T!Above(inside, x) /\ x \notin T!Above(inside, y),
         \A y \in Things : x \in T!Above(inside', y) => x \in T!Above(inside, y)
  PROVE  Lying(x)
<1>1. T!Above(inside, x) \subseteq Things
  BY AboveCloses DEF Nested
<1>2. \A y \in {x} \cup T!Above(inside, x) : inside'[y] = inside[y] /\ holder'[y] = holder[y]
  BY <1>1
<1>3. T!Above(inside', x) = T!Above(inside, x)
  BY <1>2, AboveSame
<1>4. ASSUME NEW y \in Things, x \in T!Above(inside, y) PROVE x \in T!Above(inside', y)
  <2>1. ASSUME NEW m \in {y} \cup T!Above(inside, y) PROVE m \notin M /\ m \in Things
    <3>1. m \in Things
      BY AboveCloses DEF Nested
    <3>2. CASE m = y
      BY <1>4, <3>1, <3>2
    <3>3. CASE m \in T!Above(inside, y)
      <4>1. m = x \/ m \in T!Above(inside, x) \/ x \in T!Above(inside, m)
        BY <1>4, <3>3, AboveLine
      <4> QED BY <3>1, <4>1
    <3> QED BY <3>2, <3>3
  <2>2. \A m \in {y} \cup T!Above(inside, y) : inside'[m] = inside[m]
    BY <2>1
  <2>3. T!Above(inside', y) = T!Above(inside, y)
    BY <2>2, AboveSame
  <2> QED BY <1>4, <2>3
<1>5. {y \in Things : T!Holding(x, y)} = {y \in Things : T!Holding(x, y)}'
  BY <1>4 DEF T!Holding
<1>6. T!Top(x) = T!Top(x)' /\ T!Top(x) \in {x} \cup T!Above(inside, x)
  <2> DEFINE A == {x} \cup T!Above(inside, x)
             t == CHOOSE t \in A : inside[t] = None
  <2>1. t \in A
    <3>1. \E y \in A : inside[y] = None
      BY TopIs
    <3> HIDE DEF A
    <3> QED BY <3>1
  <2>2. (CHOOSE y \in A : inside[y] = None) = (CHOOSE y \in A : inside'[y] = None)
    <3>1. \A y \in A : inside'[y] = inside[y]
      BY <1>2
    <3> HIDE DEF A
    <3> QED BY <3>1
  <2>3. T!Top(x) = t
    BY DEF T!Top
  <2>4. T!Top(x)' = CHOOSE y \in A : inside'[y] = None
    BY <1>3 DEF T!Top
  <2> QED BY <2>1, <2>2, <2>3, <2>4
<1> QED BY <1>2, <1>3, <1>5, <1>6 DEF Lying

LEMMA LastIntact ==
  ASSUME T!TradeAssumption, TradeIInv, NEW r \in Traders, T!AcceptLast(r),
         NEW p \in Traders, trade[p].item \in Things, trade'[p].item = trade[p].item
  PROVE  Lying(trade[p].item)
<1> DEFINE x == trade[p].item
           q == trade[r].partner
           M == {trade[r].item, trade[q].item} \cap Things
<1>1. PICK S \in SUBSET Traders :
         r \in S /\ q \in S /\ q \in Traders /\ (\A y \in S : trade[y].partner \in S \cup {None}) /\ T!End(S)
  BY LastIs
<1>2. p \notin S
  <2>1. p \in S => trade'[p] = T!Idle
    BY <1>1 DEF T!End
  <2> QED BY <2>1 DEF T!Idle, T!TradeAssumption, T!Offers
<1>3. /\ inside' = [y \in Things |-> IF y \in {trade[r].item, trade[q].item} THEN None ELSE inside[y]]
      /\ holder' = [y \in Things |-> IF y \in {trade[r].item, trade[q].item}
                                      THEN T!Given(r, q, y) ELSE holder[y]]
      /\ None \notin {trade[r].item, trade[q].item}
  BY DEF T!AcceptLast
<1>4. x \in tradeItems /\ trade[r].item \in tradeItems /\ trade[q].item \in tradeItems
  <2>1. tradeItems = T!Items(Traders) /\ x # None
    BY DEF TradeIInv, Sides, T!OffersAgree, T!TradeAssumption, T!Offers
  <2> QED BY <1>1, <1>3, <2>1 DEF T!Items
<1>5. trade[r].item # x /\ trade[q].item # x
  <2>1. \A y \in Traders : y # p /\ trade[y].item = x => trade[y].item = None
    BY DEF TradeIInv, Sides, T!OffersAgree
  <2> QED BY <1>1, <1>2, <1>3, <2>1
<1>6. x \in Things /\ M \in SUBSET Things
  OBVIOUS
<1>7. \A y \in M : y \in tradeItems /\ y # x
  BY <1>4, <1>5
<1>8. \A y \in Things \ M : inside'[y] = inside[y] /\ holder'[y] = holder[y]
  BY <1>3
<1>9. inside' \in Nested /\ \A y \in Things : inside'[y] \in {inside[y], None}
  BY <1>3 DEF TradeIInv, Nested
<1> HIDE DEF x, M
<1>10. \A y \in M : y # x /\ y \notin T!Above(inside, x) /\ x \notin T!Above(inside, y)
  BY <1>4, <1>6, <1>7 DEF TradeIInv, T!OffersDisjoint, T!Holding
<1>11. \A y \in Things : x \in T!Above(inside', y) => x \in T!Above(inside, y)
  BY <1>9, AboveLess DEF TradeIInv
<1>12. Lying(x)
  BY <1>6, <1>8, <1>9, <1>10, <1>11, IntactIs DEF TradeIInv
<1> QED BY <1>12 DEF x

LEMMA MoveIntact ==
  ASSUME T!TradeAssumption, TradeIInv, NEW i \in Things, NEW c \in Things \cup {None},
         NEW q \in Traders \cup {None}, T!MoveThing(i, c, q),
         NEW p \in Traders, trade[p].item \in Things, trade'[p].item = trade[p].item
  PROVE  Lying(trade[p].item)
<1> DEFINE x == trade[p].item
<1>1. /\ inside' = [inside EXCEPT ![i] = c]
      /\ holder' = [holder EXCEPT ![i] = IF c = None THEN q ELSE None]
  BY DEF T!MoveThing
<1>2. x \in Things /\ x # None
  BY DEF T!TradeAssumption, T!Offers
<1>3. x # i /\ x # c /\ ~T!Holding(x, i) /\ ~T!Holding(i, x) /\ ~T!Holding(x, c)
  BY <1>2, MoveEnds
<1> HIDE DEF x
<1>4. inside \in Nested /\ NoCycle(inside)
  BY DEF TradeIInv
<1>5. inside' \in Nested
  BY <1>1, <1>4, AbovePut
<1>6. \A y \in Things \ {i} : inside'[y] = inside[y] /\ holder'[y] = holder[y]
  BY <1>1, <1>4 DEF Nested, TradeIInv
<1>7. \A y \in {i} : y # x /\ y \notin T!Above(inside, x) /\ x \notin T!Above(inside, y)
  BY <1>2, <1>3 DEF T!Holding
<1>8. ASSUME NEW y \in Things, x \in T!Above(inside', y) PROVE x \in T!Above(inside, y)
  <2>1. /\ c = None => T!Above(inside', y) \subseteq T!Above(inside, y)
        /\ c # None => T!Above(inside', y) \subseteq T!Above(inside, y) \cup {c} \cup T!Above(inside, c)
    BY <1>1, <1>4, AbovePut
  <2>2. c # None => x \notin T!Above(inside, c)
    BY <1>2, <1>3 DEF T!Holding
  <2> QED BY <1>3, <1>8, <2>1, <2>2
<1>9. {i} \in SUBSET Things
  OBVIOUS
<1>10. Lying(x)
  BY <1>2, <1>4, <1>5, <1>6, <1>7, <1>8, <1>9, IntactIs
<1> QED BY <1>10 DEF x

LEMMA StillIntact ==
  ASSUME UNCHANGED <<inside, holder>>, NEW x PROVE Lying(x)
BY DEF Lying, T!Holding, T!Top

LEMMA TradeStepIntact ==
  ASSUME T!TradeAssumption, TradeIInv, [T!Next]_(T!vars), NEW p \in Traders,
         trade[p].item \in Things, trade'[p].item = trade[p].item
  PROVE  Lying(trade[p].item)
<1>1. CASE \E r \in Traders : T!AcceptLast(r)
  BY <1>1, LastIntact
<1>2. CASE \E i \in Things, c \in Things \cup {None}, q \in Traders \cup {None} : T!MoveThing(i, c, q)
  BY <1>2, MoveIntact
<1>3. CASE UNCHANGED <<inside, holder>>
  BY <1>3, StillIntact
<1>4. \/ \E r \in Traders : T!AcceptLast(r)
      \/ \E i \in Things, c \in Things \cup {None}, q \in Traders \cup {None} : T!MoveThing(i, c, q)
      \/ UNCHANGED <<inside, holder>>
  BY DEF T!Next, T!vars, T!AcceptFirst, T!AcceptFails, T!CloseTrade, T!MoveAway,
         T!RemoveCreature, T!LogIn, T!RequestTrade, T!StartHouseTrade, T!SetOwner
<1> QED BY <1>1, <1>2, <1>3, <1>4

-----------------------------------------------------------------------------
(* The list of those who wait (WaitList).  Cleaning up goes over the list  *)
(* by a recursive function; what it leaves are entries of the list, each   *)
(* from a place of its own.                                                *)

KeptTo(l, n, g) ==
  g = [k \in 0 .. n |-> IF k = 0 THEN <<>> ELSE IF W!Alive(l[k]) THEN Append(g[k - 1], l[k]) ELSE g[k - 1]]

LEMMA KeptToIs ==
  ASSUME NEW l, NEW n \in Nat, NEW g, KeptTo(l, n, g)
  PROVE  /\ g[0] = <<>>
         /\ \A k \in 1 .. n : g[k] = IF W!Alive(l[k]) THEN Append(g[k - 1], l[k]) ELSE g[k - 1]
<1> DEFINE F(k) == IF k = 0 THEN <<>> ELSE IF W!Alive(l[k]) THEN Append(g[k - 1], l[k]) ELSE g[k - 1]
<1>1. g = [k \in 0 .. n |-> F(k)]
  BY DEF KeptTo
<1> HIDE DEF F
<1>2. \A k \in 0 .. n : g[k] = F(k)
  BY <1>1
<1>3. \A k \in 1 .. n : k \in 0 .. n /\ k # 0
  OBVIOUS
<1>4. 0 \in 0 .. n
  OBVIOUS
<1>5. g[0] = <<>>
  BY <1>2, <1>4 DEF F
<1>6. ASSUME NEW k \in 1 .. n PROVE g[k] = IF W!Alive(l[k]) THEN Append(g[k - 1], l[k]) ELSE g[k - 1]
  <2>1. g[k] = F(k) /\ k # 0
    BY <1>2, <1>3
  <2> QED BY <2>1 DEF F
<1> QED BY <1>5, <1>6

LEMMA KeptExist ==
  ASSUME NEW l, NEW N \in Nat PROVE \E g : KeptTo(l, N, g)
<1> DEFINE S == {n \in Nat : \E g : KeptTo(l, n, g)}
           Further(x, y) == IF W!Alive(y) THEN Append(x, y) ELSE x
<1>1. 0 \in S
  <2> DEFINE g == [k \in 0 .. 0 |-> <<>>]
  <2>1. g = [k \in 0 .. 0 |-> IF k = 0 THEN <<>> ELSE Further(g[k - 1], l[k])]
    <3>1. \A k \in 0 .. 0 : k = 0
      OBVIOUS
    <3> HIDE DEF Further
    <3> QED BY <3>1
  <2> QED BY <2>1 DEF KeptTo
<1>2. ASSUME NEW n \in Nat, n \in S PROVE n + 1 \in S
  <2>1. PICK g : KeptTo(l, n, g)
    BY <1>2
  <2>2. g[0] = <<>> /\ \A k \in 1 .. n : g[k] = Further(g[k - 1], l[k])
    BY <2>1, KeptToIs
  <2> DEFINE h == [k \in 0 .. (n + 1) |-> IF k = n + 1 THEN Further(g[n], l[n + 1]) ELSE g[k]]
  <2>3. \A k \in 0 .. n : h[k] = g[k]
    OBVIOUS
  <2>4. h[n + 1] = Further(g[n], l[n + 1])
    OBVIOUS
  <2> HIDE DEF Further
  <2>5. \A k \in 0 .. (n + 1) : h[k] = IF k = 0 THEN <<>> ELSE Further(h[k - 1], l[k])
    <3> HIDE DEF h
    <3> TAKE k \in 0 .. (n + 1)
    <3>1. CASE k = 0
      <4>1. 0 \in 0 .. n
        OBVIOUS
      <4> QED BY <2>2, <2>3, <3>1, <4>1
    <3>2. CASE k = n + 1
      <4>1. k - 1 = n /\ n \in 0 .. n /\ k # 0
        BY <3>2
      <4> QED BY <2>3, <2>4, <3>2, <4>1
    <3>3. CASE k # 0 /\ k # n + 1
      <4>1. k \in 1 .. n /\ k \in 0 .. n /\ k - 1 \in 0 .. n
        BY <3>3
      <4> QED BY <2>2, <2>3, <3>3, <4>1
    <3> QED BY <3>1, <3>2, <3>3
  <2>6. h = [k \in 0 .. (n + 1) |-> h[k]]
    OBVIOUS
  <2> HIDE DEF h
  <2>7. [k \in 0 .. (n + 1) |-> h[k]] = [k \in 0 .. (n + 1) |-> IF k = 0 THEN <<>> ELSE Further(h[k - 1], l[k])]
    BY <2>5
  <2>8. KeptTo(l, n + 1, h)
    <3>1. h = [k \in 0 .. (n + 1) |-> IF k = 0 THEN <<>> ELSE Further(h[k - 1], l[k])]
      BY <2>6, <2>7
    <3> QED BY <3>1 DEF KeptTo, Further
  <2> QED BY <2>8
<1> HIDE DEF S
<1>3. Nat \subseteq S
  BY <1>1, <1>2, AllNumbers
<1> QED BY <1>3 DEF S

\* s takes entries from the first n of l, and none twice.
Taken(s, l, n) ==
  \E h \in [1 .. Len(s) -> 1 .. n] :
    /\ \A i \in 1 .. Len(s) : s[i] = l[h[i]]
    /\ \A i, j \in 1 .. Len(s) : h[i] = h[j] => i = j

LEMMA TakenMore ==
  ASSUME NEW E, NEW l \in Seq(E), NEW n \in Nat, NEW s \in Seq(E), Taken(s, l, n), n + 1 <= Len(l)
  PROVE  /\ Taken(s, l, n + 1)
         /\ Append(s, l[n + 1]) \in Seq(E) /\ Taken(Append(s, l[n + 1]), l, n + 1)
<1>1. PICK h \in [1 .. Len(s) -> 1 .. n] :
         /\ \A i \in 1 .. Len(s) : s[i] = l[h[i]]
         /\ \A i, j \in 1 .. Len(s) : h[i] = h[j] => i = j
  BY DEF Taken
<1>2. Len(s) \in Nat
  OBVIOUS
<1>3. Taken(s, l, n + 1)
  <2>1. h \in [1 .. Len(s) -> 1 .. (n + 1)]
    OBVIOUS
  <2> QED BY <1>1, <2>1 DEF Taken
<1> DEFINE e == l[n + 1]
           t == Append(s, e)
           H == [i \in 1 .. (Len(s) + 1) |-> IF i = Len(s) + 1 THEN n + 1 ELSE h[i]]
<1>4. e \in E
  OBVIOUS
<1>5. /\ t \in Seq(E) /\ Len(t) = Len(s) + 1 /\ t[Len(s) + 1] = e
      /\ \A i \in 1 .. Len(s) : t[i] = s[i]
  BY <1>4
<1>6. H \in [1 .. (Len(s) + 1) -> 1 .. (n + 1)]
  BY <1>2
<1>7. /\ H[Len(s) + 1] = n + 1 /\ \A i \in 1 .. Len(s) : H[i] = h[i] /\ H[i] \in 1 .. n
  BY <1>2
<1> HIDE DEF t, H
<1>8. \A i \in 1 .. (Len(s) + 1) : t[i] = l[H[i]]
  BY <1>1, <1>2, <1>5, <1>7
<1>9. \A i, j \in 1 .. (Len(s) + 1) : H[i] = H[j] => i = j
  <2> TAKE i, j \in 1 .. (Len(s) + 1)
  <2>1. i \in 1 .. Len(s) \/ i = Len(s) + 1
    BY <1>2
  <2>2. j \in 1 .. Len(s) \/ j = Len(s) + 1
    BY <1>2
  <2> QED BY <1>1, <1>2, <1>7, <2>1, <2>2
<1>10. Taken(t, l, n + 1)
  <2>1. H \in [1 .. Len(t) -> 1 .. (n + 1)]
    BY <1>5, <1>6
  <2>2. /\ \A i \in 1 .. Len(t) : t[i] = l[H[i]]
        /\ \A i, j \in 1 .. Len(t) : H[i] = H[j] => i = j
    BY <1>5, <1>8, <1>9
  <2> QED BY <2>1, <2>2 DEF Taken
<1> QED BY <1>3, <1>5, <1>10 DEF t

LEMMA CleanupIs ==
  ASSUME NEW E, NEW l \in Seq(E)
  PROVE  W!CleanupList(l) \in Seq(E) /\ Taken(W!CleanupList(l), l, Len(l))
<1> DEFINE N == Len(l)
           g == CHOOSE g : KeptTo(l, N, g)
<1>1. N \in Nat
  OBVIOUS
<1>2. KeptTo(l, N, g)
  <2> HIDE DEF N
  <2> QED BY <1>1, KeptExist
<1>3. W!CleanupList(l) = g[N]
  BY DEF W!CleanupList, KeptTo
<1> HIDE DEF N, g
<1>4. g[0] = <<>> /\ \A k \in 1 .. N : g[k] = IF W!Alive(l[k]) THEN Append(g[k - 1], l[k]) ELSE g[k - 1]
  BY <1>1, <1>2, KeptToIs
<1> DEFINE S == {n \in Nat : n <= N => g[n] \in Seq(E) /\ Taken(g[n], l, n)}
<1>5. 0 \in S
  <2>1. <<>> \in Seq(E) /\ Len(<<>>) = 0
    OBVIOUS
  <2> DEFINE h == [i \in 1 .. 0 |-> i]
  <2>2. h \in [1 .. 0 -> 1 .. 0] /\ \A i \in 1 .. 0 : FALSE
    OBVIOUS
  <2>3. Taken(<<>>, l, 0)
    <3> HIDE DEF h
    <3> QED BY <2>1, <2>2 DEF Taken
  <2> QED BY <1>4, <2>1, <2>3
<1>6. ASSUME NEW n \in Nat, n \in S PROVE n + 1 \in S
  <2> SUFFICES ASSUME n + 1 <= N PROVE g[n + 1] \in Seq(E) /\ Taken(g[n + 1], l, n + 1)
    OBVIOUS
  <2>1. g[n] \in Seq(E) /\ Taken(g[n], l, n) /\ n + 1 \in 1 .. N /\ (n + 1) - 1 = n
    BY <1>1, <1>6
  <2> DEFINE m == n + 1
  <2>2. g[m] = IF W!Alive(l[m]) THEN Append(g[n], l[m]) ELSE g[n]
    BY <1>4, <2>1
  <2>3. /\ Taken(g[n], l, m) /\ Append(g[n], l[m]) \in Seq(E) /\ Taken(Append(g[n], l[m]), l, m)
    BY <2>1, TakenMore DEF N
  <2> HIDE DEF m
  <2>4. g[m] \in Seq(E) /\ Taken(g[m], l, m)
    BY <2>1, <2>2, <2>3
  <2> QED BY <2>4 DEF m
<1> HIDE DEF S
<1>7. N \in S
  BY <1>1, <1>5, <1>6, AllNumbers
<1> QED BY <1>1, <1>3, <1>7 DEF S, N

Wanting == [who : Clients \cup {Ghost}, left : 0 .. Timeout]

\* A client has one entry at most in the list l.
Single(l) == \A c \in Clients : \A i, j \in 1 .. Len(l) : l[i].who = c /\ l[j].who = c => i = j

Waits(l, c) == \E i \in 1 .. Len(l) : l[i].who = c

\* Whoever waits in the list s waits in the list l.
Fewer(s, l) == \A c \in Clients : Waits(s, c) => Waits(l, c)

WaitIInv ==
  /\ W!WaitTypeOK /\ IsFiniteSet(u1) /\ W!WithinMax
  /\ Single(u2) /\ Single(u3)
  /\ \A c \in Clients : ~(Waits(u2, c) /\ Waits(u3, c))
  /\ \A c \in Clients :
       c \in u1 \/ c \in Always \/ MaxPlayers = 0 => ~Waits(u2, c) /\ ~Waits(u3, c)

LEMMA WaitCardinality ==
  ASSUME NEW S PROVE W!Cardinality(S) = Cardinality(S)
BY DEF W!Cardinality, Cardinality

LEMMA SingleIs ==
  ASSUME NEW l \in Seq(Wanting), Single(l), NEW c \in Clients
  PROVE  W!Cardinality({i \in DOMAIN l : l[i].who = c}) = IF Waits(l, c) THEN 1 ELSE 0
<1> DEFINE S == {i \in DOMAIN l : l[i].who = c}
<1>1. DOMAIN l = 1 .. Len(l)
  OBVIOUS
<1>2. CASE Waits(l, c)
  <2>1. PICK i \in 1 .. Len(l) : l[i].who = c
    BY <1>2 DEF Waits
  <2>2. S = {i}
    BY <1>1, <2>1 DEF Single
  <2>3. Cardinality(S) = 1
    BY <2>2, FS_Singleton
  <2> QED BY <1>2, <2>3, WaitCardinality
<1>3. CASE ~Waits(l, c)
  <2>1. S = {}
    BY <1>1, <1>3 DEF Waits
  <2>2. Cardinality(S) = 0
    BY <2>1, FS_EmptySet
  <2> QED BY <1>3, <2>2, WaitCardinality
<1> QED BY <1>2, <1>3

LEMMA WaitIInvImpliesInv ==
  ASSUME WaitIInv PROVE W!WaitInv
<1>1. u2 \in Seq(Wanting) /\ u3 \in Seq(Wanting)
  BY DEF WaitIInv, W!WaitTypeOK, Wanting
<1>2. ASSUME NEW c \in Clients PROVE W!Places(c) <= (IF c \in u1 THEN 0 ELSE 1)
  <2>1. W!Cardinality({i \in DOMAIN u2 : u2[i].who = c}) = IF Waits(u2, c) THEN 1 ELSE 0
    BY <1>1, SingleIs DEF WaitIInv
  <2>2. W!Cardinality({i \in DOMAIN u3 : u3[i].who = c}) = IF Waits(u3, c) THEN 1 ELSE 0
    BY <1>1, SingleIs DEF WaitIInv
  <2> QED BY <2>1, <2>2 DEF WaitIInv, W!Places
<1> QED BY <1>2 DEF WaitIInv, W!WaitInv, W!OnePlaceEach

LEMMA WaitInitIInv ==
  ASSUME W!WaitAssumption, W!Init PROVE WaitIInv
<1>1. u1 = {} /\ u2 = <<>> /\ u3 = <<>>
  BY DEF W!Init
<1>2. Len(u2) = 0 /\ Len(u3) = 0 /\ u2 \in Seq(Wanting) /\ u3 \in Seq(Wanting)
  BY <1>1
<1>3. W!WaitTypeOK
  BY <1>1, <1>2 DEF W!WaitTypeOK, Wanting
<1>4. IsFiniteSet(u1) /\ Cardinality(u1) = 0 /\ u1 \cap Always = u1
  BY <1>1, FS_EmptySet
<1>5. W!WithinMax
  BY <1>4, WaitCardinality DEF W!WithinMax, W!WaitAssumption
<1> QED BY <1>2, <1>3, <1>4, <1>5 DEF WaitIInv, Single, Waits

LEMMA CleanupKeeps ==
  ASSUME NEW l \in Seq(Wanting), Single(l)
  PROVE  /\ W!CleanupList(l) \in Seq(Wanting) /\ Single(W!CleanupList(l))
         /\ Fewer(W!CleanupList(l), l)
<1> DEFINE s == W!CleanupList(l)
<1>1. s \in Seq(Wanting) /\ Taken(s, l, Len(l))
  BY CleanupIs
<1> HIDE DEF s
<1>2. PICK h \in [1 .. Len(s) -> 1 .. Len(l)] :
         /\ \A i \in 1 .. Len(s) : s[i] = l[h[i]]
         /\ \A i, j \in 1 .. Len(s) : h[i] = h[j] => i = j
  BY <1>1 DEF Taken
<1>3. Single(s)
  BY <1>2 DEF Single
<1>4. Fewer(s, l)
  BY <1>2 DEF Fewer, Waits
<1> QED BY <1>1, <1>3, <1>4 DEF s

\* An entry is taken out of the list, loses its name, or is put at its end.
LEMMA EraseKeeps ==
  ASSUME NEW l \in Seq(Wanting), Single(l), NEW c \in Clients, NEW i \in 1 .. Len(l), l[i].who = c
  PROVE  /\ W!TakeOut(l, i) \in Seq(Wanting) /\ Single(W!TakeOut(l, i))
         /\ Fewer(W!TakeOut(l, i), l) /\ ~Waits(W!TakeOut(l, i), c)
<1> DEFINE x == SubSeq(l, 1, i - 1)
           y == SubSeq(l, i + 1, Len(l))
           s == x \o y
<1>1. W!TakeOut(l, i) = s
  BY DEF W!TakeOut, W!Erase, W!RemoveAt
<1>2. /\ x \in Seq(Wanting) /\ Len(x) = i - 1 /\ \A k \in 1 .. (i - 1) : x[k] = l[k]
  OBVIOUS
<1>3. /\ y \in Seq(Wanting) /\ Len(y) = Len(l) - i /\ \A k \in 1 .. (Len(l) - i) : y[k] = l[i + k]
  OBVIOUS
<1> HIDE DEF x, y
<1>4. s \in Seq(Wanting) /\ Len(s) = Len(l) - 1
  <2>1. x \in Seq(Wanting) /\ y \in Seq(Wanting) /\ Len(x) = i - 1 /\ Len(y) = Len(l) - i
    BY <1>2, <1>3
  <2>2. s \in Seq(Wanting) /\ Len(s) = Len(x) + Len(y)
    BY <2>1, ConcatProperties
  <2> HIDE DEF s
  <2> QED BY <2>1, <2>2
<1>5. ASSUME NEW k \in 1 .. Len(s) PROVE s[k] = IF k < i THEN l[k] ELSE l[k + 1]
  <2>1. x \in Seq(Wanting) /\ y \in Seq(Wanting) /\ Len(x) = i - 1 /\ Len(y) = Len(l) - i
    BY <1>2, <1>3
  <2>2. k \in 1 .. Len(x) + Len(y) /\ k \in 1 .. (Len(l) - 1)
    BY <1>4, <2>1
  <2>3. s[k] = IF k <= Len(x) THEN x[k] ELSE y[k - Len(x)]
    BY <2>1, <2>2, ConcatProperties
  <2> HIDE DEF s
  <2>4. CASE k < i
    BY <1>2, <2>1, <2>2, <2>3, <2>4
  <2>5. CASE k >= i
    <3> DEFINE m == k - (i - 1)
    <3>1. m \in 1 .. (Len(l) - i) /\ i + m = k + 1 /\ ~(k <= Len(x)) /\ m = k - Len(x)
      BY <2>1, <2>2, <2>5
    <3> HIDE DEF m
    <3>2. y[m] = l[i + m]
      BY <1>3, <3>1
    <3> QED BY <2>2, <2>3, <2>5, <3>1, <3>2
  <2> QED BY <2>2, <2>4, <2>5
<1> HIDE DEF s
<1>6. \A k \in 1 .. Len(s) : /\ k < i => k \in 1 .. Len(l)
                             /\ k >= i => k + 1 \in 1 .. Len(l)
                             /\ (IF k < i THEN k ELSE k + 1) \in 1 .. Len(l) \ {i}
  BY <1>4
<1>7. Fewer(s, l)
  BY <1>5, <1>6 DEF Fewer, Waits
<1>8. ~Waits(s, c)
  <2> SUFFICES ASSUME NEW k \in 1 .. Len(s), s[k].who = c PROVE FALSE
    BY DEF Waits
  <2> DEFINE j == IF k < i THEN k ELSE k + 1
  <2>1. j \in 1 .. Len(l) /\ j # i /\ l[j] = s[k]
    BY <1>5, <1>6
  <2> HIDE DEF j
  <2> QED BY <2>1 DEF Single
<1>9. Single(s)
  <2> SUFFICES ASSUME NEW d \in Clients, NEW k \in 1 .. Len(s), NEW m \in 1 .. Len(s),
                      s[k].who = d, s[m].who = d
               PROVE  k = m
    BY DEF Single
  <2> DEFINE j == IF k < i THEN k ELSE k + 1
             o == IF m < i THEN m ELSE m + 1
  <2>1. j \in 1 .. Len(l) /\ l[j] = s[k] /\ o \in 1 .. Len(l) /\ l[o] = s[m]
    BY <1>5, <1>6
  <2>2. j = o => k = m
    OBVIOUS
  <2> HIDE DEF j, o
  <2>3. j = o
    BY <2>1 DEF Single
  <2> QED BY <2>2, <2>3
<1> QED BY <1>1, <1>4, <1>7, <1>8, <1>9

LEMMA LongerKeeps ==
  ASSUME W!WaitAssumption, NEW l \in Seq(Wanting), Single(l), NEW i \in 1 .. Len(l)
  PROVE  /\ W!WaitLonger(l, i) \in Seq(Wanting) /\ Single(W!WaitLonger(l, i))
         /\ Fewer(W!WaitLonger(l, i), l)
<1> DEFINE e == [l[i] EXCEPT !.who = Ghost]
           s == [l EXCEPT ![i] = e]
<1>1. W!WaitLonger(l, i) = s
  BY DEF W!WaitLonger
<1>2. e \in Wanting /\ e.who = Ghost /\ Ghost \notin Clients
  <2>1. l[i] \in Wanting /\ Ghost \notin Clients
    BY DEF W!WaitAssumption
  <2> QED BY <2>1 DEF Wanting
<1> HIDE DEF e
<1>3. s \in Seq(Wanting) /\ Len(s) = Len(l) /\ \A k \in 1 .. Len(l) : s[k] = IF k = i THEN e ELSE l[k]
  BY <1>2
<1> HIDE DEF s
<1>4. Single(s) /\ Fewer(s, l)
  BY <1>2, <1>3 DEF Single, Fewer, Waits
<1> QED BY <1>1, <1>3, <1>4

LEMMA AppendKeeps ==
  ASSUME NEW l \in Seq(Wanting), Single(l), NEW c \in Clients, ~Waits(l, c),
         NEW e \in Wanting, e.who = c
  PROVE  /\ Append(l, e) \in Seq(Wanting) /\ Single(Append(l, e))
         /\ \A d \in Clients : Waits(Append(l, e), d) => d = c \/ Waits(l, d)
<1> DEFINE s == Append(l, e)
<1>1. /\ s \in Seq(Wanting) /\ Len(s) = Len(l) + 1 /\ s[Len(l) + 1] = e
      /\ \A k \in 1 .. Len(l) : s[k] = l[k]
  OBVIOUS
<1> HIDE DEF s
<1>2. \A k \in 1 .. Len(s) : k \in 1 .. Len(l) \/ k = Len(l) + 1
  BY <1>1
<1>3. Single(s)
  BY <1>1, <1>2 DEF Single, Waits
<1>4. \A d \in Clients : Waits(s, d) => d = c \/ Waits(l, d)
  BY <1>1, <1>2 DEF Waits
<1> QED BY <1>1, <1>3, <1>4 DEF s

LEMMA TickKeeps ==
  ASSUME W!WaitAssumption, NEW l \in Seq(Wanting), Single(l)
  PROVE  LET s == [i \in DOMAIN l |-> [l[i] EXCEPT !.left = W!Less(@)]]
         IN  s \in Seq(Wanting) /\ Single(s) /\ Fewer(s, l)
<1> DEFINE s == [i \in DOMAIN l |-> [l[i] EXCEPT !.left = W!Less(@)]]
<1>1. DOMAIN l = 1 .. Len(l) /\ Len(l) \in Nat
  OBVIOUS
<1>2. ASSUME NEW i \in 1 .. Len(l) PROVE s[i] \in Wanting /\ s[i].who = l[i].who
  <2>1. l[i] \in Wanting /\ s[i] = [l[i] EXCEPT !.left = W!Less(l[i].left)]
    BY <1>1
  <2>2. l[i].left \in 0 .. Timeout => W!Less(l[i].left) \in 0 .. Timeout
    BY DEF W!Less, W!WaitAssumption
  <2> QED BY <2>1, <2>2 DEF Wanting
<1>3. s \in [1 .. Len(l) -> Wanting]
  <2>1. \A i \in 1 .. Len(l) : [l[i] EXCEPT !.left = W!Less(@)] \in Wanting
    BY <1>1, <1>2
  <2> QED BY <1>1, <2>1
<1> HIDE DEF s
<1>4. s \in Seq(Wanting) /\ Len(s) = Len(l)
  BY <1>1, <1>3, SeqDef, LenProperties
<1>5. Single(s) /\ Fewer(s, l)
  BY <1>2, <1>4 DEF Single, Fewer, Waits
<1> QED BY <1>4, <1>5 DEF s

\* The lists p and w are as in WaitIInv for those who play in on.
InOrder(on, p, w) ==
  /\ p \in Seq(Wanting) /\ w \in Seq(Wanting) /\ Single(p) /\ Single(w)
  /\ \A c \in Clients : ~(Waits(p, c) /\ Waits(w, c))
  /\ \A c \in Clients :
       c \in on \/ c \in Always \/ MaxPlayers = 0 => ~Waits(p, c) /\ ~Waits(w, c)

Within(on) == MaxPlayers # 0 => Cardinality(on) <= MaxPlayers + Cardinality(on \cap Always)

LEMMA WaitIInvIs ==
  WaitIInv <=> /\ u1 \in SUBSET Clients /\ IsFiniteSet(u1) /\ Within(u1) /\ InOrder(u1, u2, u3)
BY WaitCardinality DEF WaitIInv, W!WaitTypeOK, W!WithinMax, Within, InOrder, Wanting

\* One more plays: he may always come, or there is a place.
LEMMA EnterFits ==
  ASSUME W!WaitAssumption, IsFiniteSet(u1), Within(u1), NEW c, c \notin u1,
         c \in Always \/ Cardinality(u1) < MaxPlayers \/ MaxPlayers = 0
  PROVE  IsFiniteSet(u1 \cup {c}) /\ Within(u1 \cup {c})
<1>1. /\ IsFiniteSet(u1 \cup {c}) /\ Cardinality(u1 \cup {c}) = Cardinality(u1) + 1
      /\ Cardinality(u1) \in Nat
  BY FS_AddElement, FS_CardinalityType
<1>2. IsFiniteSet(u1 \cap Always) /\ Cardinality(u1 \cap Always) \in Nat
  BY FS_Subset, FS_CardinalityType
<1>3. IsFiniteSet((u1 \cup {c}) \cap Always) /\ Cardinality((u1 \cup {c}) \cap Always) \in Nat
  BY <1>1, FS_Subset, FS_CardinalityType
<1>4. CASE c \in Always
  <2>1. (u1 \cup {c}) \cap Always = (u1 \cap Always) \cup {c} /\ c \notin u1 \cap Always
    BY <1>4
  <2>2. Cardinality((u1 \cup {c}) \cap Always) = Cardinality(u1 \cap Always) + 1
    BY <1>2, <2>1, FS_AddElement
  <2> QED BY <1>1, <1>2, <2>2 DEF Within, W!WaitAssumption
<1>5. CASE c \notin Always
  BY <1>1, <1>3, <1>5 DEF Within, W!WaitAssumption
<1> QED BY <1>4, <1>5

LEMMA LeaveFits ==
  ASSUME W!WaitAssumption, IsFiniteSet(u1), Within(u1), NEW c \in u1
  PROVE  IsFiniteSet(u1 \ {c}) /\ Within(u1 \ {c})
<1>1. /\ IsFiniteSet(u1 \ {c}) /\ Cardinality(u1 \ {c}) = Cardinality(u1) - 1
      /\ Cardinality(u1) \in Nat
  BY FS_RemoveElement, FS_CardinalityType
<1>2. IsFiniteSet(u1 \cap Always) /\ Cardinality(u1 \cap Always) \in Nat
  BY FS_Subset, FS_CardinalityType
<1>3. (u1 \ {c}) \cap Always = (u1 \cap Always) \ {c}
  OBVIOUS
<1>4. CASE c \in Always
  <2>1. Cardinality((u1 \cap Always) \ {c}) = Cardinality(u1 \cap Always) - 1
    BY <1>2, <1>4, FS_RemoveElement
  <2> QED BY <1>1, <1>2, <1>3, <2>1 DEF Within, W!WaitAssumption
<1>5. CASE c \notin Always
  <2>1. (u1 \cap Always) \ {c} = u1 \cap Always
    BY <1>5
  <2> QED BY <1>1, <1>2, <1>3, <2>1 DEF Within, W!WaitAssumption
<1> QED BY <1>4, <1>5

\* The place findClient finds, and how far from the end it is.
LEMMA AtIs ==
  ASSUME NEW l \in Seq(Wanting), Single(l), NEW c \in Clients, W!Has(l, c)
  PROVE  /\ W!At(l, c) \in 1 .. Len(l) /\ l[W!At(l, c)].who = c
         /\ W!FromEnd(l, W!At(l, c)) \in Nat /\ W!FromEnd(l, W!At(l, c)) >= 2
<1>1. DOMAIN l = 1 .. Len(l) /\ Len(l) \in Nat
  OBVIOUS
<1>2. PICK i \in 1 .. Len(l) : l[i].who = c
  BY <1>1 DEF W!Has
<1>3. \A j \in 1 .. (i - 1) : l[j].who # c
  <2> SUFFICES ASSUME NEW j \in 1 .. (i - 1), l[j].who = c PROVE FALSE
    OBVIOUS
  <2>1. j \in 1 .. Len(l) /\ j # i
    OBVIOUS
  <2> QED BY <1>2, <2>1 DEF Single
<1>4. W!At(l, c) \in 1 .. Len(l) /\ l[W!At(l, c)].who = c
  BY <1>1, <1>2, <1>3 DEF W!At
<1> QED BY <1>4 DEF W!FromEnd

LEMMA HasIs ==
  ASSUME NEW l \in Seq(Wanting), NEW c PROVE W!Has(l, c) <=> Waits(l, c)
BY DEF W!Has, Waits

LEMMA LoginIInv ==
  ASSUME W!WaitAssumption, WaitIInv, NEW c \in Clients, W!ClientLogin(c)
  PROVE  WaitIInv'
<1> DEFINE p == W!CleanupList(u2)
           w == W!CleanupList(u3)
           full == MaxPlayers # 0 /\ (p # <<>> \/ w # <<>> \/ Cardinality(u1) >= MaxPlayers)
           slot == IF W!Has(p, c) THEN W!FromEnd(p, W!At(p, c)) ELSE Len(p) + W!FromEnd(w, W!At(w, c))
<1>1. u1 \in SUBSET Clients /\ IsFiniteSet(u1) /\ Within(u1) /\ InOrder(u1, u2, u3)
  BY WaitIInvIs
<1>2. /\ c \notin u1
      /\ \/ c \in Always /\ W!Enter(c) /\ UNCHANGED <<u2, u3>>
         \/ c \notin Always /\ ~full /\ W!Enter(c) /\ u2' = p /\ u3' = w
         \/ /\ c \notin Always /\ full /\ (W!Has(p, c) \/ W!Has(w, c))
            /\ IF Cardinality(u1) + slot <= MaxPlayers
               THEN /\ W!Enter(c)
                    /\ u2' = IF W!Has(p, c) THEN W!TakeOut(p, W!At(p, c)) ELSE p
                    /\ u3' = IF W!Has(p, c) THEN w ELSE W!TakeOut(w, W!At(w, c))
               ELSE /\ UNCHANGED u1
                    /\ u2' = IF W!Has(p, c) THEN W!WaitLonger(p, W!At(p, c)) ELSE p
                    /\ u3' = IF W!Has(p, c) THEN w ELSE W!WaitLonger(w, W!At(w, c))
         \/ /\ c \notin Always /\ full /\ ~W!Has(p, c) /\ ~W!Has(w, c)
            /\ UNCHANGED u1
            /\ IF c \in Premium THEN u2' = Append(p, W!Entry(c)) /\ u3' = w
               ELSE u3' = Append(w, W!Entry(c)) /\ u2' = p
  BY WaitCardinality DEF W!ClientLogin
<1>3. /\ p \in Seq(Wanting) /\ Single(p) /\ Fewer(p, u2)
      /\ w \in Seq(Wanting) /\ Single(w) /\ Fewer(w, u3)
  BY <1>1, CleanupKeeps DEF InOrder
<1>4. InOrder(u1, p, w)
  <2> HIDE DEF p, w
  <2> QED BY <1>1, <1>3 DEF InOrder, Fewer
<1>5. MaxPlayers \in Nat /\ Cardinality(u1) \in Nat
  BY <1>1, FS_CardinalityType DEF W!WaitAssumption
<1> SUFFICES u1' \in SUBSET Clients /\ IsFiniteSet(u1') /\ Within(u1') /\ InOrder(u1', u2', u3')
  BY WaitCardinality DEF WaitIInv, W!WaitTypeOK, W!WithinMax, Within, InOrder, Wanting
<1>6. CASE c \in Always /\ W!Enter(c) /\ UNCHANGED <<u2, u3>>
  <2>1. u1' = u1 \cup {c} /\ u2' = u2 /\ u3' = u3
    BY <1>6 DEF W!Enter
  <2>2. IsFiniteSet(u1') /\ Within(u1')
    BY <1>1, <1>2, <1>6, <2>1, EnterFits
  <2>3. InOrder(u1', u2', u3')
    BY <1>1, <1>6, <2>1 DEF InOrder
  <2> QED BY <1>1, <2>1, <2>2, <2>3
<1>7. CASE c \notin Always /\ ~full /\ W!Enter(c) /\ u2' = p /\ u3' = w
  <2>1. u1' = u1 \cup {c}
    BY <1>7 DEF W!Enter
  <2>2. IsFiniteSet(u1') /\ Within(u1')
    BY <1>1, <1>2, <1>5, <1>7, <2>1, EnterFits
  <2>3. ~Waits(p, c) /\ ~Waits(w, c)
    <3>1. CASE MaxPlayers = 0
      BY <1>4, <3>1 DEF InOrder
    <3>2. CASE p = <<>> /\ w = <<>>
      <4>1. Len(<<>>) = 0
        OBVIOUS
      <4>2. Len(p) = 0 /\ Len(w) = 0
        BY <3>2, <4>1
      <4> HIDE DEF p, w
      <4> QED BY <4>2 DEF Waits
    <3> QED BY <1>7, <3>1, <3>2
  <2>4. InOrder(u1', u2', u3')
    <3> HIDE DEF p, w
    <3> QED BY <1>4, <1>7, <2>1, <2>3 DEF InOrder
  <2> QED BY <1>1, <2>1, <2>2, <2>4
<1>8. CASE /\ full /\ (W!Has(p, c) \/ W!Has(w, c))
           /\ Cardinality(u1) + slot <= MaxPlayers
           /\ W!Enter(c)
           /\ u2' = IF W!Has(p, c) THEN W!TakeOut(p, W!At(p, c)) ELSE p
           /\ u3' = IF W!Has(p, c) THEN w ELSE W!TakeOut(w, W!At(w, c))
  <2>1. u1' = u1 \cup {c}
    BY <1>8 DEF W!Enter
  <2>2. slot \in Nat /\ slot >= 2
    <3> HIDE DEF p, w
    <3>1. CASE W!Has(p, c)
      BY <1>3, <3>1, AtIs
    <3>2. CASE ~W!Has(p, c)
      <4>1. W!FromEnd(w, W!At(w, c)) \in Nat /\ W!FromEnd(w, W!At(w, c)) >= 2
        BY <1>3, <1>8, <3>2, AtIs
      <4>2. Len(p) \in Nat
        BY <1>3
      <4> QED BY <3>2, <4>1, <4>2
    <3> QED BY <3>1, <3>2
  <2>3. Cardinality(u1) < MaxPlayers
    <3> HIDE DEF slot
    <3> QED BY <1>5, <1>8, <2>2
  <2>4. IsFiniteSet(u1') /\ Within(u1')
    BY <1>1, <1>2, <2>1, <2>3, EnterFits
  <2> HIDE DEF p, w, full, slot
  <2>5. /\ u2' \in Seq(Wanting) /\ Single(u2') /\ Fewer(u2', p)
        /\ u3' \in Seq(Wanting) /\ Single(u3') /\ Fewer(u3', w)
        /\ ~Waits(u2', c) /\ ~Waits(u3', c)
    <3>1. CASE W!Has(p, c)
      <4>1. W!At(p, c) \in 1 .. Len(p) /\ p[W!At(p, c)].who = c
        BY <1>3, <3>1, AtIs
      <4>2. /\ W!TakeOut(p, W!At(p, c)) \in Seq(Wanting) /\ Single(W!TakeOut(p, W!At(p, c)))
            /\ Fewer(W!TakeOut(p, W!At(p, c)), p) /\ ~Waits(W!TakeOut(p, W!At(p, c)), c)
        BY <1>3, <4>1, EraseKeeps
      <4>3. ~Waits(w, c)
        BY <1>3, <1>4, <3>1, HasIs DEF InOrder
      <4> QED BY <1>3, <1>8, <3>1, <4>2, <4>3 DEF Fewer
    <3>2. CASE ~W!Has(p, c)
      <4>1. W!At(w, c) \in 1 .. Len(w) /\ w[W!At(w, c)].who = c
        BY <1>3, <1>8, <3>2, AtIs
      <4>2. /\ W!TakeOut(w, W!At(w, c)) \in Seq(Wanting) /\ Single(W!TakeOut(w, W!At(w, c)))
            /\ Fewer(W!TakeOut(w, W!At(w, c)), w) /\ ~Waits(W!TakeOut(w, W!At(w, c)), c)
        BY <1>3, <4>1, EraseKeeps
      <4>3. ~Waits(p, c)
        BY <1>3, <3>2, HasIs
      <4> QED BY <1>3, <1>8, <3>2, <4>2, <4>3 DEF Fewer
    <3> QED BY <3>1, <3>2
  <2>6. InOrder(u1', u2', u3')
    BY <1>4, <2>1, <2>5 DEF InOrder, Fewer
  <2> QED BY <1>1, <2>1, <2>4, <2>6
<1>9. CASE /\ full /\ (W!Has(p, c) \/ W!Has(w, c))
           /\ UNCHANGED u1
           /\ u2' = IF W!Has(p, c) THEN W!WaitLonger(p, W!At(p, c)) ELSE p
           /\ u3' = IF W!Has(p, c) THEN w ELSE W!WaitLonger(w, W!At(w, c))
  <2> HIDE DEF p, w, full, slot
  <2>1. /\ u2' \in Seq(Wanting) /\ Single(u2') /\ Fewer(u2', p)
        /\ u3' \in Seq(Wanting) /\ Single(u3') /\ Fewer(u3', w)
    <3>1. CASE W!Has(p, c)
      <4>1. W!At(p, c) \in 1 .. Len(p)
        BY <1>3, <3>1, AtIs
      <4>2. /\ W!WaitLonger(p, W!At(p, c)) \in Seq(Wanting) /\ Single(W!WaitLonger(p, W!At(p, c)))
            /\ Fewer(W!WaitLonger(p, W!At(p, c)), p)
        BY <1>3, <4>1, LongerKeeps
      <4> QED BY <1>3, <1>9, <3>1, <4>2 DEF Fewer
    <3>2. CASE ~W!Has(p, c)
      <4>1. W!At(w, c) \in 1 .. Len(w)
        BY <1>3, <1>9, <3>2, AtIs
      <4>2. /\ W!WaitLonger(w, W!At(w, c)) \in Seq(Wanting) /\ Single(W!WaitLonger(w, W!At(w, c)))
            /\ Fewer(W!WaitLonger(w, W!At(w, c)), w)
        BY <1>3, <4>1, LongerKeeps
      <4> QED BY <1>3, <1>9, <3>2, <4>2 DEF Fewer
    <3> QED BY <3>1, <3>2
  <2>2. InOrder(u1', u2', u3')
    BY <1>4, <1>9, <2>1 DEF InOrder, Fewer
  <2> QED BY <1>1, <1>9, <2>2
<1>10. CASE /\ c \notin Always /\ full /\ ~W!Has(p, c) /\ ~W!Has(w, c)
            /\ UNCHANGED u1
            /\ IF c \in Premium THEN u2' = Append(p, W!Entry(c)) /\ u3' = w
               ELSE u3' = Append(w, W!Entry(c)) /\ u2' = p
  <2>0. MaxPlayers # 0
    BY <1>10
  <2> HIDE DEF p, w, full, slot
  <2>1. W!Entry(c) \in Wanting /\ W!Entry(c).who = c
    BY DEF W!Entry, Wanting, W!WaitAssumption
  <2>2. ~Waits(p, c) /\ ~Waits(w, c)
    BY <1>3, <1>10, HasIs
  <2>3. CASE c \in Premium
    <3>1. /\ u2' \in Seq(Wanting) /\ Single(u2') /\ u3' = w
          /\ \A d \in Clients : Waits(u2', d) => d = c \/ Waits(p, d)
      <4> DEFINE e == W!Entry(c)
      <4>1. e \in Wanting /\ e.who = c /\ u2' = Append(p, e) /\ u3' = w
        BY <1>10, <2>1, <2>3
      <4> HIDE DEF e
      <4>2. /\ Append(p, e) \in Seq(Wanting) /\ Single(Append(p, e))
            /\ \A d \in Clients : Waits(Append(p, e), d) => d = c \/ Waits(p, d)
        BY <1>3, <2>2, <4>1, AppendKeeps
      <4> QED BY <4>1, <4>2
    <3>2. InOrder(u1', u2', u3')
      BY <1>2, <1>4, <1>10, <2>0, <2>2, <3>1 DEF InOrder
    <3> QED BY <1>1, <1>10, <3>2
  <2>4. CASE c \notin Premium
    <3>1. /\ u3' \in Seq(Wanting) /\ Single(u3') /\ u2' = p
          /\ \A d \in Clients : Waits(u3', d) => d = c \/ Waits(w, d)
      <4> DEFINE e == W!Entry(c)
      <4>1. e \in Wanting /\ e.who = c /\ u3' = Append(w, e) /\ u2' = p
        BY <1>10, <2>1, <2>4
      <4> HIDE DEF e
      <4>2. /\ Append(w, e) \in Seq(Wanting) /\ Single(Append(w, e))
            /\ \A d \in Clients : Waits(Append(w, e), d) => d = c \/ Waits(w, d)
        BY <1>3, <2>2, <4>1, AppendKeeps
      <4> QED BY <4>1, <4>2
    <3>2. InOrder(u1', u2', u3')
      BY <1>2, <1>4, <1>10, <2>0, <2>2, <3>1 DEF InOrder
    <3> QED BY <1>1, <1>10, <3>2
  <2> QED BY <2>3, <2>4
<1> HIDE DEF p, w, full, slot
<1> QED BY <1>2, <1>6, <1>7, <1>8, <1>9, <1>10

LEMMA WaitStepIInv ==
  ASSUME W!WaitAssumption, WaitIInv, [W!Next]_(W!vars) PROVE WaitIInv'
<1>0. u1 \in SUBSET Clients /\ IsFiniteSet(u1) /\ Within(u1) /\ InOrder(u1, u2, u3)
  BY WaitIInvIs
<1>1. ASSUME NEW c \in Clients, W!ClientLogin(c) PROVE WaitIInv'
  BY <1>1, LoginIInv
<1>2. CASE UNCHANGED <<u1, u2, u3>>
  BY <1>2 DEF WaitIInv, W!WaitTypeOK, W!WithinMax, Single, Waits
<1>3. ASSUME u1' \in SUBSET Clients, IsFiniteSet(u1'), Within(u1'), InOrder(u1', u2', u3')
      PROVE  WaitIInv'
  BY <1>3, WaitCardinality DEF WaitIInv, W!WaitTypeOK, W!WithinMax, Within, InOrder, Wanting
<1>4. ASSUME NEW c \in Clients, W!Leave(c) PROVE WaitIInv'
  <2>1. c \in u1 /\ u1' = u1 \ {c} /\ u2' = u2 /\ u3' = u3
    BY <1>4 DEF W!Leave
  <2>2. IsFiniteSet(u1') /\ Within(u1')
    BY <1>0, <2>1, LeaveFits
  <2>3. u1' \in SUBSET Clients /\ InOrder(u1', u2', u3')
    BY <1>0, <2>1 DEF InOrder
  <2> QED BY <1>3, <2>2, <2>3
<1>5. CASE W!Tick
  <2>1. /\ u1' = u1
        /\ u2' = [i \in DOMAIN u2 |-> [u2[i] EXCEPT !.left = W!Less(@)]]
        /\ u3' = [i \in DOMAIN u3 |-> [u3[i] EXCEPT !.left = W!Less(@)]]
    BY <1>5 DEF W!Tick
  <2>2. u2' \in Seq(Wanting) /\ Single(u2') /\ Fewer(u2', u2)
    BY <1>0, <2>1, TickKeeps DEF InOrder
  <2>3. u3' \in Seq(Wanting) /\ Single(u3') /\ Fewer(u3', u3)
    BY <1>0, <2>1, TickKeeps DEF InOrder
  <2>4. InOrder(u1', u2', u3')
    BY <1>0, <2>1, <2>2, <2>3 DEF InOrder, Fewer
  <2> QED BY <1>0, <1>3, <2>1, <2>4
<1> QED BY <1>1, <1>2, <1>4, <1>5 DEF W!Next, W!vars

-----------------------------------------------------------------------------
(* Who is credited with a kill (Kills). Sums over sets of numbers come     *)
(* first: one is what any of its members adds to the sum of the others.    *)

SumStep(w, it, s) ==
  IF s = {} THEN 0 ELSE w[CHOOSE x \in s : TRUE] + it[s \ {CHOOSE x \in s : TRUE}]
SumsUp(w, S, it) == it = [s \in SUBSET S |-> SumStep(w, it, s)]
SumsUpTo(w, S, it, n) ==
  \A s \in SUBSET S : Cardinality(s) <= n => it[s] = SumStep(w, it, s)
SumOver(w, S) == K!MapThenSumSet(LAMBDA x : w[x], S)

LEMMA SubsetsAreSmaller ==
  ASSUME NEW S, IsFiniteSet(S), NEW s \in SUBSET S, s # {}
  PROVE  /\ (CHOOSE x \in s : TRUE) \in s
         /\ s \ {CHOOSE x \in s : TRUE} \in SUBSET S
         /\ Cardinality(s) \in Nat
         /\ Cardinality(s \ {CHOOSE x \in s : TRUE}) = Cardinality(s) - 1
         /\ Cardinality(s) <= Cardinality(S)
<1>1. (CHOOSE x \in s : TRUE) \in s
  OBVIOUS
<1>2. IsFiniteSet(s) /\ Cardinality(s) \in Nat /\ Cardinality(s) <= Cardinality(S)
  BY FS_Subset, FS_CardinalityType
<1>3. Cardinality(s \ {CHOOSE x \in s : TRUE}) = Cardinality(s) - 1
  BY <1>1, <1>2, FS_RemoveElement
<1> QED BY <1>1, <1>2, <1>3

LEMMA SumsUpIs ==
  ASSUME NEW w, NEW S, NEW it, SumsUp(w, S, it)
  PROVE  \A s \in SUBSET S : it[s] = SumStep(w, it, s)
<1>1. it = [s \in SUBSET S |-> SumStep(w, it, s)]
  BY DEF SumsUp
<1> QED BY <1>1

\* A set of sizes that has 0 and the next of each has the size of every subset.
LEMMA SumExists ==
  ASSUME NEW w, NEW S, IsFiniteSet(S) PROVE \E it : SumsUp(w, S, it)
<1> DEFINE N == {n \in Nat : \E it : SumsUpTo(w, S, it, n)}
           pick(s) == CHOOSE x \in s : TRUE
<1>1. 0 \in N
  <2> DEFINE it == [s \in SUBSET S |-> 0]
  <2>1. \A s \in SUBSET S : Cardinality(s) <= 0 => s = {}
    BY FS_Subset, FS_EmptySet, FS_CardinalityType
  <2>2. SumsUpTo(w, S, it, 0)
    BY <2>1 DEF SumsUpTo, SumStep
  <2> QED BY <2>2
<1>2. ASSUME NEW n \in Nat, n \in N PROVE n + 1 \in N
  <2>1. PICK it : SumsUpTo(w, S, it, n)
    BY <1>2
  <2> DEFINE jt == [s \in SUBSET S |-> IF Cardinality(s) <= n THEN it[s] ELSE SumStep(w, it, s)]
  <2>2. ASSUME NEW s \in SUBSET S, Cardinality(s) <= n + 1 PROVE jt[s] = SumStep(w, jt, s)
    <3>1. jt[s] = SumStep(w, it, s)
      BY <2>1 DEF SumsUpTo
    <3>2. CASE s = {}
      BY <3>1, <3>2 DEF SumStep
    <3>3. CASE s # {}
      <4>1. pick(s) \in s /\ s \ {pick(s)} \in SUBSET S /\ Cardinality(s \ {pick(s)}) = Cardinality(s) - 1
            /\ Cardinality(s) \in Nat
        BY <3>3, SubsetsAreSmaller
      <4>2. Cardinality(s \ {pick(s)}) <= n
        BY <2>2, <4>1
      <4>3. jt[s \ {pick(s)}] = it[s \ {pick(s)}]
        BY <4>1, <4>2
      <4> HIDE DEF jt
      <4> QED BY <3>1, <3>3, <4>3 DEF SumStep
    <3> QED BY <3>2, <3>3
  <2> HIDE DEF jt
  <2>3. SumsUpTo(w, S, jt, n + 1)
    BY <2>2 DEF SumsUpTo
  <2> QED BY <2>3
<1>3. Nat \subseteq N
  <2> HIDE DEF N
  <2> QED BY <1>1, <1>2, AllNumbers
<1>4. PICK it : SumsUpTo(w, S, it, Cardinality(S))
  BY <1>3, FS_CardinalityType
<1> DEFINE jt == [s \in SUBSET S |-> it[s]]
<1>5. ASSUME NEW s \in SUBSET S PROVE jt[s] = SumStep(w, jt, s)
  <2>1. Cardinality(s) <= Cardinality(S)
    BY FS_Subset
  <2>2. jt[s] = SumStep(w, it, s)
    BY <1>4, <2>1 DEF SumsUpTo
  <2>3. CASE s = {}
    BY <2>2, <2>3 DEF SumStep
  <2>4. CASE s # {}
    <3>1. s \ {pick(s)} \in SUBSET S
      OBVIOUS
    <3>2. jt[s \ {pick(s)}] = it[s \ {pick(s)}]
      BY <3>1
    <3> HIDE DEF jt
    <3> QED BY <2>2, <2>4, <3>2 DEF SumStep
  <2> QED BY <2>3, <2>4
<1>6. SumsUp(w, S, jt)
  <2>1. jt = [s \in SUBSET S |-> jt[s]]
    OBVIOUS
  <2>2. [s \in SUBSET S |-> jt[s]] = [s \in SUBSET S |-> SumStep(w, jt, s)]
    BY <1>5
  <2> QED BY <2>1, <2>2 DEF SumsUp
<1> QED BY <1>6

\* Two ways to sum up agree on the sets where both sum the same numbers.
LEMMA SumsAgree ==
  ASSUME NEW S, IsFiniteSet(S), NEW R \in SUBSET S, NEW w, NEW v, \A x \in R : w[x] = v[x],
         NEW it, SumsUp(w, S, it), NEW jt, SumsUp(v, R, jt)
  PROVE  it[R] = jt[R]
<1> DEFINE Same(s) == it[s] = jt[s]
           N == {n \in Nat : \A s \in SUBSET R : Cardinality(s) = n => Same(s)}
           pick(s) == CHOOSE x \in s : TRUE
<1>0. (\A s \in SUBSET S : it[s] = SumStep(w, it, s)) /\ (\A s \in SUBSET R : jt[s] = SumStep(v, jt, s))
  BY SumsUpIs
<1>a. IsFiniteSet(R)
  BY FS_Subset
<1>1. 0 \in N
  <2>1. \A s \in SUBSET R : Cardinality(s) = 0 => s = {}
    BY <1>a, FS_Subset, FS_EmptySet
  <2>2. it[{}] = 0 /\ jt[{}] = 0
    BY <1>0 DEF SumStep
  <2> QED BY <2>1, <2>2
<1>2. ASSUME NEW n \in Nat, n \in N PROVE n + 1 \in N
  <2> SUFFICES ASSUME NEW s \in SUBSET R, Cardinality(s) = n + 1 PROVE Same(s)
    OBVIOUS
  <2>1. s # {}
    BY FS_EmptySet
  <2> DEFINE c == pick(s)
             r == s \ {c}
  <2>2. c \in s /\ r \in SUBSET R /\ Cardinality(r) = n
    BY <1>a, <2>1, SubsetsAreSmaller
  <2>3. it[s] = w[c] + it[r] /\ jt[s] = v[c] + jt[r]
    BY <1>0, <2>1 DEF SumStep
  <2>4. Same(r)
    BY <1>2, <2>2
  <2> HIDE DEF c
  <2> QED BY <2>2, <2>3, <2>4
<1>3. Nat \subseteq N
  <2> HIDE DEF N
  <2> QED BY <1>1, <1>2, AllNumbers
<1> QED BY <1>3, <1>a, FS_CardinalityType

LEMMA SumOverIs ==
  ASSUME NEW w, NEW S, IsFiniteSet(S)
  PROVE  \E it : SumsUp(w, S, it) /\ SumOver(w, S) = it[S]
<1> DEFINE it == CHOOSE f : SumsUp(w, S, f)
<1>1. SumsUp(w, S, it)
  BY SumExists
<1>2. SumOver(w, S) = it[S]
  BY DEF SumOver, K!MapThenSumSet, K!MapThenFoldSet, SumsUp, SumStep
<1> QED BY <1>1, <1>2

LEMMA SumOfNone ==
  ASSUME NEW w PROVE SumOver(w, {}) = 0
<1>1. PICK it : SumsUp(w, {}, it) /\ SumOver(w, {}) = it[{}]
  BY SumOverIs, FS_EmptySet
<1>2. it[{}] = SumStep(w, it, {})
  BY <1>1, SumsUpIs
<1> QED BY <1>1, <1>2 DEF SumStep

LEMMA SumOfSame ==
  ASSUME NEW S, IsFiniteSet(S), NEW w, NEW v, \A x \in S : w[x] = v[x]
  PROVE  SumOver(w, S) = SumOver(v, S)
<1>1. PICK it : SumsUp(w, S, it) /\ SumOver(w, S) = it[S]
  BY SumOverIs
<1>2. PICK jt : SumsUp(v, S, jt) /\ SumOver(v, S) = jt[S]
  BY SumOverIs
<1>3. S \in SUBSET S
  OBVIOUS
<1> QED BY <1>1, <1>2, <1>3, SumsAgree

\* The sum of a set, by the way of a larger one.
LEMMA SumOfPart ==
  ASSUME NEW S, IsFiniteSet(S), NEW w, NEW it, SumsUp(w, S, it), NEW R \in SUBSET S
  PROVE  SumOver(w, R) = it[R]
<1>1. IsFiniteSet(R)
  BY FS_Subset
<1>2. PICK jt : SumsUp(w, R, jt) /\ SumOver(w, R) = jt[R]
  BY <1>1, SumOverIs
<1> QED BY <1>2, SumsAgree

LEMMA RemoveOne ==
  ASSUME NEW s, IsFiniteSet(s), NEW x \in s
  PROVE  /\ IsFiniteSet(s \ {x}) /\ Cardinality(s \ {x}) \in Nat /\ Cardinality(s) \in Nat
         /\ Cardinality(s \ {x}) = Cardinality(s) - 1
<1>1. IsFiniteSet(s \ {x}) /\ Cardinality(s \ {x}) = Cardinality(s) - 1
  BY FS_RemoveElement
<1> QED BY <1>1, FS_CardinalityType

LEMMA SumTake ==
  ASSUME NEW S, IsFiniteSet(S), NEW w, \A x \in S : w[x] \in Int
  PROVE  /\ SumOver(w, S) \in Int
         /\ \A x \in S : SumOver(w, S) = w[x] + SumOver(w, S \ {x})
<1>0. PICK it : SumsUp(w, S, it)
  BY SumExists
<1> DEFINE Good(s) == it[s] \in Int /\ \A x \in s : it[s] = w[x] + it[s \ {x}]
           N == {n \in Nat : \A s \in SUBSET S : Cardinality(s) <= n => Good(s)}
           pick(s) == CHOOSE y \in s : TRUE
<1>a. \A s \in SUBSET S : it[s] = SumStep(w, it, s)
  BY <1>0, SumsUpIs
<1>1. 0 \in N
  <2>1. \A s \in SUBSET S : Cardinality(s) <= 0 => s = {}
    BY FS_Subset, FS_EmptySet, FS_CardinalityType
  <2>2. it[{}] = 0
    BY <1>a DEF SumStep
  <2>3. Good({})
    BY <2>2
  <2> HIDE DEF Good
  <2> QED BY <2>1, <2>3
<1>2. ASSUME NEW n \in Nat, n \in N PROVE n + 1 \in N
  <2> SUFFICES ASSUME NEW s \in SUBSET S, Cardinality(s) = n + 1 PROVE Good(s)
    <3>1. \A s \in SUBSET S : Cardinality(s) \in Nat
      BY FS_Subset, FS_CardinalityType
    <3>2. \A s \in SUBSET S : Cardinality(s) <= n + 1 => Cardinality(s) <= n \/ Cardinality(s) = n + 1
      BY <3>1
    <3> HIDE DEF Good
    <3> QED BY <1>2, <3>2
  <2>1. s # {}
    BY FS_EmptySet
  <2> DEFINE c == pick(s)
  <2>2. c \in s /\ s \ {c} \in SUBSET S /\ Cardinality(s \ {c}) = n
    BY <2>1, SubsetsAreSmaller
  <2>3. it[s] = w[c] + it[s \ {c}]
    BY <1>a, <2>1 DEF SumStep
  <2>4. Good(s \ {c})
    <3> HIDE DEF Good
    <3> QED BY <1>2, <2>2
  <2> HIDE DEF c
  <2>5. it[s] \in Int
    BY <2>2, <2>3, <2>4
  <2>6. ASSUME NEW x \in s, x # c PROVE it[s] = w[x] + it[s \ {x}]
    <3>0. IsFiniteSet(s) /\ x \in S /\ s \ {x} \in SUBSET S
      BY FS_Subset
    <3>1. s \ {x} \in SUBSET S /\ Cardinality(s \ {x}) = n
      <4>1. Cardinality(s \ {x}) = Cardinality(s) - 1
        BY <3>0, RemoveOne
      <4> QED BY <3>0, <4>1
    <3>2. Good(s \ {x})
      <4> HIDE DEF Good
      <4> QED BY <1>2, <3>1
    <3>3. it[s \ {x}] = w[c] + it[(s \ {x}) \ {c}]
      BY <2>2, <2>6, <3>2
    <3>4. it[s \ {c}] = w[x] + it[(s \ {c}) \ {x}]
      BY <2>4, <2>6
    <3>5. (s \ {x}) \ {c} = (s \ {c}) \ {x} /\ (s \ {c}) \ {x} \in SUBSET S
      OBVIOUS
    <3>6. Cardinality((s \ {c}) \ {x}) = n - 1 /\ n - 1 \in Nat
      <4>1. IsFiniteSet(s \ {c}) /\ x \in s \ {c}
        BY <2>2, <2>6, <3>0, RemoveOne
      <4>2. Cardinality((s \ {c}) \ {x}) = Cardinality(s \ {c}) - 1 /\ Cardinality((s \ {c}) \ {x}) \in Nat
        BY <4>1, RemoveOne
      <4> QED BY <2>2, <4>2
    <3>7. w[c] \in Int /\ w[x] \in Int /\ it[s \ {x}] \in Int
      BY <2>2, <3>2
    <3>8. it[(s \ {c}) \ {x}] \in Int
      <4>1. n - 1 <= n
        OBVIOUS
      <4>2. Good((s \ {c}) \ {x})
        <5> HIDE DEF Good
        <5> QED BY <1>2, <3>5, <3>6, <4>1
      <4> QED BY <4>2
    <3>9. it[s \ {x}] = w[c] + it[(s \ {c}) \ {x}]
      BY <3>3, <3>5
    <3> DEFINE one == it[s \ {x}]
               two == it[(s \ {c}) \ {x}]
               three == it[s \ {c}]
    <3>10. it[s] = w[c] + three /\ three = w[x] + two /\ one = w[c] + two
      BY <2>3, <3>4, <3>9
    <3>11. one \in Int /\ two \in Int
      BY <3>7, <3>8
    <3> HIDE DEF one, two, three
    <3>12. it[s] = w[x] + one
      BY <3>7, <3>10, <3>11
    <3> QED BY <3>12 DEF one
  <2> QED BY <2>3, <2>5, <2>6
<1>3. Nat \subseteq N
  <2> HIDE DEF N
  <2> QED BY <1>1, <1>2, AllNumbers
<1>4. Good(S)
  BY <1>3, FS_CardinalityType
<1>5. \A R \in SUBSET S : SumOver(w, R) = it[R]
  BY <1>0, SumOfPart
<1> QED BY <1>4, <1>5

\* A finite set is made one member at a time.
LEMMA OneByOne ==
  ASSUME NEW S, IsFiniteSet(S), NEW P, {} \in P,
         \A s \in SUBSET S : \A x \in S \ s : s \in P => s \cup {x} \in P
  PROVE  S \in P
<1> DEFINE N == {n \in Nat : \A s \in SUBSET S : Cardinality(s) = n => s \in P}
<1>1. 0 \in N
  BY FS_Subset, FS_EmptySet
<1>2. ASSUME NEW n \in Nat, n \in N PROVE n + 1 \in N
  <2> SUFFICES ASSUME NEW s \in SUBSET S, Cardinality(s) = n + 1 PROVE s \in P
    OBVIOUS
  <2>1. PICK x \in s : TRUE
    BY FS_EmptySet
  <2>2. IsFiniteSet(s)
    BY FS_Subset
  <2>3. Cardinality(s \ {x}) = n
    BY <2>2, RemoveOne
  <2>4. s \ {x} \in P
    BY <1>2, <2>3
  <2>5. s = (s \ {x}) \cup {x} /\ s \ {x} \in SUBSET S /\ x \in S \ (s \ {x})
    OBVIOUS
  <2> QED BY <2>4, <2>5
<1>3. Nat \subseteq N
  <2> HIDE DEF N
  <2> QED BY <1>1, <1>2, AllNumbers
<1> QED BY <1>3, FS_CardinalityType

LEMMA SumAdd ==
  ASSUME NEW S, IsFiniteSet(S), NEW w, \A y \in S : w[y] \in Int, NEW s \in SUBSET S, NEW x \in S \ s
  PROVE  /\ SumOver(w, s) \in Int
         /\ SumOver(w, s \cup {x}) = w[x] + SumOver(w, s)
<1>1. IsFiniteSet(s) /\ IsFiniteSet(s \cup {x})
  BY FS_Subset
<1>2. (s \cup {x}) \ {x} = s /\ x \in s \cup {x} /\ \A y \in s \cup {x} : w[y] \in Int
  OBVIOUS
<1>3. SumOver(w, s) \in Int
  BY <1>1, SumTake
<1>4. SumOver(w, s \cup {x}) = w[x] + SumOver(w, (s \cup {x}) \ {x})
  BY <1>1, <1>2, SumTake
<1> QED BY <1>2, <1>3, <1>4

LEMMA SumIsNatural ==
  ASSUME NEW S, IsFiniteSet(S), NEW w, \A y \in S : w[y] \in Nat
  PROVE  SumOver(w, S) \in Nat
<1> DEFINE P == {s \in SUBSET S : SumOver(w, s) \in Nat}
<1>1. {} \in P
  BY SumOfNone
<1>2. ASSUME NEW s \in SUBSET S, NEW x \in S \ s, s \in P PROVE s \cup {x} \in P
  <2>1. SumOver(w, s \cup {x}) = w[x] + SumOver(w, s)
    BY SumAdd
  <2> QED BY <1>2, <2>1
<1> HIDE DEF P
<1>3. S \in P
  BY <1>1, <1>2, OneByOne
<1> QED BY <1>3 DEF P

\* Two sets that have nothing in common.
LEMMA SumOfBoth ==
  ASSUME NEW S, IsFiniteSet(S), NEW w, \A y \in S : w[y] \in Int,
         NEW A \in SUBSET S, NEW B \in SUBSET S, A \cap B = {}
  PROVE  SumOver(w, A \cup B) = SumOver(w, A) + SumOver(w, B)
<1> DEFINE P == {s \in SUBSET B : SumOver(w, A \cup s) = SumOver(w, A) + SumOver(w, s)}
<1>0. IsFiniteSet(A) /\ IsFiniteSet(B)
  BY FS_Subset
<1>1. {} \in P
  <2>1. A \cup {} = A /\ SumOver(w, A) \in Int
    BY <1>0, SumTake
  <2> QED BY <2>1, SumOfNone
<1>2. ASSUME NEW s \in SUBSET B, NEW x \in B \ s, s \in P PROVE s \cup {x} \in P
  <2>0. s \in SUBSET S /\ x \in S \ s
    OBVIOUS
  <2>1. SumOver(w, s) \in Int /\ SumOver(w, s \cup {x}) = w[x] + SumOver(w, s)
    BY <2>0, SumAdd
  <2>2. A \cup s \in SUBSET S /\ x \in S \ (A \cup s) /\ (A \cup s) \cup {x} = A \cup (s \cup {x})
    OBVIOUS
  <2>3. SumOver(w, (A \cup s) \cup {x}) = w[x] + SumOver(w, A \cup s)
    BY <2>2, SumAdd
  <2>4. SumOver(w, A \cup (s \cup {x})) = w[x] + SumOver(w, A \cup s)
    BY <2>2, <2>3
  <2>5. w[x] \in Int /\ SumOver(w, A) \in Int
    BY <1>0, SumTake
  <2> DEFINE a1 == SumOver(w, A)
             s1 == SumOver(w, s)
             s2 == SumOver(w, s \cup {x})
             as == SumOver(w, A \cup s)
  <2>6. as = a1 + s1
    BY <1>2
  <2> HIDE DEF a1, s1, s2, as
  <2>7. w[x] + as = a1 + s2
    BY <2>1, <2>5, <2>6 DEF a1, s1, s2
  <2>8. s \cup {x} \in SUBSET B
    OBVIOUS
  <2> QED BY <2>4, <2>7, <2>8 DEF as, a1, s2
<1> HIDE DEF P
<1>3. B \in P
  BY <1>0, <1>1, <1>2, OneByOne
<1> QED BY <1>3 DEF P

LEMMA SumOfLess ==
  ASSUME NEW S, IsFiniteSet(S), NEW w, \A y \in S : w[y] \in Nat, NEW A \in SUBSET S
  PROVE  SumOver(w, A) \in Nat /\ SumOver(w, A) <= SumOver(w, S)
<1>1. S = A \cup (S \ A) /\ A \cap (S \ A) = {} /\ S \ A \in SUBSET S
  OBVIOUS
<1>2. SumOver(w, A \cup (S \ A)) = SumOver(w, A) + SumOver(w, S \ A)
  BY <1>1, SumOfBoth
<1>3. SumOver(w, A) \in Nat /\ SumOver(w, S \ A) \in Nat
  BY FS_Subset, SumIsNatural
<1>4. SumOver(w, S) = SumOver(w, A) + SumOver(w, S \ A)
  BY <1>1, <1>2
<1> HIDE <1>2
<1> QED BY <1>3, <1>4

\* A change at one place changes the sum by as much.
LEMMA SumChanges ==
  ASSUME NEW S, IsFiniteSet(S), NEW x \in S, NEW w, NEW v, \A y \in S : w[y] \in Int /\ v[y] \in Int,
         \A y \in S \ {x} : v[y] = w[y]
  PROVE  /\ SumOver(w, S) \in Int
         /\ SumOver(v, S) = SumOver(w, S) + v[x] - w[x]
<1>1. IsFiniteSet(S \ {x})
  BY FS_Subset
<1>2. SumOver(w, S) = w[x] + SumOver(w, S \ {x}) /\ SumOver(v, S) = v[x] + SumOver(v, S \ {x})
  BY SumTake
<1>3. SumOver(v, S \ {x}) = SumOver(w, S \ {x})
  BY <1>1, SumOfSame
<1>4. SumOver(w, S \ {x}) \in Int /\ SumOver(w, S) \in Int /\ w[x] \in Int /\ v[x] \in Int
  BY <1>1, SumTake
<1> QED BY <1>2, <1>3, <1>4

\* What is summed part by part is no more than the sum of all.
LEMMA SumOfParts ==
  ASSUME NEW I, IsFiniteSet(I), NEW w, \A i \in I : w[i] \in Nat,
         NEW A, IsFiniteSet(A), NEW E \in [A -> SUBSET I], \A x, y \in A : x # y => E[x] \cap E[y] = {},
         NEW D, \A x \in A : D[x] = SumOver(w, E[x])
  PROVE  SumOver(D, A) <= SumOver(w, I)
<1> DEFINE Joined(B) == UNION {E[x] : x \in B}
           P == {B \in SUBSET A : SumOver(D, B) = SumOver(w, Joined(B))}
<1>1. {} \in P
  <2>1. Joined({}) = {}
    OBVIOUS
  <2> QED BY <2>1, SumOfNone
<1>2. ASSUME NEW B \in SUBSET A, NEW x \in A \ B, B \in P PROVE B \cup {x} \in P
  <2>1. Joined(B \cup {x}) = Joined(B) \cup E[x] /\ Joined(B) \cap E[x] = {} /\ Joined(B) \in SUBSET I /\ E[x] \in SUBSET I
    OBVIOUS
  <2>2. SumOver(w, Joined(B \cup {x})) = SumOver(w, Joined(B)) + SumOver(w, E[x])
    <3>1. \A i \in I : w[i] \in Int
      OBVIOUS
    <3> DEFINE U == Joined(B)
               V == E[x]
    <3>2. U \in SUBSET I /\ V \in SUBSET I /\ U \cap V = {} /\ Joined(B \cup {x}) = U \cup V
      BY <2>1
    <3> HIDE DEF Joined, U, V
    <3>3. SumOver(w, U \cup V) = SumOver(w, U) + SumOver(w, V)
      BY <3>1, <3>2, SumOfBoth
    <3> QED BY <3>2, <3>3 DEF U, V
  <2>3. \A y \in A : D[y] \in Int
    BY SumOfLess
  <2>4. SumOver(D, B \cup {x}) = D[x] + SumOver(D, B) /\ SumOver(D, B) \in Int
    BY <2>3, SumAdd
  <2>5. SumOver(D, B) = SumOver(w, Joined(B))
    BY <1>2
  <2> HIDE DEF Joined
  <2>6. SumOver(D, B \cup {x}) = SumOver(w, Joined(B \cup {x}))
    BY <2>2, <2>3, <2>4, <2>5
  <2> QED BY <2>6
<1>3. A \in P
  <2> HIDE DEF P
  <2> QED BY <1>1, <1>2, OneByOne
<1>4. Joined(A) \in SUBSET I
  OBVIOUS
<1> HIDE DEF Joined
<1> QED BY <1>3, <1>4, SumOfLess

LEMMA Rounding ==
  ASSUME NEW m \in Nat, NEW r \in Nat, r # 0
  PROVE  m \div r \in Nat /\ r * (m \div r) <= m
OBVIOUS

LEMMA SharesOf ==
  ASSUME NEW S, IsFiniteSet(S), NEW t, \A x \in S : t[x] \in Nat, NEW W0 \in Nat, NEW r \in Nat, r # 0,
         NEW q, \A x \in S : q[x] = (t[x] * W0) \div r
  PROVE  /\ \A x \in S : q[x] \in Nat
         /\ r * SumOver(q, S) <= W0 * SumOver(t, S)
<1>1. \A x \in S : t[x] * W0 \in Nat
  OBVIOUS
<1>2. \A x \in S : q[x] \in Nat /\ r * q[x] <= t[x] * W0
  BY <1>1, Rounding
<1> DEFINE P == {s \in SUBSET S : r * SumOver(q, s) <= W0 * SumOver(t, s)}
<1>3. {} \in P
  BY SumOfNone
<1>4. ASSUME NEW s \in SUBSET S, NEW x \in S \ s, s \in P PROVE s \cup {x} \in P
  <2>1. SumOver(q, s \cup {x}) = q[x] + SumOver(q, s) /\ SumOver(q, s) \in Int
    BY <1>2, SumAdd
  <2>2. SumOver(t, s \cup {x}) = t[x] + SumOver(t, s) /\ SumOver(t, s) \in Int
    <3>1. \A y \in S : t[y] \in Int
      OBVIOUS
    <3> QED BY <3>1, SumAdd
  <2> DEFINE q1 == SumOver(q, s)
             t1 == SumOver(t, s)
             qx == q[x]
             tx == t[x]
  <2>3. q1 \in Int /\ t1 \in Int /\ qx \in Int /\ tx \in Int
    BY <1>2, <2>1, <2>2
  <2>4. r * q1 <= W0 * t1 /\ r * qx <= tx * W0
    BY <1>2, <1>4
  <2>5. SumOver(q, s \cup {x}) = qx + q1 /\ SumOver(t, s \cup {x}) = tx + t1
    BY <2>1, <2>2
  <2> HIDE DEF q1, t1, qx, tx
  <2>6. r * (qx + q1) = r * qx + r * q1 /\ W0 * (tx + t1) = tx * W0 + W0 * t1
    BY <2>3
  <2>7. r * qx \in Int /\ r * q1 \in Int /\ tx * W0 \in Int /\ W0 * t1 \in Int
    BY <2>3
  <2>8. r * qx + r * q1 <= tx * W0 + W0 * t1
    BY <2>4, <2>7
  <2> QED BY <2>5, <2>6, <2>8
<1>5. S \in P
  <2> HIDE DEF P
  <2> QED BY <1>3, <1>4, OneByOne
<1> QED BY <1>2, <1>5

-----------------------------------------------------------------------------
Rows == 0 .. (MapSize - 1)
Totals(m) == [i \in Rows |-> m[i].total]

\* What is written about a victim: each hitter has one row, and all rows together are no
\* more than was received.
GoodDamage(d) ==
  /\ d.map \in [Rows -> [who : Hitters \cup {None}, total : Nat]]
  /\ d.entry \in Rows /\ d.received \in Nat
  /\ \A i \in Rows : d.map[i].total <= d.received /\ (d.map[i].who # None => d.map[i].total > 0)
  /\ \A i, j \in Rows : d.map[i].who = d.map[j].who => i = j \/ d.map[i].who = None
  /\ SumOver(Totals(d.map), Rows) <= d.received

KillsIInv ==
  /\ u1 \in BOOLEAN /\ u2 \in 0 .. Full /\ u3 \in 0 .. FullMana
  /\ u7 \in Hitters \cup {None} /\ u8 \subseteq Hitters /\ u9 \in 0 .. MaxLost
  /\ GoodDamage(K!Damage) /\ u6 <= u9
  /\ K!LastHitCounts

LEMMA KillsAssumed ==
  ASSUME K!KillsAssumption
  PROVE  /\ IsFiniteSet(Hitters) /\ None \notin Hitters /\ Fighters \subseteq Hitters
         /\ \A x \in Hitters : Master[x] \in Hitters \cup {None}
         /\ \A f \in Fighters : Master[f] = None
         /\ MapSize \in Nat /\ MapSize # 0 /\ Full \in Nat /\ FullMana \in Nat /\ Worth \in Nat /\ MaxLost \in Nat
         /\ IsFiniteSet(Rows)
<1>1. K!IsFiniteSet(Hitters) <=> IsFiniteSet(Hitters)
  BY DEF K!IsFiniteSet, IsFiniteSet
<1>2. MapSize \in Nat
  BY DEF K!KillsAssumption
<1>3. IsFiniteSet(Rows)
  BY <1>2, FS_Interval DEF Rows
<1> QED BY <1>1, <1>3 DEF K!KillsAssumption

WriteRow(d, who, at, points, before, next) ==
  [map |-> [d.map EXCEPT ![at] = [who |-> who, total |-> before + points]],
   entry |-> next, received |-> d.received + points]

\* A row is written: by one who has it already, or over the row that is next.
LEMMA WritingIsGood ==
  ASSUME K!KillsAssumption, NEW d, GoodDamage(d), NEW who \in Hitters, NEW at \in Rows, NEW points \in Nat, points > 0,
         NEW before \in Nat,
         \/ d.map[at].who = who /\ before = d.map[at].total
         \/ before = 0 /\ \A i \in Rows : d.map[i].who # who,
         NEW next \in Rows
  PROVE  /\ GoodDamage(WriteRow(d, who, at, points, before, next))
         /\ WriteRow(d, who, at, points, before, next).received = d.received + points
         /\ WriteRow(d, who, at, points, before, next).map[at].who = who
<1> DEFINE e == WriteRow(d, who, at, points, before, next)
           m == d.map
           new == [who |-> who, total |-> before + points]
<1>0. who # None /\ IsFiniteSet(Rows)
  BY KillsAssumed
<1>1. /\ m \in [Rows -> [who : Hitters \cup {None}, total : Nat]] /\ d.received \in Nat
      /\ \A i \in Rows : m[i].total <= d.received /\ (m[i].who # None => m[i].total > 0)
      /\ \A i, j \in Rows : m[i].who = m[j].who => i = j \/ m[i].who = None
      /\ SumOver(Totals(m), Rows) <= d.received
  BY DEF GoodDamage
<1>2. e.map = [m EXCEPT ![at] = new] /\ e.entry = next /\ e.received = d.received + points
  BY DEF WriteRow
<1>3. new.who = who /\ new.total = before + points /\ new \in [who : Hitters \cup {None}, total : Nat]
  OBVIOUS
<1> HIDE DEF m, new, e
<1>4. e.map[at] = new /\ \A i \in Rows \ {at} : e.map[i] = m[i]
  BY <1>1, <1>2
<1>5. e.map \in [Rows -> [who : Hitters \cup {None}, total : Nat]]
  BY <1>1, <1>2, <1>3
<1>6. before <= m[at].total /\ m[at].total \in Nat
  BY <1>1 DEF m
<1>7. \A i \in Rows : e.map[i].total <= e.received /\ (e.map[i].who # None => e.map[i].total > 0)
  BY <1>1, <1>2, <1>3, <1>4, <1>6
<1>8. \A i \in Rows \ {at} : m[i].who # who
  BY <1>0, <1>1 DEF m
<1>9. \A i, j \in Rows : e.map[i].who = e.map[j].who => i = j \/ e.map[i].who = None
  BY <1>1, <1>3, <1>4, <1>8
<1>10. SumOver(Totals(e.map), Rows) <= e.received
  <2> DEFINE w == Totals(m)
             v == Totals(e.map)
  <2>1. \A i \in Rows : w[i] = m[i].total /\ v[i] = e.map[i].total
    BY DEF Totals
  <2>2. \A i \in Rows : w[i] \in Int /\ v[i] \in Int
    BY <1>1, <1>5, <2>1
  <2>3. \A i \in Rows \ {at} : v[i] = w[i]
    BY <1>4, <2>1
  <2>4. v[at] = before + points /\ w[at] = m[at].total
    BY <1>3, <1>4, <2>1
  <2> HIDE DEF w, v
  <2>5. SumOver(w, Rows) \in Int /\ SumOver(v, Rows) = SumOver(w, Rows) + v[at] - w[at]
    BY <1>0, <2>2, <2>3, SumChanges
  <2>6. SumOver(w, Rows) <= d.received
    BY <1>1 DEF w
  <2>7. SumOver(v, Rows) <= d.received + points
    BY <1>1, <1>6, <2>4, <2>5, <2>6
  <2> QED BY <1>2, <2>7 DEF v
<1> QED BY <1>1, <1>2, <1>3, <1>4, <1>5, <1>7, <1>9, <1>10 DEF GoodDamage, e

LEMMA AddIsGood ==
  ASSUME K!KillsAssumption, NEW d, GoodDamage(d), NEW who \in Hitters, NEW points \in Nat
  PROVE  /\ GoodDamage(K!AddDamagePoints(d, who, points))
         /\ K!AddDamagePoints(d, who, points).received = d.received + points
         /\ points > 0 => \E i \in Rows : K!AddDamagePoints(d, who, points).map[i].who = who
<1> DEFINE old == {i \in 0 .. (MapSize - 1) : d.map[i].who = who}
           at == IF old # {} THEN K!Min(old) ELSE d.entry
           before == IF old # {} THEN d.map[at].total ELSE 0
           next == IF old # {} THEN d.entry ELSE (d.entry + 1) % MapSize
           e == K!AddDamagePoints(d, who, points)
<1>0. who # None /\ MapSize \in Nat /\ MapSize # 0
  BY KillsAssumed
<1>1. CASE points <= 0
  <2>1. e = d /\ points = 0
    BY <1>1 DEF K!AddDamagePoints
  <2>2. d.received \in Nat
    BY DEF GoodDamage
  <2> QED BY <2>1, <2>2
<1>2. CASE ~(points <= 0)
  <2>1. e = WriteRow(d, who, at, points, before, next)
    BY <1>2 DEF K!AddDamagePoints, WriteRow
  <2>2. d.entry \in Rows /\ (d.entry + 1) % MapSize \in Rows /\ \A i \in Rows : d.map[i].total \in Nat
    <3>1. d.entry \in Rows /\ \A i \in Rows : d.map[i].total \in Nat
      BY DEF GoodDamage
    <3>2. d.entry \in Nat
      BY <3>1, <1>0 DEF Rows
    <3>3. (d.entry + 1) % MapSize \in 0 .. (MapSize - 1)
      BY <1>0, <3>2
    <3> QED BY <3>1, <3>3 DEF Rows
  <2>3. /\ at \in Rows /\ next \in Rows /\ before \in Nat
        /\ \/ d.map[at].who = who /\ before = d.map[at].total
           \/ before = 0 /\ \A i \in Rows : d.map[i].who # who
    <3>1. CASE old = {}
      BY <3>1, <2>2 DEF Rows
    <3>2. CASE old # {}
      <4>1. PICK i \in Rows : old = {i}
        BY <1>0, <3>2 DEF GoodDamage, Rows
      <4>2. i \in Int /\ i <= i
        BY <1>0 DEF Rows
      <4>3. K!Min({i}) = i
        BY <4>2 DEF K!Min
      <4>4. at = i
        BY <4>1, <4>3
      <4>5. i \in old
        BY <4>1
      <4>6. d.map[i].who = who
        BY <4>5
      <4> HIDE DEF old
      <4> QED BY <3>2, <4>4, <4>6, <2>2
    <3> QED BY <3>1, <3>2
  <2>4. points > 0
    BY <1>2
  <2> HIDE DEF old, at, before, next, e
  <2>5. GoodDamage(e) /\ e.received = d.received + points /\ e.map[at].who = who
    BY <2>1, <2>3, <2>4, WritingIsGood
  <2> QED BY <2>3, <2>5 DEF e
<1> QED BY <1>1, <1>2

LEMMA CreditedIsGood ==
  ASSUME K!KillsAssumption, NEW d, GoodDamage(d), NEW x \in Hitters, NEW points \in Nat
  PROVE  /\ GoodDamage(K!Credited(d, x, points))
         /\ K!Credited(d, x, points).received <= d.received + points
         /\ points > 0 => \A f \in Fighters : f \in {x, Master[x]} =>
                            \E i \in Rows : K!Credited(d, x, points).map[i].who = f
<1> DEFINE m == Master[x]
           half == points \div 2
<1>0. m \in Hitters \cup {None} /\ None \notin Fighters /\ (x \in Fighters => m = None) /\ Fighters \subseteq Hitters
  BY KillsAssumed
<1>a. half \in Nat /\ half + half <= points /\ d.received \in Nat
  BY DEF GoodDamage
<1>1. CASE m \in Fighters
  <2>1. K!Credited(d, x, points) = K!AddDamagePoints(d, m, points)
    BY <1>0, <1>1 DEF K!Credited
  <2>2. m \in Hitters /\ x \notin Fighters
    BY <1>0, <1>1
  <2> HIDE DEF m, half
  <2>3. /\ GoodDamage(K!AddDamagePoints(d, m, points))
        /\ K!AddDamagePoints(d, m, points).received = d.received + points
        /\ points > 0 => \E i \in Rows : K!AddDamagePoints(d, m, points).map[i].who = m
    BY <2>2, AddIsGood
  <2> QED BY <1>a, <2>1, <2>2, <2>3 DEF m
<1>2. CASE m = None
  <2>1. K!Credited(d, x, points) = K!AddDamagePoints(d, x, points)
    BY <1>0, <1>2 DEF K!Credited
  <2>2. /\ GoodDamage(K!AddDamagePoints(d, x, points))
        /\ K!AddDamagePoints(d, x, points).received = d.received + points
        /\ points > 0 => \E i \in Rows : K!AddDamagePoints(d, x, points).map[i].who = x
    BY AddIsGood
  <2> QED BY <1>0, <1>a, <1>2, <2>1, <2>2
<1>3. CASE m \notin Fighters /\ m # None
  <2> DEFINE e == K!AddDamagePoints(d, x, half)
             c == K!AddDamagePoints(e, m, half)
  <2>1. K!Credited(d, x, points) = c
    BY <1>3 DEF K!Credited
  <2>2. m \in Hitters /\ x \notin Fighters
    BY <1>0, <1>3
  <2> HIDE DEF m, half
  <2>3. GoodDamage(e) /\ e.received = d.received + half
    BY <1>a, AddIsGood
  <2> HIDE DEF e
  <2>4. GoodDamage(c) /\ c.received = e.received + half
    BY <1>a, <2>2, <2>3, AddIsGood
  <2> HIDE DEF c
  <2>5. c.received <= d.received + points
    BY <1>a, <2>3, <2>4
  <2> QED BY <1>3, <2>1, <2>2, <2>4, <2>5 DEF m
<1> QED BY <1>1, <1>2, <1>3

-----------------------------------------------------------------------------
LEMMA BlankIsGood ==
  ASSUME K!KillsAssumption, NEW d, d.map = [i \in Rows |-> K!Nobody], d.entry = 0, d.received = 0
  PROVE  GoodDamage(d)
<1>0. MapSize \in Nat /\ MapSize # 0 /\ IsFiniteSet(Rows)
  BY KillsAssumed
<1>1. 0 \in Rows
  BY <1>0 DEF Rows
<1>2. \A i \in Rows : d.map[i].who = None /\ d.map[i].total = 0
  BY DEF K!Nobody
<1>3. d.map \in [Rows -> [who : Hitters \cup {None}, total : Nat]]
  BY DEF K!Nobody
<1>4. SumOver(Totals(d.map), Rows) <= 0
  <2> DEFINE w == Totals(d.map)
             E == [x \in {} |-> {}]
  <2>1. \A i \in Rows : w[i] = 0
    BY <1>2 DEF Totals
  <2> DEFINE P == {s \in SUBSET Rows : SumOver(w, s) = 0}
  <2> HIDE DEF w
  <2>2. {} \in P
    BY SumOfNone
  <2>3. ASSUME NEW s \in SUBSET Rows, NEW x \in Rows \ s, s \in P PROVE s \cup {x} \in P
    <3>1. \A i \in Rows : w[i] \in Int
      BY <2>1
    <3>2. SumOver(w, s \cup {x}) = w[x] + SumOver(w, s)
      BY <1>0, <3>1, SumAdd
    <3> QED BY <2>1, <2>3, <3>2
  <2>4. Rows \in P
    <3> HIDE DEF P
    <3> QED BY <1>0, <2>2, <2>3, OneByOne
  <2> QED BY <2>4 DEF w
<1> QED BY <1>1, <1>2, <1>3, <1>4 DEF GoodDamage

LEMMA DamageIs ==
  /\ K!Damage.map = u4 /\ K!Damage.entry = u5 /\ K!Damage.received = u6
  /\ K!Damage = [map |-> u4, entry |-> u5, received |-> u6]
BY DEF K!Damage

LEMMA DamageSet ==
  ASSUME NEW d, K!SetDamage(d), GoodDamage(d)
  PROVE  GoodDamage(K!Damage)' /\ u6' = d.received /\ u4' = d.map
<1>1. u4' = d.map /\ u5' = d.entry /\ u6' = d.received
  BY DEF K!SetDamage
<1>2. K!Damage' = [map |-> u4', entry |-> u5', received |-> u6']
  BY DEF K!Damage
<1>3. K!Damage'.map = d.map /\ K!Damage'.entry = d.entry /\ K!Damage'.received = d.received
  BY <1>1, <1>2
<1> QED BY <1>1, <1>3 DEF GoodDamage

LEMMA DamageKept ==
  ASSUME UNCHANGED <<u4, u5, u6>>, GoodDamage(K!Damage)
  PROVE  GoodDamage(K!Damage)'
<1>1. K!Damage' = K!Damage
  BY DEF K!Damage
<1> QED BY <1>1 DEF GoodDamage

LEMMA VictimIsGood ==
  ASSUME K!KillsAssumption, u4 = [i \in 0 .. (MapSize - 1) |-> K!Nobody], u5 = 0, u6 = 0, u7 = None, u9 = 0,
         u1 \in BOOLEAN, u2 = Full, u3 = (IF u1 THEN FullMana ELSE 0), u8 = Hitters
  PROVE  KillsIInv
<1>1. GoodDamage(K!Damage)
  BY BlankIsGood, DamageIs DEF Rows
<1>2. u2 \in 0 .. Full /\ u3 \in 0 .. FullMana /\ u9 \in 0 .. MaxLost /\ u6 <= u9
  BY KillsAssumed
<1> QED BY <1>1, <1>2 DEF KillsIInv, K!LastHitCounts

LEMMA KillsInitIInv ==
  ASSUME K!KillsAssumption, K!Init PROVE KillsIInv
BY VictimIsGood DEF K!Init

LEMMA NewVictimIsGood ==
  ASSUME K!KillsAssumption, NEW p \in BOOLEAN, K!NewVictim(p) PROVE KillsIInv'
<1>1. /\ u1' = p /\ u2' = Full /\ u3' = (IF p THEN FullMana ELSE 0)
      /\ u4' = [i \in Rows |-> K!Nobody] /\ u5' = 0 /\ u6' = 0 /\ u7' = None /\ u9' = 0 /\ u8' = Hitters
  BY DEF K!NewVictim, Rows
<1>2. GoodDamage(K!Damage)'
  <2> DEFINE d == K!Damage'
  <2>1. d = [map |-> u4', entry |-> u5', received |-> u6']
    BY DEF K!Damage
  <2>2. d.map = [i \in Rows |-> K!Nobody] /\ d.entry = 0 /\ d.received = 0
    BY <1>1, <2>1
  <2> HIDE DEF d
  <2>3. GoodDamage(d)
    BY <2>2, BlankIsGood
  <2> QED BY <2>3 DEF d, GoodDamage
<1>3. /\ u2' \in 0 .. Full /\ u3' \in 0 .. FullMana /\ u9' \in 0 .. MaxLost /\ u6' <= u9'
  BY <1>1, KillsAssumed
<1> QED BY <1>1, <1>2, <1>3 DEF KillsIInv, K!LastHitCounts

LEMMA ScriptedIs ==
  ASSUME NEW n \in Nat, NEW s \in K!Scripted(n)
  PROVE  s.heals \in BOOLEAN /\ s.value \in 0 .. n
<1>1. CASE s \in {[heals |-> FALSE, value |-> v] : v \in 0 .. n}
  <2>1. PICK v \in 0 .. n : s = [heals |-> FALSE, value |-> v]
    BY <1>1
  <2> QED BY <2>1
<1>2. CASE s = [heals |-> TRUE, value |-> n]
  BY <1>2
<1> QED BY <1>1, <1>2 DEF K!Scripted

LEMMA MayBeHit ==
  ASSUME K!KillsAssumption, KillsIInv, NEW x \in u8 \cup {None}, NEW v \in 1 .. 2, K!CombatChangeHealth(x, v)
  PROVE  KillsIInv'
<1> DEFINE burnt == IF u1 THEN K!Least(u3, v) ELSE 0
           shielded == IF x = None THEN K!Damage ELSE K!AddDamagePoints(K!Damage, x, burnt)
           blows == IF burnt = v THEN {[heals |-> FALSE, value |-> 0]} ELSE K!Scripted(v - burnt)
           harmOf(s) == IF s.heals THEN 0 ELSE K!Least(s.value, u2)
           harmless(s) == /\ u2' = IF s.heals THEN K!Least(u2 + s.value, Full) ELSE u2
                          /\ K!SetDamage(shielded)
                          /\ u9' = u9 + (IF x = None THEN 0 ELSE burnt)
                          /\ UNCHANGED u7
           harmful(s) == /\ u2' = u2 - harmOf(s)
                         /\ u7' = x
                         /\ K!SetDamage(IF x = None THEN shielded ELSE K!Credited(shielded, x, harmOf(s)))
                         /\ u9' = u9 + (IF x = None THEN 0 ELSE burnt + harmOf(s))
<1>0. /\ u1 \in BOOLEAN /\ u2 \in 0 .. Full /\ u3 \in 0 .. FullMana
      /\ u7 \in Hitters \cup {None} /\ u8 \subseteq Hitters /\ u9 \in 0 .. MaxLost
      /\ GoodDamage(K!Damage) /\ u6 <= u9 /\ K!LastHitCounts
      /\ Full \in Nat /\ FullMana \in Nat /\ MaxLost \in Nat /\ None \notin Hitters
  BY KillsAssumed DEF KillsIInv
<1>1. u2 > 0 /\ u9 + v <= MaxLost /\ u3' = u3 - burnt /\ UNCHANGED <<u1, u8>>
  BY DEF K!CombatChangeHealth
<1>2. PICK s \in blows : harmless(s) \/ (harmOf(s) # 0 /\ harmful(s))
  BY DEF K!CombatChangeHealth, K!OnAttackedCreatureDrainHealth
<1>3. burnt \in Nat /\ burnt <= v /\ burnt <= u3 /\ (~u1 => burnt = 0)
  BY <1>0 DEF K!Least
<1>4. s.heals \in BOOLEAN /\ s.value \in Nat /\ burnt + s.value <= v
  <2>1. CASE burnt = v
    <3>1. s = [heals |-> FALSE, value |-> 0]
      BY <1>2, <2>1
    <3> HIDE DEF burnt
    <3> QED BY <1>3, <2>1, <3>1
  <2>2. CASE burnt # v
    <3>1. s \in K!Scripted(v - burnt)
      BY <1>2, <2>2
    <3> HIDE DEF burnt
    <3>2. v - burnt \in Nat
      BY <1>3
    <3>3. s.heals \in BOOLEAN /\ s.value \in 0 .. (v - burnt)
      BY <3>1, <3>2, ScriptedIs
    <3> QED BY <1>3, <3>2, <3>3
  <2> QED BY <2>1, <2>2
<1>5. /\ GoodDamage(shielded)
      /\ shielded.received = u6 + (IF x = None THEN 0 ELSE burnt)
      /\ ~u1 => shielded.map = u4
  <2>1. CASE x = None
    BY <2>1, <1>0, DamageIs DEF GoodDamage
  <2>2. CASE x # None
    <3>1. x \in Hitters
      BY <1>0, <2>2
    <3> HIDE DEF burnt
    <3>2. /\ GoodDamage(K!AddDamagePoints(K!Damage, x, burnt))
          /\ K!AddDamagePoints(K!Damage, x, burnt).received = K!Damage.received + burnt
      BY <1>0, <1>3, <3>1, AddIsGood
    <3>3. ~u1 => K!AddDamagePoints(K!Damage, x, burnt) = K!Damage
      BY <1>3 DEF K!AddDamagePoints
    <3> QED BY <2>2, <3>2, <3>3, DamageIs
  <2> QED BY <2>1, <2>2
<1>6. CASE harmless(s)
  <2>1. u2' \in 0 .. Full
    BY <1>0, <1>4, <1>6 DEF K!Least
  <2>2. u3' \in 0 .. FullMana /\ u9' \in 0 .. MaxLost
    BY <1>0, <1>1, <1>3, <1>6
  <2> HIDE DEF burnt
  <2>3. K!SetDamage(shielded) /\ u7' = u7 /\ u9' = u9 + (IF x = None THEN 0 ELSE burnt)
    BY <1>6
  <2> HIDE DEF shielded
  <2>4. GoodDamage(K!Damage)' /\ u6' = shielded.received /\ u4' = shielded.map
    BY <1>5, <2>3, DamageSet
  <2>5. u6 \in Nat
    BY <1>0, DamageIs DEF GoodDamage
  <2>6. u6' <= u9'
    BY <1>0, <1>3, <1>5, <2>3, <2>4, <2>5
  <2>7. K!LastHitCounts'
    BY <1>0, <1>1, <1>5, <2>3, <2>4 DEF K!LastHitCounts
  <2> QED BY <1>0, <1>1, <2>1, <2>2, <2>3, <2>4, <2>6, <2>7 DEF KillsIInv
<1>7. CASE harmOf(s) # 0 /\ harmful(s)
  <2> DEFINE harm == harmOf(s)
             credit == IF x = None THEN shielded ELSE K!Credited(shielded, x, harm)
  <2>1. harm \in Nat /\ harm > 0 /\ harm <= u2 /\ harm <= s.value
    BY <1>0, <1>4, <1>7 DEF K!Least
  <2>2. u2' = u2 - harm /\ u7' = x /\ K!SetDamage(credit) /\ u9' = u9 + (IF x = None THEN 0 ELSE burnt + harm)
    BY <1>7
  <2> HIDE DEF burnt, harm, shielded
  <2>3. u2' \in 0 .. Full
    BY <1>0, <2>1, <2>2
  <2>4. u3' \in 0 .. FullMana /\ u9' \in 0 .. MaxLost
    BY <1>0, <1>1, <1>3, <1>4, <2>1, <2>2
  <2>5. u6 \in Nat /\ shielded.received \in Nat
    BY <1>0, <1>5, DamageIs DEF GoodDamage
  <2>6. /\ GoodDamage(credit)
        /\ credit.received <= u6 + (IF x = None THEN 0 ELSE burnt + harm)
        /\ x # None => \A f \in Fighters : f \in {x, Master[x]} => \E i \in Rows : credit.map[i].who = f
    <3>1. CASE x = None
      BY <3>1, <1>5, <2>5
    <3>2. CASE x # None
      <4>1. x \in Hitters
        BY <1>0, <3>2
      <4>2. /\ GoodDamage(K!Credited(shielded, x, harm))
            /\ K!Credited(shielded, x, harm).received <= shielded.received + harm
            /\ \A f \in Fighters : f \in {x, Master[x]} =>
                 \E i \in Rows : K!Credited(shielded, x, harm).map[i].who = f
        BY <1>5, <2>1, <4>1, CreditedIsGood
      <4>3. K!Credited(shielded, x, harm).received \in Nat
        BY <4>2 DEF GoodDamage
      <4> QED BY <1>3, <1>5, <2>1, <2>5, <3>2, <4>2, <4>3
    <3> QED BY <3>1, <3>2
  <2> HIDE DEF credit
  <2>7. GoodDamage(K!Damage)' /\ u6' = credit.received /\ u4' = credit.map
    BY <2>2, <2>6, DamageSet
  <2>8. u6' <= u9'
    <3>1. credit.received \in Nat
      BY <2>6 DEF GoodDamage
    <3> QED BY <1>0, <1>3, <2>1, <2>2, <2>5, <2>6, <2>7, <3>1
  <2>9. K!LastHitCounts'
    BY <2>2, <2>6, <2>7 DEF K!LastHitCounts, Rows
  <2>10. u7' \in Hitters \cup {None} /\ u8' \subseteq Hitters /\ u1' \in BOOLEAN
    BY <1>0, <1>1, <2>2
  <2> QED BY <2>3, <2>4, <2>7, <2>8, <2>9, <2>10 DEF KillsIInv
<1> QED BY <1>2, <1>6, <1>7

LEMMA MayBeDrained ==
  ASSUME K!KillsAssumption, KillsIInv, NEW x \in u8, K!CombatChangeMana(x, 1)
  PROVE  KillsIInv'
<1> DEFINE burnt == K!Least(u3, 1)
           d == K!AddDamagePoints(K!Damage, x, burnt)
<1>0. /\ u1 \in BOOLEAN /\ u2 \in 0 .. Full /\ u3 \in 0 .. FullMana
      /\ u7 \in Hitters \cup {None} /\ u8 \subseteq Hitters /\ u9 \in 0 .. MaxLost
      /\ GoodDamage(K!Damage) /\ u6 <= u9 /\ x \in Hitters
      /\ FullMana \in Nat /\ MaxLost \in Nat
  BY KillsAssumed DEF KillsIInv
<1>1. /\ u1 /\ burnt > 0 /\ u9 + burnt <= MaxLost /\ u3' = u3 - burnt
      /\ K!SetDamage(d) /\ u9' = u9 + burnt /\ UNCHANGED <<u1, u2, u7, u8>>
  BY DEF K!CombatChangeMana
<1>2. burnt \in Nat /\ burnt <= u3
  BY <1>0, <1>1 DEF K!Least
<1> HIDE DEF burnt
<1>3. GoodDamage(d) /\ d.received = u6 + burnt
  BY <1>0, <1>2, AddIsGood, DamageIs
<1> HIDE DEF d
<1>4. GoodDamage(K!Damage)' /\ u6' = d.received
  BY <1>1, <1>3, DamageSet
<1>5. u6 \in Nat
  BY <1>0, DamageIs DEF GoodDamage
<1>6. u3' \in 0 .. FullMana /\ u9' \in 0 .. MaxLost /\ u6' <= u9'
  BY <1>0, <1>1, <1>2, <1>3, <1>4, <1>5
<1>7. K!LastHitCounts'
  BY <1>1 DEF K!LastHitCounts
<1> QED BY <1>0, <1>1, <1>4, <1>6, <1>7 DEF KillsIInv

LEMMA KillsStepIInv ==
  ASSUME K!KillsAssumption, KillsIInv, [K!Next]_(K!vars) PROVE KillsIInv'
<1>0. /\ u1 \in BOOLEAN /\ u2 \in 0 .. Full /\ u3 \in 0 .. FullMana
      /\ u7 \in Hitters \cup {None} /\ u8 \subseteq Hitters /\ u9 \in 0 .. MaxLost
      /\ GoodDamage(K!Damage) /\ u6 <= u9 /\ K!LastHitCounts
      /\ FullMana \in Nat /\ Full \in Nat
  BY KillsAssumed DEF KillsIInv
<1>1. ASSUME NEW x \in u8 \cup {None}, NEW v \in 1 .. 2, K!CombatChangeHealth(x, v) PROVE KillsIInv'
  BY <1>1, MayBeHit
<1>2. ASSUME NEW x \in u8, K!CombatChangeMana(x, 1) PROVE KillsIInv'
  BY <1>2, MayBeDrained
<1>3. ASSUME NEW x \in Hitters, K!Leave(x) PROVE KillsIInv'
  BY <1>0, <1>3, DamageKept DEF K!Leave, KillsIInv, K!LastHitCounts
<1>4. CASE K!Recover
  BY <1>0, <1>4, DamageKept DEF K!Recover, KillsIInv, K!LastHitCounts
<1>5. CASE K!OnIdleStatus
  BY <1>0, <1>5, DamageKept DEF K!OnIdleStatus, KillsIInv, K!LastHitCounts
<1>6. CASE K!OnDeath
  <2>1. CASE \E p \in BOOLEAN : K!NewVictim(p)
    BY <2>1, NewVictimIsGood
  <2>2. CASE /\ u1 /\ u2' = Full /\ u7' = None /\ UNCHANGED <<u1, u3, u4, u5, u6, u8, u9>>
    BY <1>0, <2>2, DamageKept DEF KillsIInv, K!LastHitCounts
  <2> QED BY <1>6, <2>1, <2>2 DEF K!OnDeath
<1>7. CASE UNCHANGED K!vars
  BY <1>0, <1>7, DamageKept DEF K!vars, KillsIInv, K!LastHitCounts
<1> QED BY <1>1, <1>2, <1>3, <1>4, <1>5, <1>6, <1>7 DEF K!Next

-----------------------------------------------------------------------------
Shares == [i \in Rows |-> K!Share(i)]

TotalStep(it, s) ==
  IF s = {} THEN 0 ELSE K!Total(CHOOSE x \in s : TRUE) + it[s \ {CHOOSE x \in s : TRUE}]
ShareStep(it, s) ==
  IF s = {} THEN 0 ELSE K!Share(CHOOSE x \in s : TRUE) + it[s \ {CHOOSE x \in s : TRUE}]

LEMMA TotalsAre ==
  ASSUME NEW S \in SUBSET Rows, IsFiniteSet(S)
  PROVE  K!MapThenSumSet(K!Total, S) = SumOver(Totals(u4), S)
<1> DEFINE w == Totals(u4)
           jt == CHOOSE it : it = [s \in SUBSET S |-> TotalStep(it, s)]
<1>1. ASSUME NEW it, NEW s \in SUBSET S PROVE SumStep(w, it, s) = TotalStep(it, s)
  <2>1. CASE s = {}
    BY <2>1 DEF SumStep, TotalStep
  <2>2. CASE s # {}
    <3>1. (CHOOSE x \in s : TRUE) \in Rows
      BY <2>2
    <3>2. w[CHOOSE x \in s : TRUE] = K!Total(CHOOSE x \in s : TRUE)
      BY <3>1 DEF Totals, K!Total
    <3> QED BY <2>2, <3>2 DEF SumStep, TotalStep
  <2> QED BY <2>1, <2>2
<1>2. \A it : [s \in SUBSET S |-> SumStep(w, it, s)] = [s \in SUBSET S |-> TotalStep(it, s)]
  BY <1>1
<1> HIDE DEF w
<1>3. PICK it : SumsUp(w, S, it) /\ SumOver(w, S) = it[S]
  BY SumOverIs
<1>4. it = [s \in SUBSET S |-> TotalStep(it, s)]
  BY <1>2, <1>3 DEF SumsUp
<1>5. jt = [s \in SUBSET S |-> TotalStep(jt, s)]
  BY <1>4
<1>6. K!MapThenSumSet(K!Total, S) = jt[S]
  BY DEF K!MapThenSumSet, K!MapThenFoldSet, TotalStep
<1> HIDE DEF jt
<1>7. SumsUp(w, S, jt)
  BY <1>2, <1>5 DEF SumsUp
<1>8. it[S] = jt[S]
  BY <1>3, <1>7, SumsAgree
<1> QED BY <1>3, <1>6, <1>8 DEF w

LEMMA SharesAre ==
  ASSUME NEW S \in SUBSET Rows, IsFiniteSet(S)
  PROVE  K!MapThenSumSet(K!Share, S) = SumOver(Shares, S)
<1> DEFINE w == Shares
           jt == CHOOSE it : it = [s \in SUBSET S |-> ShareStep(it, s)]
<1>1. ASSUME NEW it, NEW s \in SUBSET S PROVE SumStep(w, it, s) = ShareStep(it, s)
  <2>1. CASE s = {}
    BY <2>1 DEF SumStep, ShareStep
  <2>2. CASE s # {}
    <3>1. (CHOOSE x \in s : TRUE) \in Rows
      BY <2>2
    <3>2. w[CHOOSE x \in s : TRUE] = K!Share(CHOOSE x \in s : TRUE)
      BY <3>1 DEF Shares
    <3> QED BY <2>2, <3>2 DEF SumStep, ShareStep
  <2> QED BY <2>1, <2>2
<1>2. \A it : [s \in SUBSET S |-> SumStep(w, it, s)] = [s \in SUBSET S |-> ShareStep(it, s)]
  BY <1>1
<1> HIDE DEF w
<1>3. PICK it : SumsUp(w, S, it) /\ SumOver(w, S) = it[S]
  BY SumOverIs
<1>4. it = [s \in SUBSET S |-> ShareStep(it, s)]
  BY <1>2, <1>3 DEF SumsUp
<1>5. jt = [s \in SUBSET S |-> ShareStep(jt, s)]
  BY <1>4
<1>6. K!MapThenSumSet(K!Share, S) = jt[S]
  BY DEF K!MapThenSumSet, K!MapThenFoldSet, ShareStep
<1> HIDE DEF jt
<1>7. SumsUp(w, S, jt)
  BY <1>2, <1>5 DEF SumsUp
<1>8. it[S] = jt[S]
  BY <1>3, <1>7, SumsAgree
<1> QED BY <1>3, <1>6, <1>8 DEF w

\* Whose rows a hitter is paid for.
RowsOf ==
  [x \in Hitters |->
     IF u1 THEN {}
     ELSE IF x \notin Fighters THEN {i \in K!Entries : u4[i].who = x}
     ELSE IF x = Leader THEN {i \in K!Entries : u4[i].who \in Fighters} ELSE {}]

LEMMA PaidByRows ==
  ASSUME K!KillsAssumption, NEW x \in Hitters
  PROVE  /\ RowsOf[x] \in SUBSET K!Entries
         /\ K!DistributeExperiencePoints[x] = SumOver(Shares, RowsOf[x])
<1>0. Leader \in Fighters /\ IsFiniteSet(Rows) /\ K!Entries \in SUBSET Rows
  BY KillsAssumed DEF K!KillsAssumption, K!Entries, Rows
<1>1. RowsOf[x] \in SUBSET K!Entries /\ RowsOf[x] \in SUBSET Rows
  BY <1>0 DEF RowsOf
<1>2. IsFiniteSet(RowsOf[x])
  BY <1>0, <1>1, FS_Subset
<1>3. K!MapThenSumSet(K!Share, RowsOf[x]) = SumOver(Shares, RowsOf[x])
  BY <1>1, <1>2, SharesAre
<1>4. CASE u1 \/ (x \in Fighters /\ x # Leader)
  <2>1. RowsOf[x] = {}
    BY <1>4 DEF RowsOf
  <2>2. K!DistributeExperiencePoints[x] = 0
    BY <1>4 DEF K!DistributeExperiencePoints
  <2> QED BY <1>1, <2>1, <2>2, SumOfNone
<1>5. CASE ~u1 /\ x \notin Fighters
  <2>1. RowsOf[x] = {i \in K!Entries : u4[i].who = x}
    BY <1>5 DEF RowsOf
  <2>2. K!DistributeExperiencePoints[x] = K!MapThenSumSet(K!Share, {i \in K!Entries : u4[i].who = x})
    BY <1>0, <1>5 DEF K!DistributeExperiencePoints
  <2> QED BY <1>1, <1>3, <2>1, <2>2
<1>6. CASE ~u1 /\ x \in Fighters /\ x = Leader
  <2>1. RowsOf[x] = {i \in K!Entries : u4[i].who \in Fighters}
    BY <1>6 DEF RowsOf
  <2>2. K!DistributeExperiencePoints[x] = K!MapThenSumSet(K!Share, {i \in K!Entries : u4[i].who \in Fighters})
    BY <1>0, <1>6 DEF K!DistributeExperiencePoints
  <2> QED BY <1>1, <1>3, <2>1, <2>2
<1> QED BY <1>4, <1>5, <1>6

LEMMA Divided ==
  ASSUME NEW s \in Nat, NEW t \in Nat, NEW m \in Nat, NEW r \in Nat, r # 0, r * s <= m * t, t <= r
  PROVE  s <= m
<1>1. \A x, y, k \in Nat : x <= y => k * x <= k * y
  OBVIOUS
<1>2. m * t <= m * r
  BY <1>1
<1>3. m * r = r * m /\ r * (m + 1) = r * m + r /\ r * s \in Nat /\ m * t \in Nat /\ r * m \in Nat
  OBVIOUS
<1>4. CASE s > m
  <2>1. m + 1 <= s
    BY <1>4
  <2>2. r * (m + 1) <= r * s
    BY <1>1, <2>1
  <2> QED BY <1>2, <1>3, <2>2
<1> QED BY <1>4

LEMMA NoMoreIsPaid ==
  ASSUME K!KillsAssumption, GoodDamage(K!Damage), u8 \subseteq Hitters
  PROVE  SumOver(K!DistributeExperiencePoints, Hitters) <= Worth
<1> DEFINE E == K!Entries
           all_paid == SumOver(Shares, E)
           written == SumOver(Totals(u4), E)
           paid == SumOver(K!DistributeExperiencePoints, Hitters)
<1>0. /\ IsFiniteSet(Hitters) /\ IsFiniteSet(Rows) /\ E \in SUBSET Rows /\ None \notin Hitters /\ Worth \in Nat
  BY KillsAssumed DEF K!Entries, Rows
<1>1. /\ u4 \in [Rows -> [who : Hitters \cup {None}, total : Nat]] /\ u6 \in Nat
      /\ \A i \in Rows : u4[i].total <= u6 /\ (u4[i].who # None => u4[i].total > 0)
      /\ SumOver(Totals(u4), Rows) <= u6
  BY DamageIs DEF GoodDamage
<1>2. IsFiniteSet(E)
  BY <1>0, FS_Subset
<1>3. CASE E = {}
  <2>1. \A x \in Hitters : RowsOf[x] = {}
    BY <1>3, PaidByRows
  <2>2. RowsOf \in [Hitters -> SUBSET {}]
    BY <2>1 DEF RowsOf
  <2>3. \A i \in {} : Shares[i] \in Nat
    OBVIOUS
  <2>4. \A x \in Hitters : K!DistributeExperiencePoints[x] = SumOver(Shares, RowsOf[x])
    BY PaidByRows
  <2>5. \A x, y \in Hitters : x # y => RowsOf[x] \cap RowsOf[y] = {}
    BY <2>1
  <2>6. paid <= SumOver(Shares, {})
    BY <1>0, <2>2, <2>3, <2>4, <2>5, FS_EmptySet, SumOfParts
  <2>7. paid <= 0
    BY <2>6, SumOfNone
  <2>8. paid \in Int
    <3>1. \A x \in Hitters : K!DistributeExperiencePoints[x] = 0
      BY <2>1, <2>4, SumOfNone
    <3> QED BY <1>0, <3>1, SumTake
  <2> HIDE DEF paid
  <2> QED BY <1>0, <2>7, <2>8 DEF paid
<1>4. CASE E # {}
  <2>1. u6 # 0
    <3>1. PICK i \in Rows : u4[i].who \in u8
      BY <1>4 DEF K!Entries, Rows
    <3> QED BY <1>0, <1>1, <3>1
  <2> DEFINE t == Totals(u4)
  <2>2. \A i \in Rows : t[i] = u4[i].total /\ t[i] \in Nat
    BY <1>1 DEF Totals
  <2>3. \A i \in E : t[i] \in Nat /\ Shares[i] = (t[i] * Worth) \div u6
    BY <1>0, <2>2 DEF Shares, K!Share
  <2> HIDE DEF t
  <2>4. (\A i \in E : Shares[i] \in Nat) /\ u6 * SumOver(Shares, E) <= Worth * SumOver(t, E)
    BY <1>0, <1>1, <1>2, <2>1, <2>3, SharesOf
  <2>5. SumOver(t, E) \in Nat /\ SumOver(t, E) <= u6
    <3>1. SumOver(t, E) \in Nat /\ SumOver(t, E) <= SumOver(t, Rows)
      BY <1>0, <2>2, SumOfLess
    <3>2. SumOver(t, Rows) <= u6 /\ SumOver(t, Rows) \in Nat
      BY <1>0, <1>1, <2>2, SumIsNatural DEF t
    <3> QED BY <1>1, <3>1, <3>2
  <2>6. SumOver(Shares, E) \in Nat
    BY <1>2, <2>4, SumIsNatural
  <2>7. SumOver(Shares, E) <= Worth
    BY <1>0, <1>1, <2>1, <2>4, <2>5, <2>6, Divided
  <2>8. RowsOf \in [Hitters -> SUBSET E]
    <3>1. \A x \in Hitters : RowsOf[x] \in SUBSET E
      BY PaidByRows
    <3> QED BY <3>1 DEF RowsOf
  <2>9. \A x, y \in Hitters : x # y => RowsOf[x] \cap RowsOf[y] = {}
    BY DEF RowsOf
  <2>10. \A x \in Hitters : K!DistributeExperiencePoints[x] = SumOver(Shares, RowsOf[x])
    BY PaidByRows
  <2>11. paid <= all_paid
    BY <1>0, <1>2, <2>4, <2>8, <2>9, <2>10, SumOfParts
  <2>12. paid \in Int
    <3>1. \A x \in Hitters : K!DistributeExperiencePoints[x] \in Int
      BY <1>2, <2>4, <2>8, <2>10, SumOfLess
    <3> QED BY <1>0, <3>1, SumTake
  <2> HIDE DEF paid
  <2>13. paid <= Worth
    BY <1>0, <2>6, <2>7, <2>11, <2>12
  <2> QED BY <2>13 DEF paid
<1> QED BY <1>3, <1>4

LEMMA KillsIInvImpliesInv ==
  ASSUME K!KillsAssumption, KillsIInv PROVE K!KillsInv
<1>0. /\ IsFiniteSet(Rows) /\ MaxLost \in Nat
  BY KillsAssumed
<1>1. /\ u4 \in [Rows -> [who : Hitters \cup {None}, total : Nat]] /\ u5 \in Rows /\ u6 \in Nat
      /\ \A i \in Rows : u4[i].total <= u6
      /\ \A i, j \in Rows : u4[i].who = u4[j].who => i = j \/ u4[i].who = None
      /\ SumOver(Totals(u4), Rows) <= u6 /\ u6 <= u9 /\ u9 \in 0 .. MaxLost
  BY DamageIs DEF GoodDamage, KillsIInv
<1>2. K!KillsTypeOK
  <2>1. u6 \in 0 .. MaxLost
    BY <1>0, <1>1
  <2>2. \A i \in Rows : u4[i].who \in Hitters \cup {None} /\ u4[i].total \in 0 .. MaxLost
                      /\ u4[i] = [who |-> u4[i].who, total |-> u4[i].total]
    BY <1>0, <1>1
  <2>3. ASSUME NEW i \in Rows PROVE u4[i] \in [who : Hitters \cup {None}, total : 0 .. MaxLost]
    <3> DEFINE x == u4[i].who
               n == u4[i].total
    <3>1. x \in Hitters \cup {None} /\ n \in 0 .. MaxLost /\ u4[i] = [who |-> x, total |-> n]
      BY <2>2
    <3> HIDE DEF x, n
    <3>2. [who |-> x, total |-> n] \in [who : Hitters \cup {None}, total : 0 .. MaxLost]
      BY <3>1
    <3> QED BY <3>1, <3>2
  <2>4. u4 \in [Rows -> [who : Hitters \cup {None}, total : 0 .. MaxLost]]
    BY <1>1, <2>3
  <2> QED BY <1>1, <2>1, <2>4 DEF K!KillsTypeOK, KillsIInv, Rows
<1>3. K!NothingMade
  <2>1. K!MapThenSumSet(K!Total, Rows) = SumOver(Totals(u4), Rows)
    BY <1>0, TotalsAre
  <2> QED BY <1>1, <2>1 DEF K!NothingMade, Rows
<1>4. K!OneEntryEach
  BY <1>1 DEF K!OneEntryEach, Rows
<1>5. K!NoMoreThanWorth
  <2>1. SumOver(K!DistributeExperiencePoints, Hitters) <= Worth
    BY NoMoreIsPaid DEF KillsIInv
  <2> QED BY <2>1 DEF K!NoMoreThanWorth, SumOver
<1> QED BY <1>2, <1>3, <1>4, <1>5 DEF K!KillsInv, KillsIInv

-----------------------------------------------------------------------------
(* Conditions (Conditions).  What a list of conditions gives depends on    *)
(* its set only, as no two of them have one key.                           *)

Kinds == {d.type : d \in Catalog} \cup {"infight", "invisible"}
Ids == {d.id : d \in Catalog} \cup {"default", "slot"}
Cond ==
  {c \in [type : Kinds, id : Ids, sub : Nat, left : Int, val : Int \cup O!Looking, disables : BOOLEAN] :
     /\ c.left >= -1
     /\ c.type # "outfit" => c.val \in Int
     /\ c.type = "outfit" => c.val \in O!Looking}
Body ==
  [speed : Int, skill : Int, defends : BOOLEAN, outfit : O!Looking,
   shown : O!Looking \cup {"hidden", "absent"}, locked : BOOLEAN]
Unique(l) == \A i, j \in 1 .. Len(l) : O!Key(l[i]) = O!Key(l[j]) => i = j
Held(D, t) == \E c \in D : c.type = t
Numbers == {"haste", "paralyze", "attributes"}

ValueOf == [c \in Cond |-> c.val]
SumOf(t, D) == SumOver(ValueOf, {c \in D : c.type \in t})

LEMMA SetOf ==
  ASSUME NEW l \in Seq(Cond)
  PROVE  /\ O!ToSet(l) = {l[i] : i \in 1 .. Len(l)}
         /\ O!ToSet(l) \in SUBSET Cond /\ IsFiniteSet(O!ToSet(l))
<1>1. O!ToSet(l) = {l[i] : i \in 1 .. Len(l)}
  BY DEF O!ToSet
<1>2. IsFiniteSet(1 .. Len(l))
  BY FS_Interval
<1> DEFINE f == [i \in 1 .. Len(l) |-> l[i]]
<1>3. f \in Surjection(1 .. Len(l), O!ToSet(l))
  BY <1>1 DEF Surjection
<1>4. IsFiniteSet(O!ToSet(l))
  <2> HIDE DEF f
  <2> QED BY <1>2, <1>3, FS_Surjection
<1> QED BY <1>1, <1>4

LEMMA SumWith ==
  ASSUME NEW D \in SUBSET Cond, IsFiniteSet(D), NEW t \in SUBSET Numbers, NEW d \in Cond, d \notin D
  PROVE  /\ SumOf(t, D) \in Int
         /\ SumOf(t, D \cup {d}) = SumOf(t, D) + IF d.type \in t THEN d.val ELSE 0
<1> DEFINE P == {c \in D : c.type \in t}
           Q == {c \in D \cup {d} : c.type \in t}
<1>0. IsFiniteSet(D \cup {d})
  BY FS_AddElement
<1>1. IsFiniteSet(P) /\ IsFiniteSet(Q)
  <2>1. P \subseteq D /\ Q \subseteq D \cup {d}
    OBVIOUS
  <2> HIDE DEF P, Q
  <2> QED BY <1>0, <2>1, FS_Subset
<1>2. \A c \in Q : ValueOf[c] \in Int
  BY DEF ValueOf, Cond, Numbers
<1>3. P \in SUBSET Q /\ (d.type \notin t => P = Q) /\ (d.type \in t => d \in Q \ P /\ Q = P \cup {d})
  OBVIOUS
<1>4. SumOver(ValueOf, P) \in Int
  <2>1. \A c \in P : ValueOf[c] \in Int
    BY <1>2, <1>3
  <2> HIDE DEF P, Q
  <2> QED BY <1>1, <2>1, SumTake
<1>5. CASE d.type \in t
  <2>1. SumOver(ValueOf, P \cup {d}) = ValueOf[d] + SumOver(ValueOf, P)
    <3> HIDE DEF P, Q
    <3> QED BY <1>1, <1>2, <1>3, <1>5, SumAdd
  <2>2. ValueOf[d] = d.val /\ d.val \in Int
    BY <1>5 DEF ValueOf, Cond, Numbers
  <2>3. SumOver(ValueOf, Q) = ValueOf[d] + SumOver(ValueOf, P)
    <3> HIDE DEF P, Q
    <3> QED BY <1>3, <1>5, <2>1
  <2> DEFINE n == SumOver(ValueOf, P)
  <2>4. n \in Int
    BY <1>4
  <2>5. SumOf(t, D) = n /\ SumOf(t, D \cup {d}) = ValueOf[d] + n
    BY <2>3 DEF SumOf
  <2> HIDE DEF n
  <2> QED BY <1>5, <2>2, <2>4, <2>5
<1>6. CASE d.type \notin t
  <2>1. SumOver(ValueOf, Q) = SumOver(ValueOf, P)
    <3> HIDE DEF P, Q
    <3> QED BY <1>3, <1>6
  <2> DEFINE n == SumOver(ValueOf, P)
  <2>4. n \in Int
    BY <1>4
  <2>5. SumOf(t, D) = n /\ SumOf(t, D \cup {d}) = n
    BY <2>1 DEF SumOf
  <2> HIDE DEF n
  <2> QED BY <1>6, <2>4, <2>5
<1> QED BY <1>5, <1>6

LEMMA SumWithout ==
  ASSUME NEW D \in SUBSET Cond, IsFiniteSet(D), NEW t \in SUBSET Numbers, NEW d \in D
  PROVE  /\ SumOf(t, D) \in Int
         /\ SumOf(t, D \ {d}) = SumOf(t, D) - IF d.type \in t THEN d.val ELSE 0
<1> DEFINE B == D \ {d}
           m == IF d.type \in t THEN d.val ELSE 0
<1>1. B \in SUBSET Cond /\ IsFiniteSet(B) /\ d \notin B /\ D = B \cup {d} /\ d \in Cond
  BY FS_Subset
<1>2. m \in Int
  BY <1>1 DEF Cond, Numbers
<1> HIDE DEF B, m
<1>3. SumOf(t, B) \in Int /\ SumOf(t, B \cup {d}) = SumOf(t, B) + m
  BY <1>1, SumWith DEF m
<1>4. SumOf(t, D) = SumOf(t, B) + m
  BY <1>1, <1>3
<1> QED BY <1>2, <1>3, <1>4 DEF B, m

\* Other members that give the same.
LEMMA SumMoved ==
  ASSUME NEW D \in SUBSET Cond, IsFiniteSet(D), NEW t \in SUBSET Numbers, NEW F \in [D -> Cond],
         \A c \in D : F[c].type = c.type /\ F[c].val = c.val,
         \A c, d \in D : F[c] = F[d] => c = d
  PROVE  SumOf(t, {F[c] : c \in D}) = SumOf(t, D)
<1> DEFINE Im(s) == {F[c] : c \in s}
           P == {s \in SUBSET D : SumOf(t, Im(s)) = SumOf(t, s)}
<1>1. {} \in P
  <2>1. Im({}) = {}
    OBVIOUS
  <2> QED BY <2>1
<1>2. ASSUME NEW s \in SUBSET D, NEW x \in D \ s, s \in P PROVE s \cup {x} \in P
  <2>1. Im(s \cup {x}) = Im(s) \cup {F[x]} /\ Im(s) \in SUBSET Cond /\ F[x] \notin Im(s) /\ F[x] \in Cond
    OBVIOUS
  <2>2. IsFiniteSet(s)
    BY FS_Subset
  <2>3. IsFiniteSet(Im(s))
    <3> DEFINE f == [c \in s |-> F[c]]
    <3>1. f \in Surjection(s, Im(s))
      BY DEF Surjection
    <3> HIDE DEF f, Im
    <3> QED BY <2>2, <3>1, FS_Surjection
  <2> DEFINE m == IF x.type \in t THEN x.val ELSE 0
             R == Im(s)
  <2>4. m = IF F[x].type \in t THEN F[x].val ELSE 0
    OBVIOUS
  <2>5. SumOf(t, R \cup {F[x]}) = SumOf(t, R) + m
    <3> HIDE DEF R, m, Im
    <3>1. R \in SUBSET Cond /\ IsFiniteSet(R) /\ F[x] \in Cond /\ F[x] \notin R
      BY <2>1, <2>3 DEF R
    <3> QED BY <3>1, <2>4, SumWith
  <2>6. SumOf(t, s \cup {x}) = SumOf(t, s) + m
    <3>1. s \in SUBSET Cond /\ x \in Cond /\ x \notin s
      OBVIOUS
    <3> QED BY <2>2, <3>1, SumWith
  <2>7. SumOf(t, R) = SumOf(t, s)
    BY <1>2
  <2>8. s \cup {x} \in SUBSET D
    OBVIOUS
  <2> HIDE DEF m, Im
  <2> QED BY <2>1, <2>5, <2>6, <2>7, <2>8 DEF R
<1> HIDE DEF P
<1>3. D \in P
  BY <1>1, <1>2, OneByOne
<1> QED BY <1>3 DEF P

\* The list with one more, one less, one for another.
LEMMA ListWith ==
  ASSUME NEW l \in Seq(Cond), Unique(l), NEW d \in Cond, \A c \in O!ToSet(l) : O!Key(c) # O!Key(d)
  PROVE  /\ Append(l, d) \in Seq(Cond) /\ Unique(Append(l, d))
         /\ O!ToSet(Append(l, d)) = O!ToSet(l) \cup {d}
<1> DEFINE s == Append(l, d)
<1>1. s \in Seq(Cond) /\ Len(s) = Len(l) + 1 /\ s[Len(l) + 1] = d /\ \A i \in 1 .. Len(l) : s[i] = l[i]
  OBVIOUS
<1> HIDE DEF s
<1>2. O!ToSet(l) = {l[i] : i \in 1 .. Len(l)} /\ O!ToSet(s) = {s[i] : i \in 1 .. Len(s)}
  BY <1>1, SetOf
<1>3. \A i \in 1 .. Len(s) : i \in 1 .. Len(l) \/ i = Len(l) + 1
  BY <1>1
<1>4. \A i \in 1 .. Len(l) : i \in 1 .. Len(s) /\ Len(l) + 1 \in 1 .. Len(s)
  BY <1>1
<1>5. Len(l) + 1 \in 1 .. Len(s)
  BY <1>1
<1>6. O!ToSet(s) = O!ToSet(l) \cup {d}
  BY <1>1, <1>2, <1>3, <1>4, <1>5
<1>7. Unique(s)
  <2>1. \A i \in 1 .. Len(l) : O!Key(l[i]) # O!Key(d)
    BY <1>2
  <2> QED BY <2>1, <1>1, <1>3 DEF Unique
<1> QED BY <1>1, <1>6, <1>7 DEF s

LEMMA ListWithout ==
  ASSUME NEW l \in Seq(Cond), Unique(l), NEW c \in O!ToSet(l)
  PROVE  /\ O!Without(l, c) \in Seq(Cond) /\ Unique(O!Without(l, c))
         /\ O!ToSet(O!Without(l, c)) = O!ToSet(l) \ {c}
<1> DEFINE i == CHOOSE j \in DOMAIN l : l[j] = c
<1>0. O!ToSet(l) = {l[j] : j \in 1 .. Len(l)} /\ DOMAIN l = 1 .. Len(l) /\ Len(l) \in Nat
  BY SetOf
<1>1. i \in 1 .. Len(l) /\ l[i] = c
  BY <1>0
<1> DEFINE x == SubSeq(l, 1, i - 1)
           y == SubSeq(l, i + 1, Len(l))
           s == x \o y
<1>2. O!Without(l, c) = s
  BY DEF O!Without, O!RemoveAt
<1> HIDE DEF i
<1>3. /\ x \in Seq(Cond) /\ Len(x) = i - 1 /\ \A k \in 1 .. (i - 1) : x[k] = l[k]
  BY <1>1
<1>4. /\ y \in Seq(Cond) /\ Len(y) = Len(l) - i /\ \A k \in 1 .. (Len(l) - i) : y[k] = l[i + k]
  BY <1>1
<1> HIDE DEF x, y
<1>5. s \in Seq(Cond) /\ Len(s) = Len(l) - 1
  <2>1. s \in Seq(Cond) /\ Len(s) = Len(x) + Len(y)
    BY <1>3, <1>4, ConcatProperties
  <2> HIDE DEF s
  <2> QED BY <1>0, <1>1, <1>3, <1>4, <2>1
<1> DEFINE old(k) == IF k < i THEN k ELSE k + 1
<1>6. ASSUME NEW k \in 1 .. Len(s) PROVE old(k) \in 1 .. Len(l) /\ old(k) # i /\ s[k] = l[old(k)]
  <2>1. k \in 1 .. Len(x) + Len(y) /\ k \in 1 .. (Len(l) - 1)
    BY <1>0, <1>1, <1>3, <1>4, <1>5
  <2>2. s[k] = IF k <= Len(x) THEN x[k] ELSE y[k - Len(x)]
    BY <1>3, <1>4, <2>1, ConcatProperties
  <2> HIDE DEF s
  <2>3. CASE k < i
    BY <1>0, <1>1, <1>3, <2>1, <2>2, <2>3
  <2>4. CASE k >= i
    <3> DEFINE m == k - (i - 1)
    <3>1. m \in 1 .. (Len(l) - i) /\ i + m = k + 1 /\ ~(k <= Len(x)) /\ m = k - Len(x)
      <4>1. i \in Int /\ k \in Int /\ Len(l) \in Int /\ Len(x) = i - 1 /\ k >= i /\ k <= Len(l) - 1
        BY <1>0, <1>1, <1>3, <2>1, <2>4
      <4> HIDE DEF x
      <4> QED BY <4>1
    <3> HIDE DEF m
    <3>2. y[m] = l[i + m]
      BY <1>4, <3>1
    <3> QED BY <1>0, <1>1, <2>1, <2>2, <2>4, <3>1, <3>2
  <2> QED BY <1>1, <2>1, <2>3, <2>4
<1> HIDE DEF s
<1>7. \A j \in 1 .. Len(l) : j # i => \E k \in 1 .. Len(s) : old(k) = j
  <2> TAKE j \in 1 .. Len(l)
  <2> HAVE j # i
  <2>1. CASE j < i
    <3>1. j \in 1 .. Len(s) /\ old(j) = j
      BY <1>0, <1>1, <1>5, <2>1
    <3> QED BY <3>1
  <2>2. CASE j > i
    <3>1. j - 1 \in 1 .. Len(s) /\ old(j - 1) = j
      BY <1>0, <1>1, <1>5, <2>2
    <3> QED BY <3>1
  <2> QED BY <1>1, <2>1, <2>2
<1>8. \A k, m \in 1 .. Len(s) : old(k) = old(m) => k = m
  BY <1>1, <1>5
<1> HIDE DEF old
<1>9. Unique(s)
  BY <1>6, <1>8 DEF Unique
<1>10. O!ToSet(s) = {s[k] : k \in 1 .. Len(s)}
  BY <1>5, SetOf
<1>11. \A j \in 1 .. Len(l) : l[j] = c => j = i
  BY <1>1 DEF Unique
<1>12. O!ToSet(s) \subseteq O!ToSet(l) \ {c}
  BY <1>0, <1>6, <1>10, <1>11
<1>13. O!ToSet(l) \ {c} \subseteq O!ToSet(s)
  BY <1>0, <1>1, <1>6, <1>7, <1>10
<1> QED BY <1>2, <1>5, <1>9, <1>12, <1>13

LEMMA ListSwapped ==
  ASSUME NEW l \in Seq(Cond), Unique(l), NEW c \in O!ToSet(l), NEW d \in Cond, O!Key(d) = O!Key(c)
  PROVE  /\ O!ReplaceAll(l, c, d) \in Seq(Cond) /\ Unique(O!ReplaceAll(l, c, d))
         /\ O!ToSet(O!ReplaceAll(l, c, d)) = (O!ToSet(l) \ {c}) \cup {d}
<1> DEFINE s == O!ReplaceAll(l, c, d)
<1>0. O!ToSet(l) = {l[j] : j \in 1 .. Len(l)} /\ Len(l) \in Nat /\ \A j \in 1 .. Len(l) : l[j] \in Cond
  BY SetOf
<1>1. s = [j \in 1 .. Len(l) |-> IF l[j] = c THEN d ELSE l[j]]
  BY DEF O!ReplaceAll
<1>2. s \in [1 .. Len(l) -> Cond] /\ \A j \in 1 .. Len(l) : s[j] = IF l[j] = c THEN d ELSE l[j]
  BY <1>0, <1>1
<1> HIDE DEF s
<1>3. s \in Seq(Cond) /\ Len(s) = Len(l)
  BY <1>0, <1>2, SeqDef, LenProperties
<1>4. \A j \in 1 .. Len(l) : O!Key(s[j]) = O!Key(l[j])
  BY <1>2
<1>5. Unique(s)
  BY <1>3, <1>4 DEF Unique
<1>6. PICK i \in 1 .. Len(l) : l[i] = c
  BY <1>0
<1>7. \A j \in 1 .. Len(l) : l[j] = c <=> j = i
  BY <1>6 DEF Unique
<1>8. O!ToSet(s) = {s[k] : k \in 1 .. Len(l)}
  BY <1>3, SetOf
<1>9. O!ToSet(s) = (O!ToSet(l) \ {c}) \cup {d}
  BY <1>0, <1>2, <1>6, <1>7, <1>8
<1> QED BY <1>3, <1>5, <1>9 DEF s

\* What every step keeps, the last state has.
LEMMA LoopStays ==
  ASSUME NEW S, NEW N \in Nat, NEW f, f[0] \in S,
         \A n \in 1 .. N : f[n - 1] \in S => f[n] \in S
  PROVE  f[N] \in S
<1> DEFINE P == {n \in Nat : n <= N => f[n] \in S}
<1>1. 0 \in P
  OBVIOUS
<1>2. ASSUME NEW n \in Nat, n \in P PROVE n + 1 \in P
  <2> SUFFICES ASSUME n + 1 <= N PROVE f[n + 1] \in S
    OBVIOUS
  <2>1. n + 1 \in 1 .. N /\ (n + 1) - 1 = n /\ f[n] \in S
    BY <1>2
  <2> QED BY <2>1
<1>3. N \in P
  <2> HIDE DEF P
  <2> QED BY <1>1, <1>2, AllNumbers
<1> QED BY <1>3

\* What a spectator sees, and the body bd that agrees with the conditions D, n from the ring.
Seen(D, o) == IF u4 THEN "absent" ELSE IF Held(D, "invisible") THEN "hidden" ELSE o
Moving == {"haste", "paralyze"}
Training == {"attributes"}
Adds(c, t) == IF c.type \in t THEN c.val ELSE 0
Sums(D, bd, n) ==
  bd.speed = SumOf(Moving, D) + n /\ bd.skill = SumOf(Training, D)
Shows(D, bd) ==
  /\ bd.shown = Seen(D, bd.outfit)
  /\ bd.outfit # u3 => Held(D, "outfit")
Guards(D, bd) == ~bd.defends => \E c \in D : c.type = "attributes" /\ c.disables
Locks(D, bd) == bd.locked => Held(D, "infight")
Keyed(D) ==
  D \in SUBSET Cond /\ IsFiniteSet(D) /\ \A c, d \in D : O!Key(c) = O!Key(d) => c = d
Fine(D, bd, n) ==
  Keyed(D) /\ bd \in Body /\ Sums(D, bd, n) /\ Shows(D, bd) /\ Guards(D, bd)

Gained(D, bd, d, be) ==
  /\ be.speed = bd.speed + Adds(d, Moving)
  /\ be.skill = bd.skill + Adds(d, Training)
  /\ be.defends = IF d.type = "attributes" THEN ~d.disables ELSE bd.defends
  /\ be.outfit = IF d.type = "outfit" THEN d.val ELSE bd.outfit
  /\ be.shown = IF d.type = "outfit" THEN (IF u4 \/ Held(D, "invisible") THEN bd.shown ELSE d.val)
                ELSE IF d.type = "invisible" /\ ~u4 THEN "hidden" ELSE bd.shown
  /\ be.locked = bd.locked

Lost(D, bd, c, be) ==
  /\ be.speed = bd.speed - Adds(c, Moving)
  /\ be.skill = bd.skill - Adds(c, Training)
  /\ be.defends = IF c.type = "attributes" THEN bd.defends \/ c.disables ELSE bd.defends
  /\ be.outfit = IF c.type = "outfit" THEN u3 ELSE bd.outfit
  /\ be.shown = IF c.type = "outfit" THEN (IF u4 \/ Held(D, "invisible") THEN bd.shown ELSE u3)
                ELSE IF c.type = "invisible" THEN (IF u4 \/ Held(D, "invisible") THEN bd.shown ELSE bd.outfit)
                ELSE bd.shown
  /\ be.locked = IF c.type = "infight" THEN FALSE ELSE bd.locked

Traded(D, bd, c, d, be) ==
  /\ be.speed = bd.speed - Adds(c, Moving) + Adds(d, Moving)
  /\ be.skill = bd.skill - Adds(c, Training) + Adds(d, Training)
  /\ be.defends = IF c.type = "attributes" THEN bd.defends \/ c.disables ELSE bd.defends
  /\ be.outfit = IF d.type = "outfit" THEN d.val ELSE bd.outfit
  /\ be.shown = IF d.type = "outfit" THEN (IF u4 \/ Held(D, "invisible") THEN bd.shown ELSE d.val)
                ELSE bd.shown
  /\ be.locked = bd.locked

LEMMA AddsIs ==
  ASSUME NEW c \in Cond, NEW t \in SUBSET Numbers PROVE Adds(c, t) \in Int
BY DEF Adds, Cond, Numbers

LEMMA KeyOf ==
  ASSUME NEW c \in Cond, NEW d \in Cond, O!Key(c) = O!Key(d) PROVE c.type = d.type
BY DEF O!Key

LEMMA GainedFine ==
  ASSUME NEW D, NEW bd, NEW n \in Int, Fine(D, bd, n), NEW d \in Cond, \A c \in D : O!Key(c) # O!Key(d),
         NEW be \in Body, Gained(D, bd, d, be)
  PROVE  /\ Fine(D \cup {d}, be, n)
         /\ Locks(D, bd) => Locks(D \cup {d}, be)
<1>0. D \in SUBSET Cond /\ IsFiniteSet(D) /\ d \notin D /\ bd \in Body
  BY DEF Fine, Keyed
<1>1. Keyed(D \cup {d})
  <2>1. IsFiniteSet(D \cup {d})
    BY <1>0, FS_AddElement
  <2>2. \A c, e \in D \cup {d} : O!Key(c) = O!Key(e) => c = e
    BY DEF Fine, Keyed
  <2> QED BY <1>0, <2>1, <2>2 DEF Keyed
<1>2. Sums(D \cup {d}, be, n)
  <2>1. ASSUME NEW t \in SUBSET Numbers PROVE SumOf(t, D) \in Int /\ SumOf(t, D \cup {d}) = SumOf(t, D) + Adds(d, t)
    BY <1>0, SumWith DEF Adds
  <2>2. Moving \in SUBSET Numbers /\ Training \in SUBSET Numbers
    BY DEF Numbers, Moving, Training
  <2>3. Adds(d, Moving) \in Int /\ Adds(d, Training) \in Int
    BY <2>2, AddsIs
  <2>4. Sums(D, bd, n)
    BY DEF Fine
  <2>5. SumOf(Moving, D) \in Int /\ SumOf(Moving, D \cup {d}) = SumOf(Moving, D) + Adds(d, Moving)
    BY <2>1, <2>2
  <2>6. SumOf(Training, D) \in Int /\ SumOf(Training, D \cup {d}) = SumOf(Training, D) + Adds(d, Training)
    BY <2>1, <2>2
  <2> QED BY <2>3, <2>4, <2>5, <2>6 DEF Sums, Gained
<1>3. Shows(D \cup {d}, be)
  <2>1. \A t : Held(D \cup {d}, t) <=> Held(D, t) \/ d.type = t
    BY DEF Held
  <2>2. Shows(D, bd)
    BY DEF Fine
  <2> QED BY <2>1, <2>2 DEF Shows, Seen, Gained
<1>4. Guards(D \cup {d}, be)
  <2>1. Guards(D, bd) /\ be.defends = IF d.type = "attributes" THEN ~d.disables ELSE bd.defends
    BY DEF Fine, Gained
  <2>2. d.disables \in BOOLEAN /\ bd.defends \in BOOLEAN
    BY <1>0 DEF Cond, Body
  <2> QED BY <2>1, <2>2 DEF Guards
<1>5. Locks(D, bd) => Locks(D \cup {d}, be)
  BY DEF Locks, Held, Gained
<1> QED BY <1>1, <1>2, <1>3, <1>4, <1>5 DEF Fine

LEMMA LostFine ==
  ASSUME NEW D, NEW bd, NEW n \in Int, Fine(D, bd, n), NEW c \in D,
         NEW be \in Body, Lost(D \ {c}, bd, c, be)
  PROVE  /\ Fine(D \ {c}, be, n)
         /\ Locks(D, bd) => Locks(D \ {c}, be)
<1>0. D \in SUBSET Cond /\ IsFiniteSet(D) /\ bd \in Body /\ c \in Cond
  BY DEF Fine, Keyed
<1>1. Keyed(D \ {c})
  <2>1. IsFiniteSet(D \ {c})
    BY <1>0, FS_Subset
  <2> QED BY <1>0, <2>1 DEF Keyed, Fine
<1>2. Sums(D \ {c}, be, n)
  <2>1. ASSUME NEW t \in SUBSET Numbers PROVE SumOf(t, D) \in Int /\ SumOf(t, D \ {c}) = SumOf(t, D) - Adds(c, t)
    BY <1>0, SumWithout DEF Adds
  <2>2. Moving \in SUBSET Numbers /\ Training \in SUBSET Numbers
    BY DEF Numbers, Moving, Training
  <2>3. Adds(c, Moving) \in Int /\ Adds(c, Training) \in Int
    BY <1>0, <2>2, AddsIs
  <2>4. Sums(D, bd, n)
    BY DEF Fine
  <2>5. SumOf(Moving, D) \in Int /\ SumOf(Moving, D \ {c}) = SumOf(Moving, D) - Adds(c, Moving)
    BY <2>1, <2>2
  <2>6. SumOf(Training, D) \in Int /\ SumOf(Training, D \ {c}) = SumOf(Training, D) - Adds(c, Training)
    BY <2>1, <2>2
  <2> QED BY <2>3, <2>4, <2>5, <2>6 DEF Sums, Lost
<1>3. Shows(D \ {c}, be)
  <2>1. \A t : c.type # t => (Held(D \ {c}, t) <=> Held(D, t))
    BY DEF Held
  <2>2. Shows(D, bd) /\ (Held(D \ {c}, "invisible") => Held(D, "invisible"))
    BY DEF Fine, Held
  <2>3. c.type = "invisible" => Held(D, "invisible")
    BY DEF Held
  <2> QED BY <2>1, <2>2, <2>3 DEF Shows, Seen, Lost
<1>4. Guards(D \ {c}, be)
  <2>1. Guards(D, bd) /\ be.defends = IF c.type = "attributes" THEN bd.defends \/ c.disables ELSE bd.defends
    BY DEF Fine, Lost
  <2>2. c.disables \in BOOLEAN /\ bd.defends \in BOOLEAN
    BY <1>0 DEF Cond, Body
  <2> QED BY <2>1, <2>2 DEF Guards
<1>5. Locks(D, bd) => Locks(D \ {c}, be)
  BY DEF Locks, Held, Lost
<1> QED BY <1>1, <1>2, <1>3, <1>4, <1>5 DEF Fine

LEMMA TradedFine ==
  ASSUME NEW D, NEW bd, NEW n \in Int, Fine(D, bd, n), NEW c \in D, NEW d \in Cond, O!Key(d) = O!Key(c),
         NEW be \in Body, Traded(D, bd, c, d, be)
  PROVE  /\ Fine((D \ {c}) \cup {d}, be, n)
         /\ \A t : Held((D \ {c}) \cup {d}, t) <=> Held(D, t)
<1> DEFINE E == D \ {c}
           F == E \cup {d}
<1>0. /\ D \in SUBSET Cond /\ IsFiniteSet(D) /\ bd \in Body /\ c \in Cond /\ d.type = c.type
      /\ \A x \in E : O!Key(x) # O!Key(d)
  <2>1. D \in SUBSET Cond /\ IsFiniteSet(D) /\ bd \in Body /\ c \in Cond
    BY DEF Fine, Keyed
  <2>2. d.type = c.type
    BY <2>1, KeyOf
  <2>3. \A x \in E : O!Key(x) # O!Key(d)
    BY DEF Fine, Keyed
  <2> QED BY <2>1, <2>2, <2>3
<1>a. IsFiniteSet(E) /\ d \notin E /\ E \in SUBSET Cond
  BY <1>0, FS_Subset
<1>1. Keyed(F)
  <2>1. IsFiniteSet(F)
    BY <1>a, FS_AddElement
  <2>2. \A x, y \in E : O!Key(x) = O!Key(y) => x = y
    BY DEF Fine, Keyed
  <2> QED BY <1>0, <1>a, <2>1, <2>2 DEF Keyed
<1>2. Sums(F, be, n)
  <2>1. ASSUME NEW t \in SUBSET Numbers
        PROVE  /\ SumOf(t, D) \in Int /\ Adds(c, t) \in Int /\ Adds(d, t) \in Int
               /\ SumOf(t, F) = SumOf(t, D) - Adds(c, t) + Adds(d, t)
    <3>1. SumOf(t, D) \in Int /\ SumOf(t, E) = SumOf(t, D) - Adds(c, t)
      BY <1>0, SumWithout DEF Adds
    <3>2. SumOf(t, E) \in Int /\ SumOf(t, F) = SumOf(t, E) + Adds(d, t)
      BY <1>a, SumWith DEF Adds
    <3>3. Adds(c, t) \in Int /\ Adds(d, t) \in Int
      BY <1>0, AddsIs
    <3> HIDE DEF E, F
    <3> QED BY <3>1, <3>2, <3>3
  <2>2. Moving \in SUBSET Numbers /\ Training \in SUBSET Numbers
    BY DEF Numbers, Moving, Training
  <2>4. Sums(D, bd, n)
    BY DEF Fine
  <2> HIDE DEF F
  <2>5. /\ SumOf(Moving, D) \in Int /\ Adds(c, Moving) \in Int /\ Adds(d, Moving) \in Int
        /\ SumOf(Moving, F) = SumOf(Moving, D) - Adds(c, Moving) + Adds(d, Moving)
    BY <2>1, <2>2
  <2>6. /\ SumOf(Training, D) \in Int /\ Adds(c, Training) \in Int /\ Adds(d, Training) \in Int
        /\ SumOf(Training, F) = SumOf(Training, D) - Adds(c, Training) + Adds(d, Training)
    BY <2>1, <2>2
  <2> QED BY <2>4, <2>5, <2>6 DEF Sums, Traded
<1>3. \A t : Held(F, t) <=> Held(D, t)
  BY <1>0 DEF Held
<1>4. Shows(F, be)
  <2>1. Shows(D, bd) /\ (d.type = "outfit" => Held(D, "outfit"))
    BY <1>0 DEF Fine, Held
  <2> HIDE DEF F
  <2> QED BY <1>0, <1>3, <2>1 DEF Shows, Seen, Traded
<1>5. Guards(F, be)
  <2>1. Guards(D, bd) /\ be.defends = IF c.type = "attributes" THEN bd.defends \/ c.disables ELSE bd.defends
    BY DEF Fine, Traded
  <2>2. c.disables \in BOOLEAN /\ bd.defends \in BOOLEAN
    BY <1>0 DEF Cond, Body
  <2> QED BY <2>1, <2>2 DEF Guards
<1> QED BY <1>1, <1>2, <1>3, <1>4, <1>5 DEF Fine

State == [cs : Seq(Cond), b : Body]
Owned == u3 \in Outfits /\ u4 \in BOOLEAN

LEMMA StateIs ==
  ASSUME NEW l \in Seq(Cond), NEW bd \in Body
  PROVE  [cs |-> l, b |-> bd] \in State /\ [cs |-> l, b |-> bd].cs = l /\ [cs |-> l, b |-> bd].b = bd
BY DEF State

LEMMA BodyWith ==
  ASSUME NEW bd \in Body
  PROVE  /\ \A v \in Int : LET be == [bd EXCEPT !.speed = v] IN
              /\ be \in Body /\ be.speed = v /\ be.skill = bd.skill /\ be.defends = bd.defends
              /\ be.outfit = bd.outfit /\ be.shown = bd.shown /\ be.locked = bd.locked
         /\ \A v \in Int : LET be == [bd EXCEPT !.skill = v] IN
              /\ be \in Body /\ be.speed = bd.speed /\ be.skill = v /\ be.defends = bd.defends
              /\ be.outfit = bd.outfit /\ be.shown = bd.shown /\ be.locked = bd.locked
         /\ \A v \in BOOLEAN : LET be == [bd EXCEPT !.defends = v] IN
              /\ be \in Body /\ be.speed = bd.speed /\ be.skill = bd.skill /\ be.defends = v
              /\ be.outfit = bd.outfit /\ be.shown = bd.shown /\ be.locked = bd.locked
         /\ \A v \in BOOLEAN : LET be == [bd EXCEPT !.locked = v] IN
              /\ be \in Body /\ be.speed = bd.speed /\ be.skill = bd.skill /\ be.defends = bd.defends
              /\ be.outfit = bd.outfit /\ be.shown = bd.shown /\ be.locked = v
BY DEF Body

LEMMA ChangeOutfitIs ==
  ASSUME Owned, NEW s \in State, NEW o \in O!Looking
  PROVE  LET t == O!ChangeOutfit(s, o) IN
         /\ t \in State /\ t.cs = s.cs /\ t.b.outfit = o
         /\ t.b.shown = IF u4 \/ Held(O!ToSet(s.cs), "invisible") THEN s.b.shown ELSE o
         /\ t.b.speed = s.b.speed /\ t.b.skill = s.b.skill /\ t.b.defends = s.b.defends
         /\ t.b.locked = s.b.locked
<1> DEFINE sh == IF u4 \/ Held(O!ToSet(s.cs), "invisible") THEN s.b.shown ELSE o
           bd == [[s.b EXCEPT !.outfit = o] EXCEPT !.shown = sh]
           t == [s EXCEPT !.b = bd]
<1>1. sh \in O!Looking \cup {"hidden", "absent"}
  BY DEF State, Body
<1>2. O!ChangeOutfit(s, o) = t
  <2>1. O!Has(s.cs, "invisible") = Held(O!ToSet(s.cs), "invisible")
    BY DEF O!Has, Held
  <2>2. [s.b EXCEPT !.outfit = o].shown = s.b.shown
    BY DEF State, Body
  <2> QED BY <2>1, <2>2 DEF O!ChangeOutfit, State, Body
<1> HIDE DEF sh
<1>3. bd \in Body /\ bd.outfit = o /\ bd.shown = sh /\ bd.speed = s.b.speed /\ bd.skill = s.b.skill
      /\ bd.defends = s.b.defends /\ bd.locked = s.b.locked
  BY <1>1 DEF State, Body
<1> HIDE DEF bd
<1>4. t \in State /\ t.cs = s.cs /\ t.b = bd
  BY <1>3 DEF State
<1> QED BY <1>2, <1>3, <1>4 DEF sh

LEMMA ApplyIs ==
  ASSUME Owned, NEW s \in State, NEW d \in Cond
  PROVE  LET t == O!Apply(s, d) IN
         /\ t \in State /\ t.cs = s.cs
         /\ t.b.speed = s.b.speed + Adds(d, Moving) /\ t.b.skill = s.b.skill + Adds(d, Training)
         /\ t.b.outfit = IF d.type = "outfit" THEN d.val ELSE s.b.outfit
         /\ t.b.shown = IF d.type = "outfit" /\ ~(u4 \/ Held(O!ToSet(s.cs), "invisible")) THEN d.val ELSE s.b.shown
         /\ t.b.defends = s.b.defends /\ t.b.locked = s.b.locked
<1> DEFINE t == O!Apply(s, d)
<1>0. s.b \in Body /\ s.cs \in Seq(Cond) /\ s.b.speed \in Int /\ s.b.skill \in Int
  BY DEF State, Body
<1>1. CASE d.type \in Moving
  <2>1. t = [s EXCEPT !.b.speed = @ + d.val] /\ d.val \in Int
    BY <1>1 DEF O!Apply, O!Speeds, Moving, Cond
  <2> DEFINE bd == [s.b EXCEPT !.speed = s.b.speed + d.val]
  <2>2. t = [s EXCEPT !.b = bd]
    BY <2>1 DEF State
  <2>3. bd \in Body /\ bd.outfit = s.b.outfit /\ bd.shown = s.b.shown /\ bd.speed = s.b.speed + d.val
        /\ bd.skill = s.b.skill /\ bd.defends = s.b.defends /\ bd.locked = s.b.locked
    <3> DEFINE v == s.b.speed + d.val
    <3>1. v \in Int
      BY <1>0, <2>1
    <3> HIDE DEF v
    <3> QED BY <1>0, <3>1, BodyWith DEF v
  <2> HIDE DEF bd, t
  <2>4. t \in State /\ t.cs = s.cs /\ t.b = bd
    BY <2>2, <2>3 DEF State
  <2>5. Adds(d, Moving) = d.val /\ Adds(d, Training) = 0 /\ d.type # "outfit"
    BY <1>1 DEF Adds, Moving, Training
  <2> QED BY <1>0, <2>3, <2>4, <2>5 DEF t
<1>2. CASE d.type = "attributes"
  <2>1. t = [s EXCEPT !.b.skill = @ + d.val] /\ d.val \in Int
    BY <1>2 DEF O!Apply, O!Speeds, Cond
  <2> DEFINE bd == [s.b EXCEPT !.skill = s.b.skill + d.val]
  <2>2. t = [s EXCEPT !.b = bd]
    BY <2>1 DEF State
  <2>3. bd \in Body /\ bd.outfit = s.b.outfit /\ bd.shown = s.b.shown /\ bd.skill = s.b.skill + d.val
        /\ bd.speed = s.b.speed /\ bd.defends = s.b.defends /\ bd.locked = s.b.locked
    BY <1>0, <2>1 DEF Body
  <2> HIDE DEF bd, t
  <2>4. t \in State /\ t.cs = s.cs /\ t.b = bd
    BY <2>2, <2>3 DEF State
  <2>5. Adds(d, Training) = d.val /\ Adds(d, Moving) = 0 /\ d.type # "outfit"
    BY <1>2 DEF Adds, Moving, Training
  <2> QED BY <1>0, <2>3, <2>4, <2>5 DEF t
<1>3. CASE d.type = "outfit"
  <2>1. t = O!ChangeOutfit(s, d.val) /\ d.val \in O!Looking
    BY <1>3 DEF O!Apply, O!Speeds, Cond
  <2>2. Adds(d, Moving) = 0 /\ Adds(d, Training) = 0
    BY <1>3 DEF Adds, Moving, Training
  <2> HIDE DEF t
  <2> QED BY <1>0, <1>3, <2>1, <2>2, ChangeOutfitIs DEF t
<1>4. CASE d.type \notin Moving /\ d.type # "attributes" /\ d.type # "outfit"
  <2>1. t = s
    BY <1>4 DEF O!Apply, O!Speeds, Moving
  <2>2. Adds(d, Moving) = 0 /\ Adds(d, Training) = 0
    BY <1>4 DEF Adds, Moving, Training
  <2> HIDE DEF t
  <2> QED BY <1>0, <1>4, <2>1, <2>2 DEF t
<1> QED BY <1>1, <1>2, <1>3, <1>4

LEMMA StartIs ==
  ASSUME Owned, NEW s \in State, NEW d \in Cond
  PROVE  LET t == O!Start(s, d) IN t \in State /\ t.cs = s.cs /\ Gained(O!ToSet(s.cs), s.b, d, t.b)
<1> DEFINE t == O!Apply(s, d)
           r == O!Start(s, d)
           D == O!ToSet(s.cs)
<1>1. /\ t \in State /\ t.cs = s.cs
      /\ t.b.speed = s.b.speed + Adds(d, Moving) /\ t.b.skill = s.b.skill + Adds(d, Training)
      /\ t.b.outfit = IF d.type = "outfit" THEN d.val ELSE s.b.outfit
      /\ t.b.shown = IF d.type = "outfit" /\ ~(u4 \/ Held(D, "invisible")) THEN d.val ELSE s.b.shown
      /\ t.b.defends = s.b.defends /\ t.b.locked = s.b.locked
  BY ApplyIs
<1>2. r = IF d.type = "attributes" THEN [t EXCEPT !.b.defends = ~d.disables]
          ELSE IF d.type = "invisible" /\ ~u4 THEN [t EXCEPT !.b.shown = "hidden"] ELSE t
  BY DEF O!Start
<1> HIDE DEF t, r, D
<1>3. CASE d.type = "attributes"
  <2> DEFINE bd == [t.b EXCEPT !.defends = ~d.disables]
  <2>1. r = [t EXCEPT !.b = bd]
    BY <1>1, <1>2, <1>3 DEF State
  <2>2. bd \in Body /\ bd.outfit = t.b.outfit /\ bd.shown = t.b.shown /\ bd.skill = t.b.skill
        /\ bd.speed = t.b.speed /\ bd.defends = ~d.disables /\ bd.locked = t.b.locked
    BY <1>1 DEF State, Body, Cond
  <2> HIDE DEF bd
  <2>3. r \in State /\ r.cs = t.cs /\ r.b = bd
    BY <1>1, <2>1, <2>2 DEF State
  <2> QED BY <1>1, <1>3, <2>2, <2>3 DEF Gained, r, D
<1>4. CASE d.type = "invisible" /\ ~u4
  <2> DEFINE bd == [t.b EXCEPT !.shown = "hidden"]
  <2>1. r = [t EXCEPT !.b = bd]
    BY <1>1, <1>2, <1>4 DEF State
  <2>2. bd \in Body /\ bd.outfit = t.b.outfit /\ bd.shown = "hidden" /\ bd.skill = t.b.skill
        /\ bd.speed = t.b.speed /\ bd.defends = t.b.defends /\ bd.locked = t.b.locked
    BY <1>1 DEF State, Body
  <2> HIDE DEF bd
  <2>3. r \in State /\ r.cs = t.cs /\ r.b = bd
    BY <1>1, <2>1, <2>2 DEF State
  <2> QED BY <1>1, <1>4, <2>2, <2>3 DEF Gained, r, D
<1>5. CASE d.type # "attributes" /\ ~(d.type = "invisible" /\ ~u4)
  <2>1. r = t
    BY <1>2, <1>5
  <2> QED BY <1>1, <1>5, <2>1 DEF Gained, r, D
<1> QED BY <1>3, <1>4, <1>5

LEMMA EndIs ==
  ASSUME Owned, NEW s \in State, NEW c \in Cond
  PROVE  LET t == O!End(s, c) IN t \in State /\ t.cs = s.cs /\ Lost(O!ToSet(s.cs), s.b, c, t.b)
<1> DEFINE t == O!End(s, c)
           D == O!ToSet(s.cs)
<1>0. s.b \in Body /\ s.cs \in Seq(Cond) /\ s.b.speed \in Int /\ s.b.skill \in Int /\ u3 \in O!Looking
  BY DEF State, Body, Owned, O!Looking
<1>1. CASE c.type \in Moving
  <2>1. t = [s EXCEPT !.b.speed = @ - c.val] /\ c.val \in Int
    BY <1>1 DEF O!End, O!Speeds, Moving, Cond
  <2> DEFINE bd == [s.b EXCEPT !.speed = s.b.speed - c.val]
  <2>2. t = [s EXCEPT !.b = bd]
    BY <2>1 DEF State
  <2>3. bd \in Body /\ bd.outfit = s.b.outfit /\ bd.shown = s.b.shown /\ bd.speed = s.b.speed - c.val
        /\ bd.skill = s.b.skill /\ bd.defends = s.b.defends /\ bd.locked = s.b.locked
    BY <1>0, <2>1 DEF Body
  <2> HIDE DEF bd, t, D
  <2>4. t \in State /\ t.cs = s.cs /\ t.b = bd
    BY <2>2, <2>3 DEF State
  <2>5. /\ s.b.speed - Adds(c, Moving) = s.b.speed - c.val /\ s.b.skill - Adds(c, Training) = s.b.skill
        /\ c.type \notin {"outfit", "invisible", "infight", "attributes"}
    BY <1>0, <1>1 DEF Adds, Moving, Training
  <2> QED BY <1>0, <2>3, <2>4, <2>5 DEF Lost, t, D
<1>2. CASE c.type = "attributes"
  <2>1. t = [s EXCEPT !.b.skill = @ - c.val, !.b.defends = @ \/ c.disables] /\ c.val \in Int
    BY <1>2 DEF O!End, O!Speeds, Cond
  <2> DEFINE bd == [[s.b EXCEPT !.skill = s.b.skill - c.val] EXCEPT !.defends = s.b.defends \/ c.disables]
  <2>2. t = [s EXCEPT !.b = bd]
    <3>1. [s EXCEPT !.b.skill = @ - c.val].b = [s.b EXCEPT !.skill = s.b.skill - c.val]
      BY DEF State
    <3>2. [s.b EXCEPT !.skill = s.b.skill - c.val].defends = s.b.defends
      BY <1>0 DEF Body
    <3> QED BY <2>1, <3>1, <3>2 DEF State
  <2>3. bd \in Body /\ bd.outfit = s.b.outfit /\ bd.shown = s.b.shown /\ bd.skill = s.b.skill - c.val
        /\ bd.speed = s.b.speed /\ bd.defends = (s.b.defends \/ c.disables) /\ bd.locked = s.b.locked
    <3> DEFINE v == s.b.skill - c.val
               w == s.b.defends \/ c.disables
               be == [s.b EXCEPT !.skill = v]
    <3>1. v \in Int /\ w \in BOOLEAN
      BY <1>0, <2>1
    <3>2. bd = [be EXCEPT !.defends = w]
      OBVIOUS
    <3> HIDE DEF v, w, bd
    <3>3. /\ be \in Body /\ be.outfit = s.b.outfit /\ be.shown = s.b.shown /\ be.skill = v
          /\ be.speed = s.b.speed /\ be.defends = s.b.defends /\ be.locked = s.b.locked
      BY <1>0, <3>1, BodyWith
    <3> HIDE DEF be
    <3>4. /\ bd \in Body /\ bd.outfit = be.outfit /\ bd.shown = be.shown /\ bd.skill = be.skill
          /\ bd.speed = be.speed /\ bd.defends = w /\ bd.locked = be.locked
      BY <3>1, <3>2, <3>3, BodyWith
    <3> QED BY <3>3, <3>4 DEF v, w
  <2> HIDE DEF bd, t, D
  <2>4. t \in State /\ t.cs = s.cs /\ t.b = bd
    BY <2>2, <2>3 DEF State
  <2>5. s.b.skill - Adds(c, Training) = s.b.skill - c.val /\ s.b.speed - Adds(c, Moving) = s.b.speed
    BY <1>0, <1>2 DEF Adds, Moving, Training
  <2> QED BY <1>0, <1>2, <2>3, <2>4, <2>5 DEF Lost, t, D
<1>3. CASE c.type = "outfit"
  <2>1. t = O!ChangeOutfit(s, u3)
    BY <1>3 DEF O!End, O!Speeds
  <2>2. s.b.speed - Adds(c, Moving) = s.b.speed /\ s.b.skill - Adds(c, Training) = s.b.skill
    BY <1>0, <1>3 DEF Adds, Moving, Training
  <2> HIDE DEF t
  <2> QED BY <1>0, <1>3, <2>1, <2>2, ChangeOutfitIs DEF t, Lost
<1>4. CASE c.type = "invisible"
  <2> DEFINE bd == [s.b EXCEPT !.shown = IF u4 \/ Held(D, "invisible") THEN s.b.shown ELSE s.b.outfit]
  <2>1. t = [s EXCEPT !.b = bd]
    <3>1. t = O!EndInvisible(s, c)
      BY <1>4 DEF O!End, O!Speeds
    <3>2. O!Has(s.cs, "invisible") = Held(D, "invisible")
      BY DEF O!Has, Held
    <3>3. bd = IF u4 \/ Held(D, "invisible") THEN s.b ELSE [s.b EXCEPT !.shown = s.b.outfit]
      BY <1>0 DEF Body
    <3> HIDE DEF bd, t, D
    <3>4. s = [s EXCEPT !.b = s.b]
      BY DEF State
    <3> QED BY <1>0, <3>1, <3>2, <3>3, <3>4 DEF O!EndInvisible, O!EndAndShow, State
  <2>3. bd \in Body /\ bd.outfit = s.b.outfit /\ bd.skill = s.b.skill
        /\ bd.speed = s.b.speed /\ bd.defends = s.b.defends /\ bd.locked = s.b.locked
        /\ bd.shown = IF u4 \/ Held(D, "invisible") THEN s.b.shown ELSE s.b.outfit
    BY <1>0 DEF Body
  <2> HIDE DEF bd, t, D
  <2>4. t \in State /\ t.cs = s.cs /\ t.b = bd
    BY <2>1, <2>3 DEF State
  <2>5. s.b.skill - Adds(c, Training) = s.b.skill /\ s.b.speed - Adds(c, Moving) = s.b.speed
    BY <1>0, <1>4 DEF Adds, Moving, Training
  <2> QED BY <1>0, <1>4, <2>3, <2>4, <2>5 DEF Lost, t, D
<1>5. CASE c.type = "infight"
  <2>1. t = [s EXCEPT !.b.locked = FALSE]
    BY <1>5 DEF O!End, O!Speeds
  <2> DEFINE bd == [s.b EXCEPT !.locked = FALSE]
  <2>2. t = [s EXCEPT !.b = bd]
    BY <2>1 DEF State
  <2>3. bd \in Body /\ bd.outfit = s.b.outfit /\ bd.shown = s.b.shown /\ bd.skill = s.b.skill
        /\ bd.speed = s.b.speed /\ bd.defends = s.b.defends /\ bd.locked = FALSE
    BY <1>0 DEF Body
  <2> HIDE DEF bd, t, D
  <2>4. t \in State /\ t.cs = s.cs /\ t.b = bd
    BY <2>2, <2>3 DEF State
  <2>5. s.b.skill - Adds(c, Training) = s.b.skill /\ s.b.speed - Adds(c, Moving) = s.b.speed
    BY <1>0, <1>5 DEF Adds, Moving, Training
  <2> QED BY <1>0, <1>5, <2>3, <2>4, <2>5 DEF Lost, t, D
<1>6. CASE c.type \notin Moving /\ c.type \notin {"attributes", "outfit", "invisible", "infight"}
  <2>1. t = s
    BY <1>6 DEF O!End, O!Speeds, Moving
  <2>2. s.b.speed - Adds(c, Moving) = s.b.speed /\ s.b.skill - Adds(c, Training) = s.b.skill
    BY <1>0, <1>6 DEF Adds, Moving, Training
  <2> HIDE DEF t
  <2> QED BY <1>0, <1>6, <2>1, <2>2 DEF t, Lost
<1> QED BY <1>1, <1>2, <1>3, <1>4, <1>5, <1>6

Good(s, n) == s \in State /\ Unique(s.cs) /\ Fine(O!ToSet(s.cs), s.b, n)
Now(s) == O!ToSet(s.cs)

LEMMA DropGood ==
  ASSUME Owned, NEW n \in Int, NEW s, Good(s, n), NEW c \in Now(s)
  PROVE  LET t == O!Drop(s, c) IN
         /\ Good(t, n) /\ Now(t) = Now(s) \ {c}
         /\ Locks(Now(s), s.b) => Locks(Now(t), t.b)
<1> DEFINE l == O!Without(s.cs, c)
           r == [s EXCEPT !.cs = l]
           t == O!End(r, c)
<1>0. s \in State /\ Unique(s.cs) /\ s.cs \in Seq(Cond) /\ s.b \in Body /\ c \in O!ToSet(s.cs)
  BY DEF Good, State, Now
<1>1. l \in Seq(Cond) /\ Unique(l) /\ O!ToSet(l) = O!ToSet(s.cs) \ {c}
  BY <1>0, ListWithout
<1>2. O!Drop(s, c) = t
  BY DEF O!Drop
<1> HIDE DEF l
<1>3. r \in State /\ r.cs = l /\ r.b = s.b
  BY <1>0, <1>1 DEF State
<1>4. c \in Cond
  BY <1>0, SetOf
<1> HIDE DEF r
<1>5. t \in State /\ t.cs = r.cs /\ Lost(O!ToSet(r.cs), r.b, c, t.b)
  BY <1>3, <1>4, EndIs
<1> HIDE DEF t
<1>6. t.b \in Body /\ Lost(O!ToSet(s.cs) \ {c}, s.b, c, t.b)
  BY <1>1, <1>3, <1>5 DEF State
<1>7. Fine(O!ToSet(s.cs), s.b, n)
  BY DEF Good
<1>8. /\ Fine(O!ToSet(s.cs) \ {c}, t.b, n)
      /\ Locks(O!ToSet(s.cs), s.b) => Locks(O!ToSet(s.cs) \ {c}, t.b)
  BY <1>0, <1>6, <1>7, LostFine
<1> QED BY <1>1, <1>2, <1>3, <1>5, <1>8 DEF Good, Now

LEMMA ReplaceIs ==
  ASSUME Owned, NEW s \in State, Unique(s.cs), NEW c \in Now(s), NEW d \in Cond, O!Key(d) = O!Key(c)
  PROVE  LET t == O!Replace(s, c, d) IN
         t \in State /\ t.cs = O!ReplaceAll(s.cs, c, d) /\ Traded(Now(s), s.b, c, d, t.b)
<1> DEFINE p == IF d.type \in O!Speeds \cup {"attributes"} THEN O!End(s, c) ELSE s
           l == O!ReplaceAll(s.cs, c, d)
           q == [p EXCEPT !.cs = l]
           r == O!Apply(q, d)
           D == O!ToSet(s.cs)
<1>0. /\ s.cs \in Seq(Cond) /\ s.b \in Body /\ c \in D /\ D = Now(s)
      /\ s.b.speed \in Int /\ s.b.skill \in Int
  BY DEF State, Now, Body
<1>1. c \in Cond /\ l \in Seq(Cond) /\ O!ToSet(l) = (D \ {c}) \cup {d}
  BY <1>0, ListSwapped, SetOf
<1>2. c.type = d.type
  BY <1>1, KeyOf
<1>3. O!End(s, c) \in State /\ O!End(s, c).cs = s.cs /\ Lost(D, s.b, c, O!End(s, c).b)
  BY <1>1, EndIs
<1>4. /\ p \in State /\ p.cs = s.cs
      /\ p.b.speed = s.b.speed - Adds(c, Moving) /\ p.b.skill = s.b.skill - Adds(c, Training)
      /\ p.b.defends = IF c.type = "attributes" THEN s.b.defends \/ c.disables ELSE s.b.defends
      /\ p.b.outfit = s.b.outfit /\ p.b.shown = s.b.shown /\ p.b.locked = s.b.locked
  <2>1. CASE d.type \in O!Speeds \cup {"attributes"}
    <3>1. p = O!End(s, c)
      BY <2>1
    <3>2. c.type \in Moving \cup Training /\ c.type \notin {"outfit", "invisible", "infight"}
      BY <1>2, <2>1 DEF O!Speeds, Moving, Training
    <3> HIDE DEF p, D
    <3> QED BY <1>3, <3>1, <3>2 DEF Lost
  <2>2. CASE d.type \notin O!Speeds \cup {"attributes"}
    <3>1. p = s
      BY <2>2
    <3>2. s.b.speed - Adds(c, Moving) = s.b.speed /\ s.b.skill - Adds(c, Training) = s.b.skill
          /\ c.type # "attributes"
      BY <1>0, <1>2, <2>2 DEF O!Speeds, Adds, Moving, Training
    <3> HIDE DEF p, D
    <3> QED BY <3>1, <3>2
  <2> QED BY <2>1, <2>2
<1>5. O!Replace(s, c, d) = r
  <2>1. O!Replace(s, c, d) = O!Apply([p EXCEPT !.cs = O!ReplaceAll(p.cs, c, d)], d)
    BY <1>4 DEF O!Replace, State
  <2> HIDE DEF p
  <2> QED BY <1>4, <2>1
<1> HIDE DEF p, l
<1>6. q \in State /\ q.cs = l /\ q.b = p.b
  BY <1>1, <1>4 DEF State
<1> HIDE DEF q
<1>7. /\ r \in State /\ r.cs = q.cs
      /\ r.b.speed = q.b.speed + Adds(d, Moving) /\ r.b.skill = q.b.skill + Adds(d, Training)
      /\ r.b.outfit = IF d.type = "outfit" THEN d.val ELSE q.b.outfit
      /\ r.b.shown = IF d.type = "outfit" /\ ~(u4 \/ Held(O!ToSet(q.cs), "invisible")) THEN d.val ELSE q.b.shown
      /\ r.b.defends = q.b.defends /\ r.b.locked = q.b.locked
  BY <1>6, ApplyIs
<1>8. d.type = "outfit" => (Held(O!ToSet(q.cs), "invisible") <=> Held(D, "invisible"))
  BY <1>1, <1>2, <1>6 DEF Held
<1> HIDE DEF r, D
<1>9. Traded(D, s.b, c, d, r.b)
  BY <1>2, <1>4, <1>6, <1>7, <1>8 DEF Traded
<1> QED BY <1>0, <1>5, <1>6, <1>7, <1>9 DEF l

LEMMA PutGood ==
  ASSUME Owned, NEW n \in Int, NEW s, Good(s, n), NEW d \in Cond
  PROVE  LET t == O!Put(s, d) IN
         /\ Good(t, n) /\ Now(t) \subseteq Now(s) \cup {d} /\ Held(Now(t), d.type)
         /\ \A y : Held(Now(s), y) => Held(Now(t), y)
         /\ t.b.locked = s.b.locked
<1> DEFINE t == O!Put(s, d)
           D == O!ToSet(s.cs)
<1>0. /\ s \in State /\ Unique(s.cs) /\ s.cs \in Seq(Cond) /\ s.b \in Body /\ D = Now(s)
      /\ Fine(D, s.b, n) /\ D \in SUBSET Cond
  BY SetOf DEF Good, State, Now
<1>1. CASE \E c \in D : O!Key(c) = O!Key(d)
  <2> DEFINE c == CHOOSE x \in D : O!Key(x) = O!Key(d)
  <2>1. c \in D /\ O!Key(c) = O!Key(d) /\ c \in Cond
    BY <1>0, <1>1
  <2>2. t = IF O!Replaces(c, d) THEN O!Replace(s, c, d) ELSE s
    BY <1>1 DEF O!Put
  <2> HIDE DEF c, t
  <2>3. c.type = d.type
    BY <2>1, KeyOf
  <2>4. CASE O!Replaces(c, d)
    <3> DEFINE r == O!Replace(s, c, d)
               l == O!ReplaceAll(s.cs, c, d)
    <3>1. r \in State /\ r.cs = l /\ Traded(D, s.b, c, d, r.b)
      BY <1>0, <2>1, ReplaceIs
    <3>2. l \in Seq(Cond) /\ Unique(l) /\ O!ToSet(l) = (D \ {c}) \cup {d}
      BY <1>0, <2>1, ListSwapped
    <3>3. t = r
      BY <2>2, <2>4
    <3> HIDE DEF r, l
    <3>4. r.b \in Body
      BY <3>1 DEF State
    <3> HIDE DEF D
    <3>5. /\ Fine((D \ {c}) \cup {d}, r.b, n)
          /\ \A y : Held((D \ {c}) \cup {d}, y) <=> Held(D, y)
      BY <1>0, <2>1, <3>1, <3>4, TradedFine
    <3>6. Held((D \ {c}) \cup {d}, d.type) /\ r.b.locked = s.b.locked
      BY <3>1 DEF Held, Traded
    <3> QED BY <1>0, <3>1, <3>2, <3>3, <3>5, <3>6 DEF Good, Now, t
  <2>5. CASE ~O!Replaces(c, d)
    <3>1. t = s /\ Held(D, d.type)
      BY <2>1, <2>2, <2>3, <2>5 DEF Held
    <3> HIDE DEF D
    <3> QED BY <1>0, <3>1 DEF t
  <2> QED BY <2>4, <2>5
<1>2. CASE ~\E c \in D : O!Key(c) = O!Key(d)
  <2> DEFINE r == O!Start(s, d)
             l == Append(s.cs, d)
  <2>1. r \in State /\ r.cs = s.cs /\ Gained(D, s.b, d, r.b)
    BY <1>0, StartIs
  <2>2. l \in Seq(Cond) /\ Unique(l) /\ O!ToSet(l) = D \cup {d}
    BY <1>0, <1>2, ListWith
  <2>3. t = [r EXCEPT !.cs = Append(r.cs, d)]
    BY <1>2, <2>1 DEF O!Put, State
  <2> HIDE DEF t, r, l
  <2>4. t = [r EXCEPT !.cs = l]
    BY <2>1, <2>3 DEF l
  <2>5. t \in State /\ t.cs = l /\ t.b = r.b /\ r.b \in Body
    BY <2>1, <2>2, <2>4 DEF State
  <2> HIDE DEF D
  <2>6. Fine(D \cup {d}, r.b, n)
    BY <1>0, <1>2, <2>1, <2>5, GainedFine
  <2>7. r.b.locked = s.b.locked
    BY <2>1 DEF Gained
  <2> QED BY <1>0, <2>2, <2>5, <2>6, <2>7 DEF Good, Now, Held, t
<1> QED BY <1>1, <1>2

\* The loops over a list of conditions, by what they do with one.
Dropping(D, t, c) == IF c \in D THEN O!Drop(t, c) ELSE t
Loading(t, c) == IF O!Loaded(c) THEN O!AddTo(t, c) ELSE t
Deed(w, D, t, c) ==
  IF w = "drop" THEN Dropping(D, t, c) ELSE IF w = "load" THEN Loading(t, c) ELSE O!Executed(t, c, D)
Loop(w, D, l, s, N, f) == f = [n \in 0 .. N |-> IF n = 0 THEN s ELSE Deed(w, D, f[n - 1], l[n])]

LEMMA LoopIs ==
  ASSUME NEW w, NEW D, NEW l, NEW s, NEW N \in Nat, NEW f, Loop(w, D, l, s, N, f)
  PROVE  f[0] = s /\ \A n \in 1 .. N : f[n] = Deed(w, D, f[n - 1], l[n])
<1> DEFINE F(n) == IF n = 0 THEN s ELSE Deed(w, D, f[n - 1], l[n])
<1>1. f = [n \in 0 .. N |-> F(n)]
  BY DEF Loop
<1> HIDE DEF F
<1>2. \A n \in 0 .. N : f[n] = F(n)
  BY <1>1
<1>3. 0 \in 0 .. N /\ \A n \in 1 .. N : n \in 0 .. N /\ n # 0
  OBVIOUS
<1> QED BY <1>2, <1>3 DEF F

LEMMA LoopExists ==
  ASSUME NEW w, NEW D, NEW l, NEW s, NEW N \in Nat
  PROVE  \E f : Loop(w, D, l, s, N, f)
<1> DEFINE S == {n \in Nat : \E f : Loop(w, D, l, s, n, f)}
<1>1. 0 \in S
  <2> DEFINE f == [n \in 0 .. 0 |-> s]
  <2>1. f = [n \in 0 .. 0 |-> IF n = 0 THEN s ELSE Deed(w, D, f[n - 1], l[n])]
    <3>1. \A n \in 0 .. 0 : n = 0
      OBVIOUS
    <3> QED BY <3>1
  <2> QED BY <2>1 DEF Loop
<1>2. ASSUME NEW n \in Nat, n \in S PROVE n + 1 \in S
  <2>1. PICK f : Loop(w, D, l, s, n, f)
    BY <1>2
  <2>2. f[0] = s /\ \A i \in 1 .. n : f[i] = Deed(w, D, f[i - 1], l[i])
    BY <2>1, LoopIs
  <2> DEFINE h == [i \in 0 .. (n + 1) |-> IF i = n + 1 THEN Deed(w, D, f[n], l[n + 1]) ELSE f[i]]
  <2>3. \A i \in 0 .. n : h[i] = f[i]
    OBVIOUS
  <2>4. h[n + 1] = Deed(w, D, f[n], l[n + 1])
    OBVIOUS
  <2>5. ASSUME NEW i \in 0 .. (n + 1) PROVE h[i] = IF i = 0 THEN s ELSE Deed(w, D, h[i - 1], l[i])
    <3> HIDE DEF h
    <3>1. CASE i = 0
      <4>1. 0 \in 0 .. n
        OBVIOUS
      <4> QED BY <2>2, <2>3, <3>1, <4>1
    <3>2. CASE i = n + 1
      <4>1. i - 1 = n /\ n \in 0 .. n /\ i # 0
        BY <3>2
      <4> QED BY <2>3, <2>4, <3>2, <4>1
    <3>3. CASE i # 0 /\ i # n + 1
      <4>1. i \in 1 .. n /\ i \in 0 .. n /\ i - 1 \in 0 .. n
        BY <3>3
      <4> QED BY <2>2, <2>3, <3>3, <4>1
    <3> QED BY <3>1, <3>2, <3>3
  <2>6. h = [i \in 0 .. (n + 1) |-> h[i]]
    OBVIOUS
  <2> HIDE DEF h
  <2>7. [i \in 0 .. (n + 1) |-> h[i]] = [i \in 0 .. (n + 1) |-> IF i = 0 THEN s ELSE Deed(w, D, h[i - 1], l[i])]
    BY <2>5
  <2>8. Loop(w, D, l, s, n + 1, h)
    BY <2>6, <2>7 DEF Loop
  <2> QED BY <2>8
<1> HIDE DEF S
<1>3. Nat \subseteq S
  BY <1>1, <1>2, AllNumbers
<1> QED BY <1>3 DEF S

LEMMA ForEachDrops ==
  ASSUME NEW D, NEW s, NEW N \in Nat, N = Len(s.cs)
  PROVE  \E f : Loop("drop", D, s.cs, s, N, f) /\ O!DropAll(s, D) = f[N]
<1> DEFINE l == s.cs
           R(f) == [n \in 0 .. N |-> IF n = 0 THEN s ELSE IF l[n] \in D THEN O!Drop(f[n - 1], l[n]) ELSE f[n - 1]]
           g == CHOOSE f : f = R(f)
<1>1. \A f : [n \in 0 .. N |-> IF n = 0 THEN s ELSE Deed("drop", D, f[n - 1], l[n])] = R(f)
  BY DEF Deed, Dropping
<1>2. \E f : f = R(f)
  <2>1. \A f : Loop("drop", D, l, s, N, f) <=> f = R(f)
    <3> HIDE DEF R
    <3> QED BY <1>1 DEF Loop
  <2> HIDE DEF R
  <2> QED BY <2>1, LoopExists
<1>3. Loop("drop", D, l, s, N, g)
  <2> HIDE DEF R
  <2> QED BY <1>1, <1>2 DEF Loop
<1>4. O!DropAll(s, D) = g[N]
  BY DEF O!DropAll, O!ForEach
<1> QED BY <1>3, <1>4

LEMMA ForEachExecutes ==
  ASSUME NEW x, NEW s, NEW N \in Nat, N = Len(s.cs)
  PROVE  \E f : Loop("do", x, s.cs, s, N, f) /\ O!ExecuteAll(s, x) = f[N]
<1> DEFINE l == s.cs
           R(f) == [n \in 0 .. N |-> IF n = 0 THEN s ELSE O!Executed(f[n - 1], l[n], x)]
           g == CHOOSE f : f = R(f)
<1>1. \A f : [n \in 0 .. N |-> IF n = 0 THEN s ELSE Deed("do", x, f[n - 1], l[n])] = R(f)
  BY DEF Deed
<1>2. \E f : f = R(f)
  <2>1. \A f : Loop("do", x, l, s, N, f) <=> f = R(f)
    <3> HIDE DEF R
    <3> QED BY <1>1 DEF Loop
  <2> HIDE DEF R
  <2> QED BY <2>1, LoopExists
<1>3. Loop("do", x, l, s, N, g)
  <2> HIDE DEF R
  <2> QED BY <1>1, <1>2 DEF Loop
<1>4. O!ExecuteAll(s, x) = g[N]
  BY DEF O!ExecuteAll, O!ForEach
<1> QED BY <1>3, <1>4

LEMMA ForEachLoads ==
  ASSUME NEW s, NEW N \in Nat, N = Len(O!Reverse(u1))
  PROVE  \E f : Loop("load", 0, O!Reverse(u1), s, N, f) /\ O!LoadAll(s) = f[N]
<1> DEFINE l == O!Reverse(u1)
           R(f) == [n \in 0 .. N |-> IF n = 0 THEN s ELSE IF O!Loaded(l[n]) THEN O!AddTo(f[n - 1], l[n]) ELSE f[n - 1]]
           g == CHOOSE f : f = R(f)
<1>1. \A f : [n \in 0 .. N |-> IF n = 0 THEN s ELSE Deed("load", 0, f[n - 1], l[n])] = R(f)
  BY DEF Deed, Loading
<1>2. \E f : f = R(f)
  <2>1. \A f : Loop("load", 0, l, s, N, f) <=> f = R(f)
    <3> HIDE DEF R
    <3> QED BY <1>1 DEF Loop
  <2> HIDE DEF R
  <2> QED BY <2>1, LoopExists
<1>3. Loop("load", 0, l, s, N, g)
  <2> HIDE DEF R
  <2> QED BY <1>1, <1>2 DEF Loop
<1>4. O!LoadAll(s) = g[N]
  BY DEF O!LoadAll, O!ForEach
<1> QED BY <1>3, <1>4

LEMMA DropAllGood ==
  ASSUME Owned, NEW n \in Int, NEW s, Good(s, n), NEW D
  PROVE  LET t == O!DropAll(s, D) IN
         /\ Good(t, n) /\ Now(t) = Now(s) \ D
         /\ Locks(Now(s), s.b) => Locks(Now(t), t.b)
<1> DEFINE l == s.cs
           N == Len(l)
           Gone(m) == {c \in D : \E i \in 1 .. m : l[i] = c}
           Ok(m, t) == /\ Good(t, n) /\ Now(t) = Now(s) \ Gone(m)
                       /\ Locks(Now(s), s.b) => Locks(Now(t), t.b)
<1>0. /\ N \in Nat /\ Now(s) = {l[i] : i \in 1 .. N} /\ Now(s) \in SUBSET Cond
      /\ \A i, j \in 1 .. N : l[i] = l[j] => i = j
  <2>1. l \in Seq(Cond) /\ Unique(l)
    BY DEF Good, State
  <2> HIDE DEF l
  <2>2. \A i, j \in 1 .. Len(l) : l[i] = l[j] => i = j
    BY <2>1 DEF Unique
  <2> QED BY <2>1, <2>2, SetOf DEF Now, l
<1>1. PICK f : Loop("drop", D, l, s, N, f) /\ O!DropAll(s, D) = f[N]
  BY <1>0, ForEachDrops
<1>2. f[0] = s /\ \A i \in 1 .. N : f[i] = Dropping(D, f[i - 1], l[i])
  <2> HIDE DEF N, l
  <2>1. f[0] = s /\ \A i \in 1 .. N : f[i] = Deed("drop", D, f[i - 1], l[i])
    BY <1>0, <1>1, LoopIs
  <2> QED BY <2>1 DEF Deed
<1> DEFINE S == {m \in Nat : m <= N => Ok(m, f[m])}
<1> HIDE DEF l, N
<1>3. 0 \in S
  <2>1. Gone(0) = {}
    OBVIOUS
  <2> QED BY <1>2, <2>1
<1>4. ASSUME NEW m \in Nat, m \in S PROVE m + 1 \in S
  <2> SUFFICES ASSUME m + 1 <= N PROVE Ok(m + 1, f[m + 1])
    OBVIOUS
  <2> DEFINE k == m + 1
             c == l[k]
  <2>1. k \in 1 .. N /\ k - 1 = m /\ Ok(m, f[m]) /\ m \in 0 .. N
    BY <1>0, <1>4
  <2>2. f[k] = Dropping(D, f[m], c)
    BY <1>2, <2>1
  <2>3. c \in Now(s) /\ c \notin Gone(m)
    <3>1. \A i \in 1 .. m : i \in 1 .. N /\ i # k
      BY <1>0, <2>1
    <3>2. \A i \in 1 .. m : l[i] # c
      BY <1>0, <2>1, <3>1
    <3>3. c \in Now(s)
      BY <1>0, <2>1
    <3> HIDE DEF c
    <3> QED BY <3>2, <3>3
  <2>4. Gone(k) = Gone(m) \cup (IF c \in D THEN {c} ELSE {})
    <3>1. \A i \in 1 .. k : i \in 1 .. m \/ i = k
      OBVIOUS
    <3>2. \A i \in 1 .. m : i \in 1 .. k
      OBVIOUS
    <3>3. k \in 1 .. k
      OBVIOUS
    <3> HIDE DEF k
    <3> QED BY <3>1, <3>2, <3>3
  <2> HIDE DEF k, c, Gone
  <2>5. CASE c \in D
    <3>1. f[k] = O!Drop(f[m], c) /\ c \in Now(f[m])
      BY <2>1, <2>2, <2>3, <2>5 DEF Dropping
    <3>2. /\ Good(f[k], n) /\ Now(f[k]) = Now(f[m]) \ {c}
          /\ Locks(Now(f[m]), f[m].b) => Locks(Now(f[k]), f[k].b)
      <4> DEFINE t == f[m]
      <4>1. Good(t, n) /\ c \in Now(t) /\ f[k] = O!Drop(t, c)
        BY <2>1, <3>1
      <4> HIDE DEF t
      <4>2. /\ Good(O!Drop(t, c), n) /\ Now(O!Drop(t, c)) = Now(t) \ {c}
            /\ Locks(Now(t), t.b) => Locks(Now(O!Drop(t, c)), O!Drop(t, c).b)
        BY <4>1, DropGood
      <4> QED BY <4>1, <4>2 DEF t
    <3>3. Now(f[k]) = Now(s) \ Gone(k)
      BY <2>1, <2>4, <2>5, <3>2
    <3>4. Ok(k, f[k])
      BY <2>1, <3>2, <3>3
    <3> QED BY <3>4 DEF k
  <2>6. CASE c \notin D
    <3>1. f[k] = f[m] /\ Gone(k) = Gone(m)
      BY <2>2, <2>4, <2>6 DEF Dropping
    <3>2. Ok(k, f[k])
      BY <2>1, <3>1
    <3> QED BY <3>2 DEF k
  <2> QED BY <2>5, <2>6
<1>5. N \in S
  <2> HIDE DEF S
  <2> QED BY <1>0, <1>3, <1>4, AllNumbers
<1>6. Now(s) \ Gone(N) = Now(s) \ D
  BY <1>0
<1> QED BY <1>0, <1>1, <1>5, <1>6

Forced(D, t) == \E c \in D : c.type = t /\ c.sub = 0 /\ c.left # 0
Apart(D) == ~(Forced(D, "haste") /\ Forced(D, "paralyze"))
Fit(s, n) == Good(s, n) /\ Apart(Now(s)) /\ Locks(Now(s), s.b)

LEMMA CondAre ==
  /\ O!InFight \in Cond /\ O!InvisibleRing \in Cond
  /\ O!InFight.type = "infight" /\ O!InvisibleRing.type = "invisible"
  /\ O!ConditionsAssumption => Catalog \in SUBSET Cond /\ RingSpeed \in Int
<1>0. ASSUME NEW y \in Kinds, NEW i \in Ids, NEW m \in Int, m >= -1, y # "outfit"
      PROVE  LET c == [type |-> y, id |-> i, sub |-> 0, left |-> m, val |-> 0, disables |-> FALSE]
             IN  c \in Cond /\ c.type = y
  <2> DEFINE c == [type |-> y, id |-> i, sub |-> 0, left |-> m, val |-> 0, disables |-> FALSE]
  <2>1. 0 \in Nat /\ 0 \in Int \cup O!Looking /\ FALSE \in BOOLEAN
    OBVIOUS
  <2>2. /\ c \in [type : Kinds, id : Ids, sub : Nat, left : Int, val : Int \cup O!Looking, disables : BOOLEAN]
        /\ c.left = m /\ c.val = 0 /\ c.type = y
    BY <1>0, <2>1
  <2> HIDE DEF c
  <2>3. c \in Cond
    BY <1>0, <2>2 DEF Cond
  <2> QED BY <2>2, <2>3 DEF c
<1>a. /\ "infight" \in Kinds /\ "default" \in Ids /\ "invisible" \in Kinds /\ "slot" \in Ids
      /\ "infight" # "outfit" /\ "invisible" # "outfit"
  BY DEF Kinds, Ids
<1>1. O!InFight \in Cond /\ O!InFight.type = "infight"
  BY <1>0, <1>a DEF O!InFight
<1>2. O!InvisibleRing \in Cond /\ O!InvisibleRing.type = "invisible"
  <2>1. -1 \in Int /\ -1 >= -1
    OBVIOUS
  <2> QED BY <1>0, <1>a, <2>1 DEF O!InvisibleRing, O!Forever
<1>3. ASSUME O!ConditionsAssumption, NEW d \in Catalog PROVE d \in Cond
  <2>1. /\ d \in [type : {d.type}, id : {d.id}, sub : Nat, left : Int, val : {d.val}, disables : BOOLEAN]
        /\ d.left >= -1 /\ (d.type # "outfit" => d.val \in Int)
    BY <1>3 DEF O!ConditionsAssumption, O!Forever
  <2>2. d.type = "outfit" => d.val \in O!Looking
    BY DEF O!Looking
  <2>3. d.val \in Int \cup O!Looking
    BY <2>1, <2>2
  <2>a. d.type \in Kinds /\ d.id \in Ids
    BY DEF Kinds, Ids
  <2>4. d \in [type : Kinds, id : Ids, sub : Nat, left : Int, val : Int \cup O!Looking, disables : BOOLEAN]
    BY <2>1, <2>a, <2>3
  <2> QED BY <2>1, <2>2, <2>4 DEF Cond
<1>4. O!ConditionsAssumption => RingSpeed \in Int
  BY DEF O!ConditionsAssumption
<1> QED BY <1>1, <1>2, <1>3, <1>4

LEMMA AddToFit ==
  ASSUME Owned, NEW n \in Int, NEW s, Good(s, n), Apart(Now(s)), NEW d \in Cond,
         Locks(Now(s), s.b) \/ d.type = "infight"
  PROVE  Fit(O!AddTo(s, d), n)
<1> DEFINE p == O!Put(s, d)
           t == O!OnAdd(p, d)
           One(y) == {c \in Now(p) : c.type = y}
<1>1. /\ Good(p, n) /\ Now(p) \subseteq Now(s) \cup {d} /\ Held(Now(p), d.type)
      /\ \A y : Held(Now(s), y) => Held(Now(p), y)
      /\ p.b.locked = s.b.locked
  BY PutGood
<1>2. O!AddTo(s, d) = t
  BY DEF O!AddTo
<1> HIDE DEF p
<1>3. Locks(Now(p), p.b)
  BY <1>1 DEF Locks
<1>4. \A y : O!HasInForce(p.cs, y) <=> Forced(Now(p), y)
  BY DEF O!HasInForce, O!InForce, Forced, Now
<1>5. ASSUME NEW y \in {"haste", "paralyze"}, t = O!DropType(p, y) PROVE Fit(t, n)
  <2>1. t = O!DropAll(p, One(y))
    BY <1>5 DEF O!DropType, Now
  <2>2. /\ Good(t, n) /\ Now(t) = Now(p) \ One(y)
        /\ Locks(Now(p), p.b) => Locks(Now(t), t.b)
    <3> HIDE DEF t, One
    <3>1. LET r == O!DropAll(p, One(y)) IN
          /\ Good(r, n) /\ Now(r) = Now(p) \ One(y)
          /\ Locks(Now(p), p.b) => Locks(Now(r), r.b)
      BY <1>1, DropAllGood
    <3> QED BY <2>1, <3>1
  <2>3. ~Forced(Now(t), y)
    BY <2>2 DEF Forced
  <2> HIDE DEF t, One
  <2> QED BY <1>3, <2>2, <2>3 DEF Fit, Apart
<1>6. CASE d.type = "paralyze"
  <2>1. CASE Forced(Now(p), "haste")
    <3>1. t = O!DropType(p, "haste")
      BY <1>4, <1>6, <2>1 DEF O!OnAdd
    <3> HIDE DEF t
    <3> QED BY <1>2, <1>5, <3>1
  <2>2. CASE ~Forced(Now(p), "haste")
    <3>1. t = p
      BY <1>4, <1>6, <2>2 DEF O!OnAdd
    <3> HIDE DEF t
    <3> QED BY <1>1, <1>2, <1>3, <2>2, <3>1 DEF Fit, Apart
  <2> QED BY <2>1, <2>2
<1>7. CASE d.type = "haste"
  <2>1. CASE Forced(Now(p), "paralyze")
    <3>1. t = O!DropType(p, "paralyze")
      BY <1>4, <1>7, <2>1 DEF O!OnAdd
    <3> HIDE DEF t
    <3> QED BY <1>2, <1>5, <3>1
  <2>2. CASE ~Forced(Now(p), "paralyze")
    <3>1. t = p
      BY <1>4, <1>7, <2>2 DEF O!OnAdd
    <3> HIDE DEF t
    <3> QED BY <1>1, <1>2, <1>3, <2>2, <3>1 DEF Fit, Apart
  <2> QED BY <2>1, <2>2
<1>8. CASE d.type = "fire"
  <2>1. t = O!Put(p, O!InFight)
    BY <1>8 DEF O!OnAdd
  <2>2. /\ Good(t, n) /\ Now(t) \subseteq Now(p) \cup {O!InFight}
        /\ Held(Now(t), O!InFight.type)
    <3> DEFINE e == O!InFight
    <3>1. e \in Cond
      BY CondAre
    <3> HIDE DEF e, t
    <3>2. LET r == O!Put(p, e) IN Good(r, n) /\ Now(r) \subseteq Now(p) \cup {e} /\ Held(Now(r), e.type)
      BY <1>1, <3>1, PutGood
    <3> QED BY <2>1, <3>2 DEF e
  <2>3. Locks(Now(t), t.b)
    BY <2>2, CondAre DEF Locks
  <2>4. \A c \in Now(t) : c \in Now(s) \/ c.type \in {"fire", "infight"}
    BY <1>1, <1>8, <2>2, CondAre
  <2> HIDE DEF t
  <2>5. Apart(Now(t))
    BY <2>4 DEF Apart, Forced
  <2> QED BY <1>2, <2>2, <2>3, <2>5 DEF Fit
<1>9. CASE d.type \notin {"paralyze", "haste", "fire"}
  <2>1. t = p
    BY <1>9 DEF O!OnAdd
  <2>2. Apart(Now(p))
    BY <1>1, <1>9 DEF Apart, Forced
  <2> HIDE DEF t
  <2> QED BY <1>1, <1>2, <1>3, <2>1, <2>2 DEF Fit
<1> QED BY <1>6, <1>7, <1>8, <1>9

LEMMA DropAllFit ==
  ASSUME Owned, NEW n \in Int, NEW s, Fit(s, n), NEW D
  PROVE  Fit(O!DropAll(s, D), n)
<1> DEFINE t == O!DropAll(s, D)
<1>1. /\ Good(t, n) /\ Now(t) = Now(s) \ D
      /\ Locks(Now(s), s.b) => Locks(Now(t), t.b)
  BY DropAllGood DEF Fit
<1> HIDE DEF t
<1>2. Apart(Now(t))
  BY <1>1 DEF Fit, Apart, Forced
<1> QED BY <1>1, <1>2 DEF Fit, t

LEMMA BurnIs ==
  ASSUME NEW c \in Cond, c.type = "fire", NEW x \in BOOLEAN, O!Burn(c, x).left > 0
  PROVE  /\ O!Burn(c, x) \in Cond /\ O!Key(O!Burn(c, x)) = O!Key(c)
<1> DEFINE d == O!Burn(c, x)
<1>0. c.val \in Int /\ c.left \in Int
  BY DEF Cond
<1>1. CASE c.val > 0
  <2> DEFINE v == c.val - 1
  <2>1. d = [c EXCEPT !.val = v] /\ v \in Int
    BY <1>0, <1>1 DEF O!Burn
  <2> HIDE DEF v
  <2>2. d \in Cond /\ d.type = c.type /\ d.id = c.id /\ d.sub = c.sub
    BY <2>1 DEF Cond
  <2> HIDE DEF d
  <2> QED BY <2>2 DEF O!Key, d
<1>2. CASE ~(c.val > 0)
  <2> DEFINE w == IF x THEN c.left ELSE c.left - 1
             e == [c EXCEPT !.val = 1]
  <2>1. w \in Int
    BY <1>0
  <2>2. e.left = c.left
    BY DEF Cond
  <2>3. d = [e EXCEPT !.left = w]
    BY <1>2, <2>2 DEF O!Burn, O!FireCount
  <2> HIDE DEF w
  <2>4. /\ e \in [type : Kinds, id : Ids, sub : Nat, left : Int, val : Int \cup O!Looking, disables : BOOLEAN]
        /\ e.val = 1 /\ e.type = c.type /\ e.id = c.id /\ e.sub = c.sub
    BY DEF Cond
  <2> HIDE DEF e
  <2>5. /\ d \in [type : Kinds, id : Ids, sub : Nat, left : Int, val : Int \cup O!Looking, disables : BOOLEAN]
        /\ d.val = 1 /\ d.type = c.type /\ d.id = c.id /\ d.sub = c.sub /\ d.left = w
    BY <2>1, <2>3, <2>4
  <2>6. d.left > 0
    OBVIOUS
  <2> HIDE DEF d
  <2>7. d \in Cond
    BY <2>1, <2>5, <2>6 DEF Cond
  <2> QED BY <2>5, <2>7 DEF O!Key, d
<1> QED BY <1>0, <1>1, <1>2

LEMMA ExecutedFit ==
  ASSUME Owned, NEW n \in Int, NEW s, Fit(s, n), NEW c \in Cond, NEW x \in BOOLEAN
  PROVE  Fit(O!Executed(s, c, x), n)
<1> DEFINE t == O!Executed(s, c, x)
           D == O!ToSet(s.cs)
<1>0. /\ s \in State /\ Unique(s.cs) /\ s.cs \in Seq(Cond) /\ s.b \in Body /\ D = Now(s)
      /\ Fine(D, s.b, n) /\ Good(s, n)
  BY DEF Fit, Good, State, Now
<1>1. CASE t = s
  BY <1>1
<1>2. CASE t = O!Drop(s, c) /\ c \in D
  <2>1. /\ Good(t, n) /\ Now(t) = Now(s) \ {c}
        /\ Locks(Now(s), s.b) => Locks(Now(t), t.b)
    BY <1>0, <1>2, DropGood
  <2> HIDE DEF t
  <2>2. Apart(Now(t))
    BY <2>1 DEF Fit, Apart, Forced
  <2> QED BY <2>1, <2>2 DEF Fit, t
<1>3. CASE /\ c \in D /\ c.type = "fire" /\ O!Burn(c, x).left > 0
           /\ t = [s EXCEPT !.cs = O!ReplaceAll(s.cs, c, O!Burn(c, x))]
  <2> DEFINE d == O!Burn(c, x)
             l == O!ReplaceAll(s.cs, c, d)
  <2>1. d \in Cond /\ O!Key(d) = O!Key(c)
    BY <1>3, BurnIs
  <2>2. t = [s EXCEPT !.cs = l]
    BY <1>3
  <2> HIDE DEF d, t
  <2>3. l \in Seq(Cond) /\ Unique(l) /\ O!ToSet(l) = (D \ {c}) \cup {d}
    BY <1>0, <1>3, <2>1, ListSwapped
  <2>4. d.type = "fire"
    BY <1>3, <2>1, KeyOf
  <2> HIDE DEF l, D
  <2>5. Traded(D, s.b, c, d, s.b)
    <3>1. Adds(c, Moving) = 0 /\ Adds(d, Moving) = 0 /\ Adds(c, Training) = 0 /\ Adds(d, Training) = 0
      BY <1>3, <2>4 DEF Adds, Moving, Training
    <3>2. s.b.speed \in Int /\ s.b.skill \in Int
      BY <1>0 DEF Body
    <3>3. s.b.speed = s.b.speed - 0 + 0 /\ s.b.skill = s.b.skill - 0 + 0
      BY <3>2
    <3> QED BY <1>3, <2>4, <3>1, <3>3 DEF Traded
  <2>6. /\ Fine((D \ {c}) \cup {d}, s.b, n)
        /\ \A y : Held((D \ {c}) \cup {d}, y) <=> Held(D, y)
    BY <1>0, <1>3, <2>1, <2>5, TradedFine
  <2>7. t \in State /\ t.cs = l /\ t.b = s.b
    BY <1>0, <2>2, <2>3 DEF State
  <2>8. Now(t) = (D \ {c}) \cup {d}
    BY <2>3, <2>7 DEF Now
  <2>9. Apart(Now(t))
    BY <1>0, <2>4, <2>8 DEF Fit, Apart, Forced
  <2>10. Locks(Now(t), t.b)
    BY <1>0, <2>6, <2>7, <2>8 DEF Fit, Locks
  <2>11. Good(t, n)
    BY <2>3, <2>6, <2>7 DEF Good
  <2> QED BY <2>9, <2>10, <2>11 DEF Fit, t
<1> QED BY <1>1, <1>2, <1>3 DEF O!Executed

LEMMA LoopFit ==
  ASSUME Owned, NEW n \in Int, NEW s, Fit(s, n), NEW w, NEW x, NEW l, NEW N \in Nat, NEW f, Loop(w, x, l, s, N, f),
         \A t \in State : \A i \in 1 .. N : Fit(t, n) => Fit(Deed(w, x, t, l[i]), n)
  PROVE  Fit(f[N], n)
<1> DEFINE S == {t \in State : Fit(t, n)}
<1>1. f[0] = s /\ \A i \in 1 .. N : f[i] = Deed(w, x, f[i - 1], l[i])
  BY LoopIs
<1>2. \A t : Fit(t, n) => t \in State
  BY DEF Fit, Good
<1>3. f[0] \in S
  BY <1>1, <1>2
<1>4. \A i \in 1 .. N : f[i - 1] \in S => f[i] \in S
  BY <1>1, <1>2
<1> HIDE DEF S
<1>5. f[N] \in S
  BY <1>3, <1>4, LoopStays
<1> QED BY <1>5 DEF S

LEMMA ExecuteAllFit ==
  ASSUME Owned, NEW n \in Int, NEW s, Fit(s, n), NEW x \in BOOLEAN
  PROVE  Fit(O!ExecuteAll(s, x), n)
<1> DEFINE l == s.cs
           N == Len(l)
<1>1. l \in Seq(Cond)
  BY DEF Fit, Good, State
<1>2. N \in Nat /\ \A i \in 1 .. N : l[i] \in Cond
  BY <1>1
<1>3. PICK f : Loop("do", x, l, s, N, f) /\ O!ExecuteAll(s, x) = f[N]
  BY <1>2, ForEachExecutes
<1> HIDE DEF l, N
<1>4. \A t \in State : \A i \in 1 .. N : Fit(t, n) => Fit(Deed("do", x, t, l[i]), n)
  BY <1>2, ExecutedFit DEF Deed
<1>5. Fit(f[N], n)
  BY <1>2, <1>3, <1>4, LoopFit
<1> QED BY <1>3, <1>5

LEMMA LoadAllFit ==
  ASSUME Owned, NEW n \in Int, NEW s, Fit(s, n), u1 \in Seq(Cond)
  PROVE  Fit(O!LoadAll(s), n)
<1> DEFINE l == O!Reverse(u1)
           N == Len(l)
<1>1. l \in Seq(Cond)
  <2>1. l = [i \in 1 .. Len(u1) |-> u1[(Len(u1) - i) + 1]]
    BY DEF O!Reverse
  <2>2. \A i \in 1 .. Len(u1) : u1[(Len(u1) - i) + 1] \in Cond
    <3>1. \A i \in 1 .. Len(u1) : (Len(u1) - i) + 1 \in 1 .. Len(u1)
      OBVIOUS
    <3> QED BY <3>1
  <2>3. l \in [1 .. Len(u1) -> Cond] /\ Len(u1) \in Nat
    BY <2>1, <2>2
  <2> HIDE DEF l
  <2> QED BY <2>3, SeqDef
<1>2. N \in Nat /\ \A i \in 1 .. N : l[i] \in Cond
  <2> HIDE DEF l
  <2> QED BY <1>1
<1>3. PICK f : Loop("load", 0, l, s, N, f) /\ O!LoadAll(s) = f[N]
  BY <1>2, ForEachLoads
<1> HIDE DEF l, N
<1>4. ASSUME NEW t \in State, NEW i \in 1 .. N, Fit(t, n) PROVE Fit(Deed("load", 0, t, l[i]), n)
  <2>1. Deed("load", 0, t, l[i]) = IF O!Loaded(l[i]) THEN O!AddTo(t, l[i]) ELSE t
    BY DEF Deed, Loading
  <2>2. Fit(O!AddTo(t, l[i]), n)
    <3>1. Good(t, n) /\ Apart(Now(t)) /\ Locks(Now(t), t.b) /\ l[i] \in Cond
      BY <1>2, <1>4 DEF Fit
    <3> QED BY <3>1, AddToFit
  <2> QED BY <1>4, <2>1, <2>2
<1>5. Fit(f[N], n)
  BY <1>2, <1>3, <1>4, LoopFit
<1> QED BY <1>3, <1>5

LEMMA SumIsInt ==
  ASSUME NEW D \in SUBSET Cond, IsFiniteSet(D), NEW t \in SUBSET Numbers
  PROVE  SumOf(t, D) \in Int
<1> DEFINE P == {c \in D : c.type \in t}
<1>1. P \subseteq D /\ \A c \in P : ValueOf[c] \in Int
  BY DEF ValueOf, Cond, Numbers
<1>2. IsFiniteSet(P)
  <2> HIDE DEF P
  <2> QED BY <1>1, FS_Subset
<1>3. SumOver(ValueOf, P) \in Int
  <2> HIDE DEF P
  <2> QED BY <1>1, <1>2, SumTake
<1> QED BY <1>3 DEF SumOf

\* The ring: what it adds counts into the speed as long as it is worn.
LEMMA SpeedGood ==
  ASSUME NEW n \in Int, NEW s, Good(s, n), NEW m \in Int
  PROVE  LET t == [s EXCEPT !.b.speed = s.b.speed + m] IN
         Good(t, n + m) /\ Now(t) = Now(s) /\ t.b.locked = s.b.locked
<1> DEFINE v == s.b.speed + m
           bd == [s.b EXCEPT !.speed = v]
           t == [s EXCEPT !.b = bd]
           D == O!ToSet(s.cs)
<1>0. s \in State /\ s.cs \in Seq(Cond) /\ Unique(s.cs) /\ s.b \in Body /\ Fine(D, s.b, n)
  BY DEF Good, State
<1>1. v \in Int /\ SumOf(Moving, D) \in Int
  <2>1. D \in SUBSET Cond /\ IsFiniteSet(D) /\ Moving \in SUBSET Numbers
    BY <1>0, SetOf DEF Moving, Numbers
  <2>2. SumOf(Moving, D) \in Int
    BY <2>1, SumIsInt
  <2> QED BY <1>0, <2>2 DEF Body
<1>2. v = SumOf(Moving, D) + (n + m)
  <2>1. s.b.speed = SumOf(Moving, D) + n
    BY <1>0 DEF Fine, Sums
  <2> DEFINE q == SumOf(Moving, D)
  <2>2. q \in Int
    BY <1>1
  <2> HIDE DEF q
  <2> QED BY <2>1, <2>2 DEF q
<1> HIDE DEF v
<1>3. /\ bd \in Body /\ bd.speed = v /\ bd.skill = s.b.skill /\ bd.defends = s.b.defends
      /\ bd.outfit = s.b.outfit /\ bd.shown = s.b.shown /\ bd.locked = s.b.locked
  BY <1>0, <1>1, BodyWith
<1> HIDE DEF bd
<1>4. t \in State /\ t.cs = s.cs /\ t.b = bd
  BY <1>0, <1>3 DEF State
<1> HIDE DEF t, D
<1>5. Fine(D, bd, n + m)
  BY <1>0, <1>2, <1>3 DEF Fine, Sums, Shows, Guards
<1>6. Good(t, n + m) /\ Now(t) = Now(s) /\ t.b.locked = s.b.locked
  BY <1>0, <1>3, <1>4, <1>5 DEF Good, Now, D
<1> QED BY <1>6 DEF t, bd, v

LEMMA PutOnFit ==
  ASSUME Owned, RingSpeed \in Int, NEW s, Fit(s, 0)
  PROVE  Fit(O!PutOn(s), RingSpeed)
<1> DEFINE t == [s EXCEPT !.b.speed = s.b.speed + RingSpeed]
           d == O!InvisibleRing
<1>1. Good(t, 0 + RingSpeed) /\ Now(t) = Now(s) /\ t.b.locked = s.b.locked
  BY SpeedGood DEF Fit
<1>2. O!PutOn(s) = O!AddTo(t, d)
  BY DEF O!PutOn
<1>3. d \in Cond
  BY CondAre
<1> HIDE DEF t, d
<1>4. Good(t, RingSpeed) /\ Apart(Now(t)) /\ Locks(Now(t), t.b)
  BY <1>1 DEF Fit, Locks
<1> QED BY <1>2, <1>3, <1>4, AddToFit

LEMMA TakeOffFit ==
  ASSUME Owned, RingSpeed \in Int, NEW s, Fit(s, RingSpeed)
  PROVE  Fit(O!TakeOff(s), 0)
<1> DEFINE m == -RingSpeed
           t == [s EXCEPT !.b.speed = s.b.speed + m]
           D == {c \in O!ToSet(s.cs) : O!OfRing(c)}
<1>0. m \in Int /\ RingSpeed + m = 0
  OBVIOUS
<1>1. s.b.speed + m = s.b.speed - RingSpeed
  BY DEF Fit, Good, State, Body
<1>2. O!TakeOff(s) = O!DropAll([s EXCEPT !.b.speed = s.b.speed - RingSpeed], D)
  BY DEF O!TakeOff
<1>3. O!TakeOff(s) = O!DropAll(t, D)
  <2> HIDE DEF D, m
  <2> QED BY <1>1, <1>2
<1> HIDE DEF m
<1>4. Good(t, RingSpeed + m) /\ Now(t) = Now(s) /\ t.b.locked = s.b.locked
  BY <1>0, SpeedGood DEF Fit
<1> HIDE DEF t, D
<1>5. Fit(t, 0)
  BY <1>0, <1>4 DEF Fit, Locks
<1> QED BY <1>3, <1>5, DropAllFit

\* Nobody has a condition yet.
LEMMA FreshFit ==
  ASSUME Owned, ~u4
  PROVE  Fit([cs |-> <<>>, b |-> O!Fresh], 0)
<1> DEFINE bd == O!Fresh
           l == <<>>
           s == [cs |-> l, b |-> bd]
<1>1. bd = [speed |-> 0, skill |-> 0, defends |-> TRUE, outfit |-> u3, shown |-> u3, locked |-> FALSE]
  BY DEF O!Fresh
<1>2. u3 \in O!Looking
  BY DEF Owned, O!Looking
<1>3. /\ bd \in Body /\ bd.speed = 0 /\ bd.skill = 0 /\ bd.defends = TRUE
      /\ bd.outfit = u3 /\ bd.shown = u3 /\ bd.locked = FALSE
  BY <1>1, <1>2 DEF Body
<1>4. l \in Seq(Cond) /\ Unique(l) /\ O!ToSet(l) = {}
  <2>1. l \in Seq(Cond) /\ Len(l) = 0
    OBVIOUS
  <2> HIDE DEF l
  <2>2. O!ToSet(l) = {l[i] : i \in 1 .. Len(l)}
    BY <2>1, SetOf
  <2>3. 1 .. Len(l) = {}
    BY <2>1
  <2> QED BY <2>1, <2>2, <2>3 DEF Unique
<1> HIDE DEF bd, l
<1>5. s \in State /\ s.cs = l /\ s.b = bd
  BY <1>3, <1>4, StateIs
<1>6. SumOf(Moving, {}) = 0 /\ SumOf(Training, {}) = 0
  <2>1. \A t : {c \in {} : c.type \in t} = {}
    OBVIOUS
  <2> QED BY <2>1, SumOfNone DEF SumOf
<1>7. Fine({}, bd, 0)
  <2>1. Keyed({})
    BY FS_EmptySet DEF Keyed
  <2>2. ~\E t : Held({}, t)
    BY DEF Held
  <2> QED BY <1>3, <1>6, <2>1, <2>2 DEF Fine, Sums, Shows, Guards, Seen
<1> HIDE DEF s
<1>8. Fit(s, 0)
  BY <1>3, <1>4, <1>5, <1>7 DEF Fit, Good, Apart, Forced, Locks, Now
<1> QED BY <1>8 DEF s, l, bd

\* The list and the body agree, and the ring gives what it gives.
Bonus == IF u5 = "worn" THEN RingSpeed ELSE 0
CondIInv ==
  /\ Owned /\ u5 \in {"bag", "worn"}
  /\ u1 \in Seq(Cond) /\ u2 \in Body /\ Unique(u1)
  /\ Fine(O!ToSet(u1), u2, Bonus) /\ Apart(O!ToSet(u1)) /\ Locks(O!ToSet(u1), u2)

LEMMA CondNow ==
  ASSUME CondIInv, RingSpeed \in Int
  PROVE  /\ Fit(O!Now, Bonus) /\ Bonus \in Int /\ Owned
         /\ O!Now.cs = u1 /\ O!Now.b = u2 /\ O!Now \in State
<1>1. O!Now = [cs |-> u1, b |-> u2]
  BY DEF O!Now
<1>2. O!Now \in State /\ O!Now.cs = u1 /\ O!Now.b = u2
  BY <1>1, StateIs DEF CondIInv
<1>3. Fit(O!Now, Bonus)
  BY <1>2 DEF CondIInv, Fit, Good, Now
<1> QED BY <1>2, <1>3 DEF CondIInv, Bonus

LEMMA CondBecomes ==
  ASSUME Owned, NEW s, O!Become(s), UNCHANGED <<u3, u4>>, u5' \in {"bag", "worn"},
         Fit(s, IF u5' = "worn" THEN RingSpeed ELSE 0)
  PROVE  CondIInv'
<1>1. u1' = s.cs /\ u2' = s.b
  BY DEF O!Become
<1>2. Owned'
  BY DEF Owned
<1>3. u1' \in Seq(Cond) /\ u2' \in Body /\ Unique(u1)'
  BY <1>1 DEF Fit, Good, State, Unique
<1>4. Fine(O!ToSet(u1'), u2', Bonus')
  BY <1>1 DEF Fit, Good, Bonus
<1>5. Fine(O!ToSet(u1), u2, Bonus)'
  BY <1>4 DEF Fine, Sums, Shows, Seen, Guards, Keyed, Bonus
<1>6. Apart(O!ToSet(u1))' /\ Locks(O!ToSet(u1), u2)'
  BY <1>1 DEF Fit, Now, Apart, Forced, Locks
<1> QED BY <1>2, <1>3, <1>5, <1>6 DEF CondIInv

LEMMA CondInit == ASSUME O!Init PROVE CondIInv
<1>1. Owned /\ ~u4 /\ u5 = "bag" /\ u1 = <<>> /\ u2 = O!Fresh
  BY DEF O!Init, Owned
<1> DEFINE s == [cs |-> <<>>, b |-> O!Fresh]
<1>2. Fit(s, 0)
  BY <1>1, FreshFit
<1>3. s.cs = u1 /\ s.b = u2 /\ Bonus = 0
  BY <1>1 DEF Bonus
<1> HIDE DEF s
<1> QED BY <1>1, <1>2, <1>3 DEF CondIInv, Fit, Good, State, Now

LEMMA AddConditionKeeps ==
  ASSUME CondIInv, O!ConditionsAssumption, NEW d \in Catalog, O!AddCondition(d) PROVE CondIInv'
<1>1. d \in Cond /\ RingSpeed \in Int
  BY CondAre
<1>2. Fit(O!Now, Bonus) /\ Bonus \in Int /\ Owned
  BY <1>1, CondNow
<1> DEFINE s == O!AddTo(O!Now, d)
<1>3. O!Become(s) /\ UNCHANGED <<u3, u4>> /\ u5' = u5
  BY DEF O!AddCondition
<1> HIDE DEF s
<1>4. Fit(s, Bonus)
  BY <1>1, <1>2, AddToFit DEF Fit, s
<1> QED BY <1>2, <1>3, <1>4, CondBecomes DEF Bonus, CondIInv

LEMMA AddInFightTicksKeeps ==
  ASSUME CondIInv, O!ConditionsAssumption, NEW x \in BOOLEAN, O!AddInFightTicks(x) PROVE CondIInv'
<1>1. RingSpeed \in Int /\ O!InFight \in Cond /\ O!InFight.type = "infight"
  BY CondAre
<1>2. /\ Fit(O!Now, Bonus) /\ Bonus \in Int /\ Owned
      /\ O!Now.cs = u1 /\ O!Now.b = u2 /\ O!Now \in State
  BY <1>1, CondNow
<1> DEFINE r == O!Now
           v == r.b.locked \/ x
           bd == [r.b EXCEPT !.locked = v]
           t == [r EXCEPT !.b = bd]
           s == O!AddTo(t, O!InFight)
<1>3. O!Become(s) /\ UNCHANGED <<u3, u4>> /\ u5' = u5
  BY DEF O!AddInFightTicks
<1>4. r \in State /\ r.b \in Body /\ v \in BOOLEAN
  BY <1>2 DEF State, Body
<1> HIDE DEF v, r
<1>5. /\ bd \in Body /\ bd.speed = r.b.speed /\ bd.skill = r.b.skill /\ bd.defends = r.b.defends
      /\ bd.outfit = r.b.outfit /\ bd.shown = r.b.shown
  BY <1>4, BodyWith
<1> HIDE DEF bd
<1>6. t \in State /\ t.cs = r.cs /\ t.b = bd
  BY <1>4, <1>5 DEF State
<1> HIDE DEF t
<1>7. Good(t, Bonus) /\ Apart(Now(t))
  BY <1>2, <1>5, <1>6 DEF Fit, Good, Fine, Sums, Shows, Guards, Now, r
<1>8. Fit(s, Bonus)
  BY <1>1, <1>2, <1>7, AddToFit
<1> HIDE DEF s
<1> QED BY <1>2, <1>3, <1>8, CondBecomes DEF Bonus, CondIInv

LEMMA DroppingKeeps ==
  ASSUME CondIInv, O!ConditionsAssumption, NEW D, O!Become(O!DropAll(O!Now, D)), UNCHANGED <<u3, u4, u5>>
  PROVE CondIInv'
<1>1. Fit(O!Now, Bonus) /\ Bonus \in Int /\ Owned
  BY CondAre, CondNow
<1> DEFINE s == O!DropAll(O!Now, D)
<1>2. Fit(s, Bonus)
  BY <1>1, DropAllFit
<1> HIDE DEF s
<1>3. O!Become(s) /\ UNCHANGED <<u3, u4>> /\ u5' = u5
  BY DEF s
<1> QED BY <1>1, <1>2, <1>3, CondBecomes DEF Bonus, CondIInv

LEMMA ExecuteKeeps ==
  ASSUME CondIInv, O!ConditionsAssumption, NEW x \in BOOLEAN, O!Execute(x) PROVE CondIInv'
<1>1. Fit(O!Now, Bonus) /\ Bonus \in Int /\ Owned
  BY CondAre, CondNow
<1> DEFINE s == O!ExecuteAll(O!Now, x)
<1>2. Fit(s, Bonus)
  BY <1>1, ExecuteAllFit
<1>3. O!Become(s) /\ UNCHANGED <<u3, u4>> /\ u5' = u5
  BY DEF O!Execute
<1> HIDE DEF s
<1> QED BY <1>1, <1>2, <1>3, CondBecomes DEF Bonus, CondIInv

LEMMA EquipKeeps ==
  ASSUME CondIInv, O!ConditionsAssumption, O!EquipItem \/ O!DeEquipItem PROVE CondIInv'
<1>0. RingSpeed \in Int
  BY CondAre
<1>1. Fit(O!Now, Bonus) /\ Owned
  BY <1>0, CondNow
<1>2. CASE O!EquipItem
  <2>1. Fit(O!Now, 0)
    BY <1>1, <1>2 DEF O!EquipItem, Bonus
  <2> DEFINE s == O!PutOn(O!Now)
  <2>2. Fit(s, RingSpeed)
    BY <1>0, <1>1, <2>1, PutOnFit
  <2>3. O!Become(s) /\ UNCHANGED <<u3, u4>> /\ u5' = "worn"
    BY <1>2 DEF O!EquipItem
  <2> HIDE DEF s
  <2> QED BY <1>1, <2>2, <2>3, CondBecomes
<1>3. CASE O!DeEquipItem
  <2>1. Fit(O!Now, RingSpeed)
    BY <1>1, <1>3 DEF O!DeEquipItem, Bonus
  <2> DEFINE s == O!TakeOff(O!Now)
  <2>2. Fit(s, 0)
    BY <1>0, <1>1, <2>1, TakeOffFit
  <2>3. O!Become(s) /\ UNCHANGED <<u3, u4>> /\ u5' = "bag"
    BY <1>3 DEF O!DeEquipItem
  <2> HIDE DEF s
  <2> QED BY <1>1, <2>2, <2>3, CondBecomes
<1> QED BY <1>2, <1>3

LEMMA RelogKeeps ==
  ASSUME CondIInv, O!ConditionsAssumption, O!Relog PROVE CondIInv'
<1>0. RingSpeed \in Int
  BY CondAre
<1>1. Owned /\ ~u4 /\ u1 \in Seq(Cond) /\ Bonus \in Int /\ u5 \in {"bag", "worn"}
  BY <1>0, CondNow DEF CondIInv, O!Relog
<1> DEFINE arrived == [cs |-> <<>>, b |-> O!Fresh]
           dressed == IF u5 = "worn" THEN O!PutOn(arrived) ELSE arrived
           s == O!LoadAll(dressed)
<1>2. Fit(arrived, 0)
  BY <1>1, FreshFit
<1>3. O!Become(s) /\ UNCHANGED <<u3, u4>> /\ u5' = u5
  BY DEF O!Relog
<1> HIDE DEF arrived
<1>4. Fit(dressed, Bonus)
  <2>1. Fit(O!PutOn(arrived), RingSpeed)
    BY <1>0, <1>1, <1>2, PutOnFit
  <2> QED BY <1>2, <2>1 DEF Bonus
<1> HIDE DEF dressed
<1>5. Fit(s, Bonus)
  BY <1>1, <1>4, LoadAllFit
<1> HIDE DEF s
<1> QED BY <1>1, <1>3, <1>5, CondBecomes DEF Bonus

\* A second passes: the same conditions, some with less time.
Later(c) == IF c.type = "fire" \/ c.left \in {0, -1} THEN c ELSE [c EXCEPT !.left = c.left - 1]

LEMMA LaterIs ==
  ASSUME NEW c \in Cond
  PROVE  /\ Later(c) \in Cond /\ Later(c).type = c.type /\ Later(c).val = c.val /\ Later(c).sub = c.sub
         /\ Later(c).disables = c.disables /\ O!Key(Later(c)) = O!Key(c)
         /\ Later(c).left # 0 => c.left # 0
<1> DEFINE d == Later(c)
<1>1. CASE c.type = "fire" \/ c.left \in {0, -1}
  BY <1>1 DEF Later
<1>2. CASE ~(c.type = "fire" \/ c.left \in {0, -1})
  <2> DEFINE m == c.left - 1
  <2>1. m \in Int /\ m >= -1 /\ c.left # 0
    BY <1>2 DEF Cond
  <2>2. d = [c EXCEPT !.left = m]
    BY <1>2 DEF Later
  <2> HIDE DEF d, m
  <2>3. d \in Cond /\ d.type = c.type /\ d.val = c.val /\ d.sub = c.sub /\ d.disables = c.disables /\ d.id = c.id
    BY <2>1, <2>2 DEF Cond
  <2> QED BY <2>1, <2>3 DEF O!Key, d
<1> QED BY <1>1, <1>2

LEMMA PassKeeps ==
  ASSUME CondIInv, O!Pass PROVE CondIInv'
<1> DEFINE l == [i \in DOMAIN u1 |-> Later(u1[i])]
           D == O!ToSet(u1)
           F == [c \in D |-> Later(c)]
           E == {F[c] : c \in D}
<1>0. /\ u1 \in Seq(Cond) /\ Unique(u1) /\ Fine(D, u2, Bonus) /\ Apart(D) /\ Locks(D, u2)
      /\ D \in SUBSET Cond /\ IsFiniteSet(D) /\ D = {u1[i] : i \in 1 .. Len(u1)}
      /\ \A i \in 1 .. Len(u1) : u1[i] \in Cond
  BY SetOf DEF CondIInv
<1>1. u1' = l
  <2>1. \A i \in DOMAIN u1 : u1[i] \in Cond
    BY <1>0
  <2>2. \A i \in DOMAIN u1 : Later(u1[i]) =
          IF u1[i].type = "fire" \/ u1[i].left \in {0, -1} THEN u1[i] ELSE [u1[i] EXCEPT !.left = @ - 1]
    BY <2>1 DEF Later, Cond
  <2> QED BY <2>2 DEF O!Pass, O!Forever
<1>2. l \in Seq(Cond) /\ Len(l) = Len(u1) /\ \A i \in 1 .. Len(u1) : l[i] = Later(u1[i])
  <2>1. l \in [1 .. Len(u1) -> Cond] /\ \A i \in 1 .. Len(u1) : l[i] = Later(u1[i])
    BY <1>0, LaterIs
  <2> HIDE DEF l
  <2> QED BY <1>0, <2>1, SeqDef, LenProperties
<1> HIDE DEF l
<1>3. Unique(l)
  BY <1>0, <1>2, LaterIs DEF Unique
<1>4. O!ToSet(l) = E
  <2>1. O!ToSet(l) = {l[i] : i \in 1 .. Len(l)}
    BY <1>2, SetOf
  <2>2. \A i \in 1 .. Len(u1) : u1[i] \in D /\ F[u1[i]] = l[i]
    BY <1>0, <1>2
  <2>3. \A c \in D : \E i \in 1 .. Len(u1) : c = u1[i]
    BY <1>0
  <2> HIDE DEF F, D
  <2> QED BY <1>2, <2>1, <2>2, <2>3
<1>5. /\ F \in [D -> Cond]
      /\ \A c \in D : F[c].type = c.type /\ F[c].val = c.val /\ F[c].disables = c.disables
                      /\ F[c].sub = c.sub /\ (F[c].left # 0 => c.left # 0) /\ O!Key(F[c]) = O!Key(c)
  BY <1>0, LaterIs
<1>6. \A c, d \in D : O!Key(c) = O!Key(d) => c = d
  BY <1>0 DEF Fine, Keyed
<1> HIDE DEF D, F
<1>7. SumOf(Moving, E) = SumOf(Moving, D) /\ SumOf(Training, E) = SumOf(Training, D)
  <2>1. Moving \in SUBSET Numbers /\ Training \in SUBSET Numbers
    BY DEF Moving, Training, Numbers
  <2>2. \A c, d \in D : F[c] = F[d] => c = d
    BY <1>5, <1>6
  <2> QED BY <1>0, <1>5, <2>1, <2>2, SumMoved
<1>8. \A y : Held(E, y) <=> Held(D, y)
  BY <1>5 DEF Held
<1>9. Keyed(E)
  <2>1. E \in SUBSET Cond /\ IsFiniteSet(E)
    BY <1>2, <1>4, SetOf
  <2>2. \A c, d \in E : O!Key(c) = O!Key(d) => c = d
    BY <1>5, <1>6
  <2> QED BY <2>1, <2>2 DEF Keyed
<1>10. Guards(E, u2)
  BY <1>0, <1>5 DEF Fine, Guards
<1>11. Apart(E)
  BY <1>0, <1>5 DEF Apart, Forced
<1>12. Locks(E, u2)
  BY <1>0, <1>8 DEF Locks
<1> HIDE DEF E
<1>13. Fine(E, u2, Bonus)
  BY <1>0, <1>7, <1>8, <1>9, <1>10 DEF Fine, Sums, Shows, Seen
<1> DEFINE s == [cs |-> l, b |-> u2]
<1>14. u2 \in Body /\ Owned
  BY DEF CondIInv
<1>15. s \in State /\ s.cs = l /\ s.b = u2
  BY <1>2, <1>14, StateIs
<1> HIDE DEF s
<1>16. Fit(s, Bonus)
  BY <1>2, <1>3, <1>4, <1>11, <1>12, <1>13, <1>15 DEF Fit, Good, Now
<1>17. O!Become(s) /\ UNCHANGED <<u3, u4>> /\ u5' = u5 /\ u5' \in {"bag", "worn"}
  BY <1>1, <1>15 DEF O!Pass, O!Become, CondIInv
<1> QED BY <1>14, <1>16, <1>17, CondBecomes DEF Bonus

\* Whoever wears what a condition gave still wears it when he chooses anew.
LEMMA ChangeOutfitKeeps ==
  ASSUME CondIInv, O!ConditionsAssumption, NEW o \in Outfits, O!PlayerChangeOutfit(o) PROVE CondIInv'
<1> DEFINE D == O!ToSet(u1)
           t == O!ChangeOutfit(O!Now, o)
<1>0. /\ u1 \in Seq(Cond) /\ Unique(u1) /\ Fine(D, u2, Bonus) /\ Apart(D) /\ Locks(D, u2)
      /\ u2 \in Body /\ Owned /\ u5 \in {"bag", "worn"}
  BY DEF CondIInv
<1>1. O!Now \in State /\ O!Now.cs = u1 /\ O!Now.b = u2
  BY CondAre, CondNow
<1>2. o \in O!Looking
  BY DEF O!Looking
<1>3. u3' = o /\ UNCHANGED <<u4, u5>>
  BY DEF O!PlayerChangeOutfit
<1>4. Owned' /\ Bonus' = Bonus
  BY <1>0, <1>3 DEF Owned, Bonus
<1>5. CASE O!HasInForce(u1, "outfit")
  <2>1. u1' = u1 /\ u2' = u2
    BY <1>1, <1>5 DEF O!PlayerChangeOutfit, O!Become
  <2>2. Held(D, "outfit")
    BY <1>5 DEF O!HasInForce, Held
  <2>3. Fine(O!ToSet(u1), u2, Bonus)'
    BY <1>0, <1>3, <1>4, <2>1, <2>2 DEF Fine, Sums, Shows, Seen, Guards, Keyed, Held
  <2>4. Apart(O!ToSet(u1))' /\ Locks(O!ToSet(u1), u2)'
    BY <1>0, <2>1 DEF Apart, Forced, Locks, Held
  <2> QED BY <1>0, <1>3, <1>4, <2>1, <2>3, <2>4 DEF CondIInv, Unique
<1>6. CASE ~O!HasInForce(u1, "outfit")
  <2>1. u1' = t.cs /\ u2' = t.b
    BY <1>6 DEF O!PlayerChangeOutfit, O!Become
  <2>2. /\ t \in State /\ t.cs = u1 /\ t.b.outfit = o
        /\ t.b.shown = IF u4 \/ Held(D, "invisible") THEN u2.shown ELSE o
        /\ t.b.speed = u2.speed /\ t.b.skill = u2.skill /\ t.b.defends = u2.defends
        /\ t.b.locked = u2.locked
    BY <1>0, <1>1, <1>2, ChangeOutfitIs
  <2> HIDE DEF t
  <2>3. u2' \in Body
    BY <2>1, <2>2 DEF State
  <2>4. Shows(D, u2)'
    <3>1. u2'.outfit = u3' /\ u1' = u1
      BY <1>3, <2>1, <2>2
    <3>2. u2.shown = Seen(D, u2.outfit)
      BY <1>0 DEF Fine, Shows
    <3>3. u2'.shown = IF u4 THEN "absent" ELSE IF Held(D, "invisible") THEN "hidden" ELSE u2'.outfit
      BY <2>1, <2>2, <3>2 DEF Seen
    <3> QED BY <1>3, <3>1, <3>3 DEF Shows, Seen, Held
  <2>5. Fine(O!ToSet(u1), u2, Bonus)'
    BY <1>0, <1>4, <2>1, <2>2, <2>3, <2>4 DEF Fine, Sums, Guards, Keyed
  <2>6. Apart(O!ToSet(u1))' /\ Locks(O!ToSet(u1), u2)'
    BY <1>0, <2>1, <2>2 DEF Apart, Forced, Locks, Held
  <2> QED BY <1>0, <1>3, <1>4, <2>1, <2>2, <2>3, <2>5, <2>6 DEF CondIInv, Unique
<1> QED BY <1>5, <1>6

LEMMA GhostKeeps ==
  ASSUME CondIInv, O!SetGhostMode PROVE CondIInv'
<1> DEFINE D == O!ToSet(u1)
           v == IF ~u4 THEN "absent" ELSE IF O!Has(u1, "invisible") THEN "hidden" ELSE u2.outfit
<1>0. /\ u1 \in Seq(Cond) /\ Unique(u1) /\ Fine(D, u2, Bonus) /\ Apart(D) /\ Locks(D, u2)
      /\ u2 \in Body /\ Owned /\ u5 \in {"bag", "worn"}
  BY DEF CondIInv
<1>1. u4' = ~u4 /\ u2' = [u2 EXCEPT !.shown = v] /\ UNCHANGED <<u1, u3, u5>>
  BY DEF O!SetGhostMode
<1>2. O!Has(u1, "invisible") <=> Held(D, "invisible")
  BY DEF O!Has, Held
<1>3. v = IF ~u4 THEN "absent" ELSE IF Held(D, "invisible") THEN "hidden" ELSE u2.outfit
  BY <1>2
<1> HIDE DEF v
<1>4. v \in O!Looking \cup {"hidden", "absent"}
  BY <1>0, <1>3 DEF Body
<1>5. /\ u2' \in Body /\ u2'.speed = u2.speed /\ u2'.skill = u2.skill /\ u2'.defends = u2.defends
      /\ u2'.outfit = u2.outfit /\ u2'.shown = v /\ u2'.locked = u2.locked
  BY <1>0, <1>1, <1>4 DEF Body
<1>6. u2'.shown = IF u4' THEN "absent" ELSE IF Held(D, "invisible") THEN "hidden" ELSE u2'.outfit
  BY <1>0, <1>1, <1>3, <1>5 DEF Owned
<1>7. Shows(D, u2)'
  BY <1>0, <1>1, <1>5, <1>6 DEF Fine, Shows, Seen, Held
<1>8. Fine(O!ToSet(u1), u2, Bonus)'
  BY <1>0, <1>1, <1>5, <1>7 DEF Fine, Sums, Guards, Keyed, Bonus
<1>9. Apart(O!ToSet(u1))' /\ Locks(O!ToSet(u1), u2)'
  BY <1>0, <1>1, <1>5 DEF Apart, Forced, Locks, Held
<1> QED BY <1>0, <1>1, <1>5, <1>8, <1>9 DEF CondIInv, Unique, Owned

ValueStep(it, s) ==
  IF s = {} THEN 0 ELSE (CHOOSE x \in s : TRUE).val + it[s \ {CHOOSE x \in s : TRUE}]

\* The sum over the conditions of some types.
LEMMA ValuesAre ==
  ASSUME NEW t, u1 \in Seq(Cond)
  PROVE  O!Total(t) = SumOf(t, O!ToSet(u1))
<1> DEFINE S == {c \in O!ToSet(u1) : c.type \in t}
           w == ValueOf
           jt == CHOOSE it : it = [s \in SUBSET S |-> ValueStep(it, s)]
<1>0. S \in SUBSET Cond /\ IsFiniteSet(S)
  <2>1. O!ToSet(u1) \in SUBSET Cond /\ IsFiniteSet(O!ToSet(u1)) /\ S \subseteq O!ToSet(u1)
    BY SetOf
  <2> HIDE DEF S
  <2> QED BY <2>1, FS_Subset
<1>9. O!Total(t) = O!MapThenSumSet(LAMBDA c : c.val, S)
  BY DEF O!Total
<1> HIDE DEF S
<1>1. ASSUME NEW it, NEW s \in SUBSET S PROVE SumStep(w, it, s) = ValueStep(it, s)
  <2>1. CASE s = {}
    BY <2>1 DEF SumStep, ValueStep
  <2>2. CASE s # {}
    <3>1. (CHOOSE x \in s : TRUE) \in Cond
      BY <1>0, <2>2
    <3>2. w[CHOOSE x \in s : TRUE] = (CHOOSE x \in s : TRUE).val
      BY <3>1 DEF ValueOf
    <3> QED BY <2>2, <3>2 DEF SumStep, ValueStep
  <2> QED BY <2>1, <2>2
<1>2. \A it : [s \in SUBSET S |-> SumStep(w, it, s)] = [s \in SUBSET S |-> ValueStep(it, s)]
  BY <1>1
<1> HIDE DEF w
<1>3. PICK it : SumsUp(w, S, it) /\ SumOver(w, S) = it[S]
  BY <1>0, SumOverIs
<1>4. it = [s \in SUBSET S |-> ValueStep(it, s)]
  BY <1>2, <1>3 DEF SumsUp
<1>5. jt = [s \in SUBSET S |-> ValueStep(jt, s)]
  BY <1>4
<1>6. O!MapThenSumSet(LAMBDA c : c.val, S) = jt[S]
  BY DEF O!MapThenSumSet, O!MapThenFoldSet, ValueStep
<1> HIDE DEF jt
<1>7. SumsUp(w, S, jt)
  BY <1>2, <1>5 DEF SumsUp
<1>8. it[S] = jt[S]
  BY <1>0, <1>3, <1>7, SumsAgree
<1> QED BY <1>3, <1>6, <1>8, <1>9 DEF SumOf, w, S

LEMMA CondInv ==
  ASSUME CondIInv PROVE O!ConditionsInv
<1> DEFINE D == O!ToSet(u1)
<1>0. /\ u1 \in Seq(Cond) /\ Unique(u1) /\ Fine(D, u2, Bonus) /\ Apart(D) /\ Locks(D, u2)
      /\ u2 \in Body /\ Owned /\ u5 \in {"bag", "worn"} /\ D \in SUBSET Cond
  BY SetOf DEF CondIInv
<1>1. O!ConditionsTypeOK
  <2>1. \A c \in D : c.left >= -1
    BY <1>0 DEF Cond
  <2>2. /\ u2.outfit \in O!Looking /\ u2.shown \in O!Looking \cup {"hidden", "absent"}
        /\ u2.locked \in BOOLEAN /\ u2.defends \in BOOLEAN
    BY <1>0 DEF Body
  <2> QED BY <1>0, <2>1, <2>2 DEF O!ConditionsTypeOK, O!Forever, Owned
<1>2. O!OneOfAKind
  BY <1>0 DEF O!OneOfAKind, Unique
<1>3. O!SumsAreRight
  <2>1. O!Total(O!Speeds) = SumOf(Moving, D) /\ O!Total({"attributes"}) = SumOf(Training, D)
    BY <1>0, ValuesAre DEF O!Speeds, Moving, Training
  <2> QED BY <1>0, <2>1 DEF O!SumsAreRight, Fine, Sums, Bonus
<1>4. O!ShownAsIs
  <2>1. O!Now.cs = u1 /\ O!Now.b = u2
    BY DEF O!Now
  <2>2. O!Has(u1, "invisible") <=> Held(D, "invisible")
    BY DEF O!Has, Held
  <2> QED BY <1>0, <2>1, <2>2 DEF O!ShownAsIs, O!Looks, Fine, Shows, Seen
<1>5. O!HasAnEnd
  BY <1>0 DEF O!HasAnEnd, O!Has, Fine, Shows, Guards, Locks, Held
<1>6. O!HasteOrParalysis
  BY <1>0 DEF O!HasteOrParalysis, O!HasInForce, O!InForce, Apart, Forced
<1> QED BY <1>1, <1>2, <1>3, <1>4, <1>5, <1>6 DEF O!ConditionsInv

LEMMA CondStep ==
  ASSUME CondIInv, O!ConditionsAssumption, [O!Next]_(O!vars) PROVE CondIInv'
<1>1. CASE \E d \in Catalog : O!AddCondition(d)
  BY <1>1, AddConditionKeeps
<1>2. CASE \E x \in BOOLEAN : O!AddInFightTicks(x)
  BY <1>2, AddInFightTicksKeeps
<1>3. CASE \E d \in Catalog, ids \in {{"default"}, {"default", "combat", "slot"}} : O!RemoveCondition(d.type, ids)
  BY <1>3, DroppingKeeps DEF O!RemoveCondition
<1>4. CASE O!Pass
  BY <1>4, PassKeeps
<1>5. CASE \E x \in BOOLEAN : O!Execute(x)
  BY <1>5, ExecuteKeeps
<1>6. CASE O!Death
  BY <1>6, DroppingKeeps DEF O!Death
<1>7. CASE O!EquipItem \/ O!DeEquipItem
  BY <1>7, EquipKeeps
<1>8. CASE \E o \in Outfits : O!PlayerChangeOutfit(o)
  BY <1>8, ChangeOutfitKeeps
<1>9. CASE O!SetGhostMode
  BY <1>9, GhostKeeps
<1>10. CASE O!Relog
  BY <1>10, RelogKeeps
<1>11. CASE UNCHANGED O!vars
  <2>1. UNCHANGED <<u1, u2, u3, u4, u5>>
    BY <1>11 DEF O!vars
  <2> QED BY <2>1 DEF CondIInv, Owned, Unique, Fine, Sums, Shows, Seen, Guards, Keyed, Apart, Forced, Locks, Bonus
<1> QED BY <1>1, <1>2, <1>3, <1>4, <1>5, <1>6, <1>7, <1>8, <1>9, <1>10, <1>11 DEF O!Next

-----------------------------------------------------------------------------
(* All of it.  The variables of trades keep what they are while another    *)
(* part moves.                                                             *)

PlayersIInv ==
  /\ TradeIInv
  /\ part = "chat" => C!ChatInv
  /\ part = "wait" => WaitIInv
  /\ part = "kills" => KillsIInv
  /\ part = "cond" => CondIInv

LEMMA PlayersAssumed ==
  T!TradeAssumption /\ C!ChatAssumption /\ W!WaitAssumption /\ K!KillsAssumption
  /\ O!ConditionsAssumption
BY PlayersAssumption

LEMMA StepOfOne ==
  ASSUME [MCNext]_all
  PROVE  /\ part' = part /\ [T!Next]_(T!vars)
         /\ part = "chat" => [C!Next]_(C!vars)
         /\ part = "wait" => [W!Next]_(W!vars)
         /\ part = "kills" => [K!Next]_(K!vars)
         /\ part = "cond" => [O!Next]_(O!vars)
<1>0. (UNCHANGED trade_vars) => UNCHANGED T!vars
  BY DEF trade_vars, T!vars
<1>1. CASE party_step(Next)
  BY <1>0, <1>1 DEF party_step
<1>2. CASE trade_step(T!Next)
  BY <1>2 DEF trade_step
<1>3. CASE chat_step(C!Next)
  BY <1>0, <1>3 DEF chat_step
<1>4. CASE kills_step(K!Next)
  BY <1>0, <1>4 DEF kills_step
<1>5. CASE cond_step(O!Next)
  BY <1>0, <1>5 DEF cond_step
<1>6. CASE wait_step(W!Next)
  BY <1>0, <1>6 DEF wait_step
<1>7. CASE UNCHANGED all
  <2>1. part' = part /\ UNCHANGED T!vars /\ UNCHANGED <<u1, u2, u3, u4, u5, u6, u7, u8, u9>>
    BY <1>0, <1>7 DEF all
  <2>2. UNCHANGED C!vars /\ UNCHANGED W!vars /\ UNCHANGED K!vars /\ UNCHANGED O!vars
    BY <2>1 DEF C!vars, W!vars, K!vars, O!vars
  <2> QED BY <2>1, <2>2
<1> QED BY <1>1, <1>2, <1>3, <1>4, <1>5, <1>6, <1>7 DEF MCNext

LEMMA PlayersInitIInv == MCInit => PlayersIInv
BY PlayersAssumed, TradeInitIInv, ChatInitInv, WaitInitIInv, KillsInitIInv, CondInit DEF MCInit, PlayersIInv

LEMMA PlayersStepIInv == PlayersIInv /\ [MCNext]_all => PlayersIInv'
<1> SUFFICES ASSUME PlayersIInv, [MCNext]_all PROVE PlayersIInv'
  OBVIOUS
<1>1. TradeIInv'
  BY PlayersAssumed, StepOfOne, TradeStepIInv DEF PlayersIInv
<1>2. part = "chat" => C!ChatInv'
  BY PlayersAssumed, StepOfOne, ChatStepInv DEF PlayersIInv
<1>3. part = "wait" => WaitIInv'
  BY PlayersAssumed, StepOfOne, WaitStepIInv DEF PlayersIInv
<1>4. part = "kills" => KillsIInv'
  BY PlayersAssumed, StepOfOne, KillsStepIInv DEF PlayersIInv
<1>5. part = "cond" => CondIInv'
  BY PlayersAssumed, StepOfOne, CondStep DEF PlayersIInv
<1> QED BY <1>1, <1>2, <1>3, <1>4, <1>5, StepOfOne DEF PlayersIInv

\* Whom a channel points to is in the game, a private one has its owner and his guests, and
\* a window is open only where what is said arrives (chat.cpp, player.cpp onRemoveCreature).
THEOREM ChannelsAgree == MCSpec => []ChannelsInv
<1>1. PlayersIInv => ChannelsInv
  BY DEF PlayersIInv, ChannelsInv
<1> QED BY <1>1, PlayersInitIInv, PlayersStepIInv, PTL DEF MCSpec

\* Whoever asks again finds his one entry or has none, whoever plays waits nowhere, and
\* only those who may always come make the server fuller than it may be (protocolgame.cpp
\* WaitingList).
THEOREM ClientsWaitOnce == MCSpec => []WaitInv
<1>1. PlayersIInv => WaitInv
  BY WaitIInvImpliesInv DEF PlayersIInv, WaitInv
<1> QED BY <1>1, PlayersInitIInv, PlayersStepIInv, PTL DEF MCSpec

\* What hitters are credited with was lost, once; a hitter has one row of the map of damage
\* however often rows are written over, a dead monster pays no more experience than it is
\* worth, and the player who hit last has his share (creature.cpp addDamagePoints,
\* onAttackedCreatureDrainHealth, distributeExperiencePoints).
THEOREM KillsArePaidOnce == MCSpec => []KillsInv
<1>1. PlayersIInv => KillsInv
  BY PlayersAssumed, KillsIInvImpliesInv DEF PlayersIInv, KillsInv
<1> QED BY <1>1, PlayersInitIInv, PlayersStepIInv, PTL DEF MCSpec

\* What a player's conditions and his ring gave is what his body has, none of them twice and
\* none forgotten, whatever replaces, dispels, runs out, dies or comes back from the database;
\* a spectator sees what there is to see, and what a condition must undo has one that will
\* (condition.cpp, creature.cpp addCondition and removeCondition, iologindata.cpp).
THEOREM BodyAgrees == MCSpec => []ConditionsInv
<1>1. PlayersIInv => ConditionsInv
  BY CondInv DEF PlayersIInv, ConditionsInv
<1> QED BY <1>1, PlayersInitIInv, PlayersStepIInv, PTL DEF MCSpec

\* Both sides of a trade, the map of offers, the counters of the items and the documents of
\* houses say the same, and no offer is part of another (game.cpp internalStartTrade,
\* playerAcceptTrade, internalCloseTrade; house.cpp).
THEOREM TradesAgree == MCSpec => []TradeInv
<1>1. PlayersIInv => TradeInv
  BY TradeIInvImpliesInv DEF PlayersIInv, TradeInv
<1> QED BY <1>1, PlayersInitIInv, PlayersStepIInv, PTL DEF MCSpec

\* While an offer stands, it stays where it is and nothing gets into it or out of it
\* (player.cpp checkTradeState and its callers).
THEOREM OffersStayIntact == MCSpec => TradesAreIntact
<1>1. PlayersIInv /\ [MCNext]_all =>
        [\A p \in Traders :
           LET i == trade[p].item IN
           i \in Things /\ trade'[p].item = i =>
             /\ {j \in Things : T!Holding(i, j)} = {j \in Things : T!Holding(i, j)}'
             /\ T!Above(inside, i) = T!Above(inside, i)' /\ holder[T!Top(i)] = holder[T!Top(i)]']_(T!vars)
  <2> SUFFICES ASSUME PlayersIInv, [MCNext]_all, NEW p \in Traders, trade[p].item \in Things,
                      trade'[p].item = trade[p].item
               PROVE  Lying(trade[p].item)
    BY DEF Lying
  <2> QED BY PlayersAssumed, StepOfOne, TradeStepIntact DEF PlayersIInv
<1> QED BY <1>1, PlayersInitIInv, PlayersStepIInv, PTL DEF MCSpec, TradesAreIntact, T!OfferIntact
=============================================================================
