------------------------------ MODULE WaitList ------------------------------
(***************************************************************************)
(* The waiting list in front of a full server (protocolgame.cpp).  A       *)
(* client that finds the server full is told its slot and when to ask      *)
(* again; it keeps its entry for some seconds longer than that.  Those     *)
(* with a premium account wait in a list of their own, before the others.  *)
(***************************************************************************)
EXTENDS Naturals, Sequences, FiniteSets, SequencesExt

CONSTANTS
  Clients,
  Premium,      \* those with a premium account
  Always,       \* those who may always log in
  MaxPlayers,   \* 0: no limit
  Timeout,      \* steps an entry is kept (the time to retry, and 15 seconds)
  Ghost,        \* what an entry names after its guid was overwritten
  MaxEntries    \* bound: entries of the lists together

WaitAssumption == Ghost \notin Clients /\ Timeout \in Nat /\ MaxPlayers \in Nat

VARIABLES
  online,    \* the players in the game
  priority,  \* priorityWaitList: whom an entry is of, and the steps until its timeout
  wait       \* waitList

vars == <<online, priority, wait>>

Alive(e) == e.left > 0
CleanupList(l) ==
  LET kept[n \in 0..Len(l)] ==
        IF n = 0 THEN <<>> ELSE IF Alive(l[n]) THEN Append(kept[n - 1], l[n]) ELSE kept[n - 1]
  IN kept[Len(l)]
Entry(c) == [who |-> c, left |-> Timeout]
Has(l, c) == \E i \in DOMAIN l : l[i].who = c
At(l, c) == CHOOSE i \in DOMAIN l : l[i].who = c /\ \A j \in 1..(i - 1) : l[j].who # c

\* findClient: the slot is counted from the end of the list.
FromEnd(l, i) == Len(l) - i + 2

\* Let in, and out of the list; the second form stays in it.
Erase(l, i) == RemoveAt(l, i)
EraseNot(l, i) == l
TakeOut(l, i) == Erase(l, i)

\* The entry is to wait a bit longer, but what is overwritten is its guid: its timeout
\* stays, and the client is no longer found.
WaitLonger(l, i) == [l EXCEPT ![i].who = Ghost]

Enter(c) == online' = online \cup {c}

\* clientLogin of c with the lists p and w cleaned up.
ClientLogin(c) ==
  LET p == CleanupList(priority)
      w == CleanupList(wait)
      full == MaxPlayers # 0 /\ (p # <<>> \/ w # <<>> \/ Cardinality(online) >= MaxPlayers)
      slot == IF Has(p, c) THEN FromEnd(p, At(p, c)) ELSE Len(p) + FromEnd(w, At(w, c))
  IN /\ c \notin online
     /\ Len(priority) + Len(wait) < MaxEntries
     /\ \/ c \in Always /\ Enter(c) /\ UNCHANGED <<priority, wait>>
        \/ c \notin Always /\ ~full /\ Enter(c) /\ priority' = p /\ wait' = w
        \/ /\ c \notin Always /\ full /\ (Has(p, c) \/ Has(w, c))
           /\ IF Cardinality(online) + slot <= MaxPlayers
              THEN /\ Enter(c)
                   /\ priority' = IF Has(p, c) THEN TakeOut(p, At(p, c)) ELSE p
                   /\ wait' = IF Has(p, c) THEN w ELSE TakeOut(w, At(w, c))
              ELSE /\ UNCHANGED online
                   /\ priority' = IF Has(p, c) THEN WaitLonger(p, At(p, c)) ELSE p
                   /\ wait' = IF Has(p, c) THEN w ELSE WaitLonger(w, At(w, c))
        \/ /\ c \notin Always /\ full /\ ~Has(p, c) /\ ~Has(w, c)
           /\ UNCHANGED online
           /\ IF c \in Premium THEN priority' = Append(p, Entry(c)) /\ wait' = w
              ELSE wait' = Append(w, Entry(c)) /\ priority' = p

Leave(c) ==
  /\ online' = online \ {c} /\ c \in online
  /\ UNCHANGED <<priority, wait>>

Less(n) == IF n > 0 THEN n - 1 ELSE 0
Tick ==
  /\ priority' = [i \in DOMAIN priority |-> [priority[i] EXCEPT !.left = Less(@)]]
  /\ wait' = [i \in DOMAIN wait |-> [wait[i] EXCEPT !.left = Less(@)]]
  /\ UNCHANGED online

Init ==
  /\ online = {} /\ priority = <<>> /\ wait = <<>>

Next == (\E c \in Clients : ClientLogin(c) \/ Leave(c)) \/ Tick

Spec == Init /\ [][Next]_vars

-----------------------------------------------------------------------------
WaitTypeOK ==
  LET Lists == [who : Clients \cup {Ghost}, left : 0..Timeout]
  IN /\ online \subseteq Clients
     /\ priority \in Seq(Lists) /\ wait \in Seq(Lists)

Places(c) ==
  Cardinality({i \in DOMAIN priority : priority[i].who = c}) + Cardinality({i \in DOMAIN wait : wait[i].who = c})

\* A client waits at one place, and one that plays at none: an entry left behind would keep
\* all others in front of free places (protocolgame.cpp:122).
OnePlaceEach ==
  \A c \in Clients : Places(c) <= (IF c \in online THEN 0 ELSE 1)

\* Those who are let in although others wait do not overfill the server; only those who may
\* always come go beyond.
WithinMax == MaxPlayers # 0 => Cardinality(online) <= MaxPlayers + Cardinality(online \cap Always)

WaitInv == WaitTypeOK /\ OnePlaceEach /\ WithinMax
=============================================================================
