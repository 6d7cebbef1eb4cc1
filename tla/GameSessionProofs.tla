-------------------------- MODULE GameSessionProofs --------------------------
(***************************************************************************)
(* No pointer to a player outlives the Player object, for any number of    *)
(* sessions and objects; a session loses its player by its own release     *)
(* only; and a packet finds the session it came in.                        *)
(*                                                                         *)
(* The pointers to an object are counted: those of the sessions, one by    *)
(* one, and those the object's own state tells of (Own).  What a handler   *)
(* does is first reduced to what it does to these two numbers and to refs. *)
(* Inv is not inductive by itself: that a session which gets a player has  *)
(* none yet depends on the tasks that are queued (OneTaskEach).            *)
(***************************************************************************)
EXTENDS GameSession, FiniteSetTheorems, SequenceTheorems, TLAPS

Tasks == {"login", "connect", "packet", "release"} \X Sessions
Player == [status : {"free", "loading", "inGame", "removed"},
           client : Sessions \cup {None}, refs : Nat,
           check : {"none", "listed", "unlisted"}, toRelease : Nat,
           isLoggingOut : BOOLEAN, isConnecting : BOOLEAN]

-----------------------------------------------------------------------------
(* The queue of tasks.                                                     *)

Entries(q) == {q[i] : i \in 1 .. Len(q)}
Single(q, t) == \A i, j \in 1 .. Len(q) : q[i] = t /\ q[j] = t => i = j

LEMMA Appended ==
  ASSUME NEW q \in Seq(Tasks), NEW t \in Tasks
  PROVE  /\ Append(q, t) \in Seq(Tasks)
         /\ Entries(Append(q, t)) = Entries(q) \cup {t}
         /\ \A u : Single(q, u) /\ (u # t \/ u \notin Entries(q)) => Single(Append(q, t), u)
<1> DEFINE a == Append(q, t)
<1>1. /\ a \in Seq(Tasks) /\ Len(a) = Len(q) + 1 /\ a[Len(q) + 1] = t
      /\ \A i \in 1 .. Len(q) : a[i] = q[i]
      /\ Len(q) \in Nat
  BY AppendProperties, LenProperties, SMT
<1> HIDE DEF a
<1>2. 1 .. Len(a) = 1 .. Len(q) \cup {Len(q) + 1}
  BY <1>1
<1>3. Entries(a) = Entries(q) \cup {t}
  BY <1>1, <1>2 DEF Entries
<1>4. ASSUME NEW u, Single(q, u), u # t \/ u \notin Entries(q) PROVE Single(a, u)
  <2> SUFFICES ASSUME NEW i \in 1 .. Len(a), NEW j \in 1 .. Len(a), a[i] = u, a[j] = u
               PROVE  i = j
    BY DEF Single
  <2>1. CASE i \in 1 .. Len(q) /\ j \in 1 .. Len(q)
    BY <1>1, <1>4, <2>1 DEF Single
  <2>2. CASE i = Len(q) + 1 /\ j \in 1 .. Len(q)
    BY <1>1, <1>4, <2>2 DEF Entries
  <2>3. CASE j = Len(q) + 1 /\ i \in 1 .. Len(q)
    BY <1>1, <1>4, <2>3 DEF Entries
  <2> QED BY <1>2, <2>1, <2>2, <2>3
<1> QED BY <1>1, <1>3, <1>4 DEF a

LEMMA Tailed ==
  ASSUME NEW q \in Seq(Tasks), q # <<>>
  PROVE  /\ Tail(q) \in Seq(Tasks) /\ Head(q) \in Tasks /\ Head(q) \in Entries(q)
         /\ Entries(Tail(q)) \subseteq Entries(q)
         /\ \A u : Single(q, u) => Single(Tail(q), u)
         /\ Single(q, Head(q)) => Head(q) \notin Entries(Tail(q))
<1> DEFINE r == Tail(q)
<1>1. /\ r \in Seq(Tasks) /\ Len(r) = Len(q) - 1 /\ Head(q) = q[1] /\ Head(q) \in Tasks
      /\ \A i \in 1 .. Len(r) : r[i] = q[i + 1]
      /\ Len(q) \in Nat \ {0}
  <2>1. Len(q) \in Nat \ {0}
    BY EmptySeq, LenProperties
  <2> QED BY <2>1, HeadTailProperties
<1> HIDE DEF r
<1>2. \A i \in 1 .. Len(r) : i + 1 \in 1 .. Len(q) /\ i + 1 # 1
  BY <1>1
<1>3. Head(q) \in Entries(q)
  BY <1>1 DEF Entries
<1>4. Entries(r) \subseteq Entries(q)
  BY <1>1, <1>2 DEF Entries
<1>5. ASSUME NEW u, Single(q, u) PROVE Single(r, u)
  BY <1>1, <1>2, <1>5 DEF Single
<1>6. Single(q, Head(q)) => Head(q) \notin Entries(r)
  BY <1>1, <1>2 DEF Entries, Single
<1> QED BY <1>1, <1>3, <1>4, <1>5, <1>6 DEF r

\* A session has one login or one connect under way at most, and then no player yet.
OneTaskEach ==
  \A s \in Sessions :
    /\ Single(queue, <<"login", s>>) /\ Single(queue, <<"connect", s>>)
    /\ <<"login", s>> \in Entries(queue) =>
         conn[s] # "none" /\ eventConnect[s] = None /\ player[s] = None
    /\ <<"connect", s>> \in Entries(queue) => eventConnect[s] # None
    /\ eventConnect[s] # None => player[s] = None
    /\ conn[s] = "none" => player[s] = None /\ eventConnect[s] = None

\* The queue r has no login and no connect that q has not, and none of them twice.
Calm(q, r) ==
  /\ r \in Seq(Tasks)
  /\ \A s \in Sessions, what \in {"login", "connect"} :
       /\ <<what, s>> \in Entries(r) => <<what, s>> \in Entries(q)
       /\ Single(q, <<what, s>>) => Single(r, <<what, s>>)

ConnType == conn \in [Sessions -> {"none", "open", "closed", "gone"}]
SameNone == \A s \in Sessions : conn'[s] = "none" <=> conn[s] = "none"

LEMMA TailIsCalm ==
  ASSUME NEW q \in Seq(Tasks), q # <<>>
  PROVE  Calm(q, Tail(q))
BY Tailed DEF Calm

LEMMA CalmAfterCalm ==
  ASSUME NEW q, NEW r, NEW t, Calm(q, r), Calm(r, t)
  PROVE  Calm(q, t)
BY DEF Calm

LEMMA ReleaseIsCalm ==
  ASSUME NEW q \in Seq(Tasks), NEW s \in Sessions, NEW what \in {"release", "packet"}
  PROVE  Calm(q, Append(q, <<what, s>>))
<1>1. <<what, s>> \in Tasks
  BY DEF Tasks
<1>2. \A t \in Sessions, w \in {"login", "connect"} : <<w, t>> # <<what, s>>
  OBVIOUS
<1> QED BY <1>1, <1>2, Appended DEF Calm

LEMMA CloseIsCalm ==
  ASSUME ConnType, NEW q \in Seq(Tasks), NEW s \in Sessions \cup {None}, Close(s, q),
         SessionAssumption
  PROVE  Calm(q, queue') /\ ConnType' /\ SameNone
<1>1. CASE s # None /\ conn[s] = "open"
  <2>1. s \in Sessions /\ conn' = [conn EXCEPT ![s] = "closed"]
        /\ queue' = Append(q, <<"release", s>>)
    BY <1>1 DEF Close
  <2>2. Calm(q, queue')
    BY <2>1, ReleaseIsCalm
  <2> QED BY <1>1, <2>1, <2>2 DEF ConnType, SameNone
<1>2. CASE ~(s # None /\ conn[s] = "open")
  BY <1>2 DEF Close, Calm, ConnType, SameNone
<1> QED BY <1>1, <1>2

\* Who gains a player or a connect has its login or connect behind it.
LEMMA OneTaskKept ==
  ASSUME OneTaskEach, Calm(queue, queue'), SameNone,
         \A s \in Sessions :
           \/ player'[s] \in {player[s], None} /\ eventConnect'[s] = eventConnect[s]
           \/ /\ <<"login", s>> \notin Entries(queue') /\ <<"connect", s>> \notin Entries(queue')
              /\ conn[s] # "none" /\ (eventConnect'[s] = None \/ player'[s] = None)
  PROVE  OneTaskEach'
<1> SUFFICES ASSUME NEW s \in Sessions
             PROVE  /\ Single(queue', <<"login", s>>) /\ Single(queue', <<"connect", s>>)
                    /\ <<"login", s>> \in Entries(queue') =>
                         conn'[s] # "none" /\ eventConnect'[s] = None /\ player'[s] = None
                    /\ <<"connect", s>> \in Entries(queue') => eventConnect'[s] # None
                    /\ eventConnect'[s] # None => player'[s] = None
                    /\ conn'[s] = "none" => player'[s] = None /\ eventConnect'[s] = None
  BY DEF OneTaskEach, Single, Entries
<1>1. Single(queue', <<"login", s>>) /\ Single(queue', <<"connect", s>>)
  BY DEF OneTaskEach, Calm
<1>2. CASE player'[s] \in {player[s], None} /\ eventConnect'[s] = eventConnect[s]
  BY <1>1, <1>2 DEF OneTaskEach, Calm, SameNone
<1>3. CASE /\ <<"login", s>> \notin Entries(queue') /\ <<"connect", s>> \notin Entries(queue')
           /\ conn[s] # "none" /\ (eventConnect'[s] = None \/ player'[s] = None)
  BY <1>1, <1>3 DEF SameNone
<1> QED BY <1>2, <1>3

-----------------------------------------------------------------------------
(* The pointers of the sessions.                                           *)

CountOf(f, o) == Cardinality({s \in Sessions : f[s] = o})

LEMMA CountIsNat ==
  ASSUME SessionAssumption, NEW f, NEW o
  PROVE  CountOf(f, o) \in Nat /\ (CountOf(f, o) = 0 <=> \A s \in Sessions : f[s] # o)
<1> DEFINE S == {s \in Sessions : f[s] = o}
<1>1. IsFiniteSet(S) /\ Cardinality(S) \in Nat
  BY FS_Subset, FS_CardinalityType DEF SessionAssumption
<1>2. Cardinality(S) = 0 <=> S = {}
  BY <1>1, FS_EmptySet
<1> QED BY <1>1, <1>2 DEF CountOf

LEMMA CountAfterSet ==
  ASSUME SessionAssumption, NEW f \in [Sessions -> Objects \cup {None}],
         NEW g \in [Sessions -> Objects \cup {None}], NEW o \in Objects,
         NEW s \in Sessions, NEW v \in Objects \cup {None},
         g[s] = v, \A t \in Sessions \ {s} : g[t] = f[t]
  PROVE  CountOf(g, o) =
           CountOf(f, o) + (IF v = o THEN 1 ELSE 0) - (IF f[s] = o THEN 1 ELSE 0)
<1> DEFINE S == {t \in Sessions : f[t] = o}
           R == {t \in Sessions : g[t] = o}
<1>0. /\ g[s] = v /\ \A t \in Sessions \ {s} : g[t] = f[t]
      /\ CountOf(g, o) = Cardinality(R) /\ CountOf(f, o) = Cardinality(S)
  BY DEF CountOf
<1>1. IsFiniteSet(S) /\ Cardinality(S) \in Nat
  BY FS_Subset, FS_CardinalityType DEF SessionAssumption
<1>2. CASE v = o /\ f[s] # o
  <2>1. R = S \cup {s} /\ s \notin S
    BY <1>0, <1>2
  <2> HIDE DEF S, R
  <2>2. Cardinality(R) = Cardinality(S) + 1
    BY <1>1, <2>1, FS_AddElement
  <2> QED BY <1>0, <1>1, <1>2, <2>2 DEF S, R
<1>3. CASE v # o /\ f[s] = o
  <2>1. R = S \ {s} /\ s \in S
    BY <1>0, <1>3
  <2> HIDE DEF S, R
  <2>2. Cardinality(R) = Cardinality(S) - 1
    BY <1>1, <2>1, FS_RemoveElement
  <2> QED BY <1>0, <1>1, <1>3, <2>2 DEF S, R
<1>4. CASE (v = o) = (f[s] = o)
  <2>1. R = S
    BY <1>0, <1>4
  <2>2. CountOf(g, o) = CountOf(f, o) /\ CountOf(f, o) \in Nat
    BY <1>0, <1>1, <2>1
  <2>3. CASE v = o /\ f[s] = o
    BY <2>2, <2>3
  <2>4. CASE v # o /\ f[s] # o
    BY <2>2, <2>4
  <2> QED BY <1>4, <2>3, <2>4
<1> QED BY <1>2, <1>3, <1>4

-----------------------------------------------------------------------------
(* What a Player object's own state counts.                                *)

Own(r) ==
  (IF r.status = "inGame" THEN 1 ELSE 0) + (IF r.check # "none" THEN 1 ELSE 0) + r.toRelease

LEMMA FreeIsFree == Free \in Player /\ Own(Free) = 0 /\ Free.refs = 0 /\ Free.client = None
                    /\ Free.status = "free" /\ Free.isLoggingOut = FALSE /\ Free.toRelease = 0
BY DEF Free, Player, Own

LEMMA OwnIsNat == ASSUME NEW r \in Player PROVE Own(r) \in Nat /\ r.refs \in Nat /\ r.toRelease \in Nat
BY DEF Player, Own

LEMMA HeldIs ==
  ASSUME NEW r \in Player
  PROVE  /\ Held(r) \in Player /\ Own(Held(r)) = Own(r) /\ Held(r).refs = r.refs + 1
         /\ Held(r).status = r.status /\ Held(r).client = r.client
         /\ Held(r).toRelease = r.toRelease /\ Held(r).check = r.check
BY DEF Player, Own, Held

LEMMA TakenIs ==
  ASSUME NEW r \in Player, NEW s \in Sessions
  PROVE  /\ Taken(r, s) \in Player /\ Own(Taken(r, s)) = Own(r) /\ Taken(r, s).refs = r.refs
         /\ Taken(r, s).status = r.status /\ Taken(r, s).client = s
         /\ Taken(r, s).toRelease = r.toRelease
BY DEF Player, Own, Taken

LEMMA LeavingIs ==
  ASSUME NEW r \in Player
  PROVE  /\ Leaving(r) \in Player /\ Own(Leaving(r)) = Own(r) /\ Leaving(r).refs = r.refs + 1
         /\ Leaving(r).status = r.status /\ Leaving(r).client = r.client
         /\ Leaving(r).toRelease = r.toRelease
<1> DEFINE h == Held(r)
<1>1. Leaving(r) = [h EXCEPT !.isLoggingOut = TRUE]
  BY DEF Leaving
<1>2. /\ h \in Player /\ Own(h) = Own(r) /\ h.refs = r.refs + 1 /\ h.status = r.status
      /\ h.client = r.client /\ h.toRelease = r.toRelease
  BY HeldIs
<1> HIDE DEF h
<1>3. ASSUME NEW q \in Player
      PROVE  LET l == [q EXCEPT !.isLoggingOut = TRUE] IN
             /\ l \in Player /\ Own(l) = Own(q) /\ l.refs = q.refs /\ l.status = q.status
             /\ l.client = q.client /\ l.toRelease = q.toRelease
  BY DEF Player, Own
<1> QED BY <1>1, <1>2, <1>3

LEMMA RemovedIs ==
  ASSUME NEW r \in Player
  PROVE  /\ Removed(r) \in Player
         /\ r.status = "inGame" => Own(Removed(r)) = Own(r)
         /\ Removed(r).refs = r.refs /\ Removed(r).status = "removed"
         /\ Removed(r).client = r.client /\ Removed(r).toRelease = r.toRelease + 1
<1> DEFINE k == IF r.check = "listed" THEN "unlisted" ELSE r.check
           a == [r EXCEPT !.status = "removed"]
           b == [a EXCEPT !.toRelease = r.toRelease + 1]
           d == [b EXCEPT !.check = k]
<1>1. r.toRelease + 1 \in Nat /\ k \in {"none", "listed", "unlisted"}
  BY DEF Player
<1>2. ASSUME NEW q \in Player
      PROVE  /\ [q EXCEPT !.status = "removed"] \in Player
             /\ \A n \in Nat : [q EXCEPT !.toRelease = n] \in Player
             /\ \A x \in {"none", "listed", "unlisted"} : [q EXCEPT !.check = x] \in Player
  BY DEF Player
<1>3. Removed(r) = d
  BY DEF Removed, Player
<1>4. a \in Player /\ b \in Player /\ d \in Player
  BY <1>1, <1>2
<1>5. /\ Removed(r).status = "removed" /\ Removed(r).refs = r.refs /\ Removed(r).client = r.client
      /\ Removed(r).toRelease = r.toRelease + 1 /\ Removed(r).check = k
  BY DEF Removed, Player
<1>6. (k # "none" <=> r.check # "none") /\ r.toRelease \in Nat
  BY DEF Player
<1>7. Removed(r) \in Player
  BY <1>3, <1>4
<1> HIDE DEF k, a, b, d
<1>8. r.status = "inGame" => Own(Removed(r)) = Own(r)
  BY <1>5, <1>6 DEF Own
<1> QED BY <1>5, <1>7, <1>8

LEMMA SweptIs ==
  ASSUME NEW r \in Player
  PROVE  /\ Swept(r) \in Player /\ Own(Swept(r)) = Own(r) /\ Swept(r).refs = r.refs
         /\ Swept(r).status = r.status /\ Swept(r).client = r.client
<1> DEFINE l == [r EXCEPT !.check = "none", !.toRelease = @ + 1]
<1>1. l \in Player
  <2>1. l = [[r EXCEPT !.check = "none"] EXCEPT !.toRelease = r.toRelease + 1]
    BY DEF Player
  <2>2. [r EXCEPT !.check = "none"] \in Player /\ r.toRelease + 1 \in Nat
    BY DEF Player
  <2>3. \A q \in Player, n \in Nat : [q EXCEPT !.toRelease = n] \in Player
    BY DEF Player
  <2> QED BY <2>1, <2>2, <2>3
<1>2. /\ l.refs = r.refs /\ l.status = r.status /\ l.client = r.client
      /\ l.check = "none" /\ l.toRelease = r.toRelease + 1 /\ r.toRelease \in Nat
  BY DEF Player
<1>3. r.check = "unlisted" => Own(l) = Own(r)
  BY <1>2 DEF Own
<1>4. Swept(r) = IF r.check = "unlisted" THEN l ELSE r
  BY DEF Swept
<1> QED BY <1>1, <1>2, <1>3, <1>4

\* Giving back n references of which there are as many frees the object if there are no more.
LEMMA DroppedIs ==
  ASSUME NEW r \in Player, NEW n \in Nat, n <= r.refs
  PROVE  /\ Dropped(r, n) \in Player
         /\ Dropped(r, n).refs = r.refs - n
         /\ r.refs = n => Dropped(r, n) = Free
         /\ r.refs # n => /\ Own(Dropped(r, n)) = Own(r) /\ Dropped(r, n).status = r.status
                          /\ Dropped(r, n).client = r.client
                          /\ Dropped(r, n).toRelease = r.toRelease
<1>1. CASE r.refs = n
  BY <1>1, FreeIsFree DEF Dropped
<1>2. CASE r.refs # n
  BY <1>2 DEF Dropped, Player, Own
<1> QED BY <1>1, <1>2

LEMMA CleanedIs ==
  ASSUME NEW r \in Player, Own(r) <= r.refs
  PROVE  /\ Cleaned(r) \in Player
         /\ Cleaned(r).refs = r.refs - r.toRelease
         /\ Cleaned(r) = Free \/ /\ Own(Cleaned(r)) = Own(r) - r.toRelease
                                 /\ Cleaned(r).status = r.status
                                 /\ Cleaned(r).client = r.client
         /\ r.refs # 0 /\ Cleaned(r).refs = 0 => Cleaned(r) = Free
         /\ Cleaned(r) = Free /\ r # Free => r.toRelease = r.refs
<1>1. CASE r.toRelease = 0
  BY <1>1, OwnIsNat DEF Cleaned
<1>2. CASE r.toRelease # 0
  <2> DEFINE q == [r EXCEPT !.toRelease = 0]
  <2>1. /\ q \in Player /\ q.refs = r.refs /\ q.status = r.status /\ q.client = r.client
        /\ Own(q) = Own(r) - r.toRelease /\ r.toRelease \in Nat /\ r.toRelease <= r.refs
    BY DEF Player, Own
  <2>2. Cleaned(r) = Dropped(q, r.toRelease)
    BY <1>2 DEF Cleaned
  <2> HIDE DEF q
  <2>3. CASE r.refs = r.toRelease
    BY <2>1, <2>2, <2>3, DroppedIs
  <2>4. CASE r.refs # r.toRelease
    <3>1. Cleaned(r).refs # 0
      BY <2>1, <2>2, <2>4, DroppedIs, OwnIsNat
    <3>2. Cleaned(r) # Free
      BY <3>1, FreeIsFree
    <3> QED BY <2>1, <2>2, <2>4, <3>1, <3>2, DroppedIs
  <2> QED BY <2>3, <2>4
<1> QED BY <1>1, <1>2

-----------------------------------------------------------------------------
(* All that points to an object.                                           *)

IInv == Inv /\ OneTaskEach

One(b) == IF b THEN 1 ELSE 0
Pointers(o) ==
  CountOf(player, o) + CountOf(eventConnect, o) + One(o \in removedCreatures) + One(o \in killedCreatures)

\* The object o is not deleted under a pointer.
Fine(o) ==
  Pointers(o) + Own(object[o]) <= object[o].refs /\ (object[o].refs = 0 => object[o] = Free)

LEMMA TypeIs ==
  ASSUME TypeOK
  PROVE  /\ object \in [Objects -> Player] /\ queue \in Seq(Tasks) /\ ConnType
         /\ player \in [Sessions -> Objects \cup {None}]
         /\ eventConnect \in [Sessions -> Objects \cup {None}]
         /\ acceptPackets \in [Sessions -> BOOLEAN] /\ bufferedProtocols \subseteq Sessions
         /\ removedCreatures \subseteq Objects /\ killedCreatures \subseteq Objects
         /\ released \subseteq Sessions
BY DEF TypeOK, Player, Tasks, ConnType

LEMMA TypeFrom ==
  ASSUME object \in [Objects -> Player], queue \in Seq(Tasks), ConnType,
         player \in [Sessions -> Objects \cup {None}],
         eventConnect \in [Sessions -> Objects \cup {None}],
         acceptPackets \in [Sessions -> BOOLEAN], bufferedProtocols \subseteq Sessions,
         removedCreatures \subseteq Objects, killedCreatures \subseteq Objects,
         released \subseteq Sessions
  PROVE  TypeOK
BY DEF TypeOK, Player, Tasks, ConnType

LEMMA HeldIsFine ==
  ASSUME SessionAssumption, object \in [Objects -> Player]
  PROVE  HeldWhileUsed <=> \A o \in Objects : Fine(o)
<1>1. ASSUME NEW o \in Objects PROVE Holders(o) = Pointers(o) + Own(object[o])
  <2>1. /\ CountOf(player, o) \in Nat /\ CountOf(eventConnect, o) \in Nat
        /\ object[o] \in Player /\ object[o].toRelease \in Nat
    BY CountIsNat, OwnIsNat
  <2>2. Holders(o) = CountOf(player, o) + CountOf(eventConnect, o)
                     + One(o \in removedCreatures) + One(o \in killedCreatures)
                     + One(InGame(o)) + One(object[o].check # "none") + object[o].toRelease
    BY DEF Holders, CountOf, One
  <2> QED BY <2>1, <2>2 DEF Pointers, Own, One, InGame
<1> QED BY <1>1 DEF HeldWhileUsed, Fine

\* The facts about one object that the steps use.
LEMMA Facts ==
  ASSUME SessionAssumption, Inv, NEW o \in Objects
  PROVE  /\ object[o] \in Player /\ Own(object[o]) \in Nat /\ object[o].refs \in Nat
         /\ CountOf(player, o) \in Nat /\ CountOf(eventConnect, o) \in Nat
         /\ Pointers(o) \in Nat /\ Fine(o) /\ o # None
<1>1. object \in [Objects -> Player]
  BY TypeIs DEF Inv
<1>2. Fine(o)
  BY <1>1, HeldIsFine DEF Inv
<1>3. CountOf(player, o) \in Nat /\ CountOf(eventConnect, o) \in Nat
  BY CountIsNat
<1>4. Pointers(o) \in Nat
  BY <1>3 DEF Pointers, One
<1> QED BY <1>1, <1>2, <1>3, <1>4, OwnIsNat DEF SessionAssumption

LEMMA HeldIsFineNext ==
  ASSUME SessionAssumption, object' \in [Objects -> Player], \A o \in Objects : Fine(o)'
  PROVE  HeldWhileUsed'
<1>1. ASSUME NEW o \in Objects PROVE Holders(o)' = Pointers(o)' + Own(object'[o])
  <2>1. /\ CountOf(player', o) \in Nat /\ CountOf(eventConnect', o) \in Nat
        /\ object'[o] \in Player /\ object'[o].toRelease \in Nat
    BY CountIsNat, OwnIsNat
  <2>2. Holders(o)' = CountOf(player', o) + CountOf(eventConnect', o)
                     + One(o \in removedCreatures') + One(o \in killedCreatures')
                     + One(InGame(o)') + One(object'[o].check # "none") + object'[o].toRelease
    BY DEF Holders, CountOf, One
  <2> QED BY <2>1, <2>2 DEF Pointers, Own, One, InGame
<1> QED BY <1>1 DEF HeldWhileUsed, Fine

\* The sessions' and the objects' half of Inv, when nobody is entered and nobody is played
\* by another session.
LEMMA HalfKept ==
  ASSUME SessionAssumption, Inv, player' = player, object' \in [Objects -> Player],
         \A o \in Objects : /\ object'[o].client = object[o].client
                            /\ object'[o].status = "inGame" => InGame(o)
                            /\ Fine(o)'
  PROVE  PointersAgree' /\ OnceInGame' /\ HeldWhileUsed'
<1>1. PointersAgree' /\ OnceInGame'
  BY DEF Inv, PointersAgree, OnceInGame, InGame
<1> QED BY <1>1, HeldIsFineNext

\* ... when only the object o changes, and may lose the session that connects to it.
LEMMA OneChanges ==
  ASSUME SessionAssumption, Inv, player' = player, NEW o \in Objects, NEW new \in Player,
         object' \in [Objects -> Player], object'[o] = new,
         \A q \in Objects \ {o} : object'[q] = object[q],
         \A q \in Objects \ {o} : CountOf(eventConnect', q) <= CountOf(eventConnect, q),
         removedCreatures' \in {removedCreatures, removedCreatures \cup {o}},
         killedCreatures' \in {killedCreatures, killedCreatures \cup {o}},
         new.client = object[o].client, new.status = "inGame" => InGame(o),
         Pointers(o)' + Own(new) <= new.refs, new.refs # 0
  PROVE  PointersAgree' /\ OnceInGame' /\ HeldWhileUsed' /\ object' \in [Objects -> Player]
<1>1. object \in [Objects -> Player] /\ object' \in [Objects -> Player]
  BY TypeIs DEF Inv
<1>2. ASSUME NEW q \in Objects \ {o} PROVE Fine(q)' /\ object'[q] = object[q]
  <2>1. object'[q] = object[q] /\ CountOf(player', q) = CountOf(player, q)
    BY <1>1
  <2>2. CountOf(eventConnect', q) \in Nat /\ CountOf(eventConnect', q) <= CountOf(eventConnect, q)
    BY CountIsNat
  <2>3. Pointers(q)' \in Nat /\ Pointers(q)' <= Pointers(q)
    BY <2>1, <2>2, Facts DEF Pointers, One
  <2> QED BY <2>1, <2>3, Facts DEF Fine
<1>3. object'[o] = new /\ Fine(o)'
  BY <1>1 DEF Fine
<1> QED BY <1>1, <1>2, <1>3, HalfKept DEF InGame

\* ... when the session s gets the player o.
LEMMA SessionGains ==
  ASSUME SessionAssumption, Inv, NEW s \in Sessions, NEW o \in Objects, NEW new \in Player,
         player[s] = None, object[o].client = None,
         player' \in [Sessions -> Objects \cup {None}],
         player'[s] = o, \A t \in Sessions \ {s} : player'[t] = player[t],
         object' = [object EXCEPT ![o] = new], new.client = s, new.refs # 0,
         new.status = "inGame" => InGame(o) \/ \A q \in Objects : ~InGame(q),
         \A q \in Objects \ {o} : CountOf(eventConnect', q) <= CountOf(eventConnect, q),
         UNCHANGED <<removedCreatures, killedCreatures>>,
         Pointers(o)' + Own(new) <= new.refs
  PROVE  PointersAgree' /\ OnceInGame' /\ HeldWhileUsed' /\ object' \in [Objects -> Player]
<1>1. /\ object \in [Objects -> Player] /\ object' \in [Objects -> Player]
      /\ player \in [Sessions -> Objects \cup {None}]
  BY TypeIs DEF Inv
<1>2. object'[o] = new /\ \A q \in Objects \ {o} : object'[q] = object[q]
  BY <1>1
<1>3. PointersAgree'
  <2> SUFFICES ASSUME NEW t \in Sessions, NEW q \in Objects
               PROVE  player'[t] = q <=> object'[q].client = t
    BY DEF PointersAgree
  <2>1. player[t] = q <=> object[q].client = t
    BY DEF Inv, PointersAgree
  <2>2. t # None /\ q # None
    BY DEF SessionAssumption
  <2>3. player[t] # o
    BY <2>2 DEF Inv, PointersAgree
  <2> QED BY <1>1, <1>2, <2>1, <2>2, <2>3
<1>4. OnceInGame'
  BY <1>2 DEF Inv, OnceInGame, InGame
<1>5. ASSUME NEW q \in Objects \ {o} PROVE Fine(q)'
  <2>1. CountOf(player', q) = CountOf(player, q)
    <3>1. CountOf(player', q) = CountOf(player, q) + (IF o = q THEN 1 ELSE 0)
                                - (IF player[s] = q THEN 1 ELSE 0)
      BY <1>1, CountAfterSet
    <3>2. o # q /\ player[s] # q /\ CountOf(player, q) \in Nat
      BY Facts
    <3> QED BY <3>1, <3>2
  <2>2. CountOf(eventConnect', q) \in Nat /\ CountOf(eventConnect', q) <= CountOf(eventConnect, q)
    BY CountIsNat
  <2>3. Pointers(q)' \in Nat /\ Pointers(q)' <= Pointers(q)
    BY <2>1, <2>2, Facts DEF Pointers, One
  <2> QED BY <1>2, <2>3, Facts DEF Fine
<1>6. Fine(o)'
  BY <1>2 DEF Fine
<1> QED BY <1>1, <1>3, <1>4, <1>5, <1>6, HeldIsFineNext

-----------------------------------------------------------------------------
(* The network threads change connections and the queue only.              *)

LEMMA SessionsUntouched ==
  ASSUME SessionAssumption, IInv, UNCHANGED rest, ConnType', queue' \in Seq(Tasks)
  PROVE  Inv'
<1>1. TypeOK'
  BY TypeIs, TypeFrom DEF IInv, Inv, rest, ConnType, TypeOK, Tasks
<1>2. ASSUME NEW o \in Objects PROVE Fine(o)' /\ object'[o] = object[o]
  <2>1. Pointers(o)' = Pointers(o) /\ object'[o] = object[o]
    BY DEF rest, Pointers, CountOf, One
  <2> QED BY <2>1, Facts DEF IInv, Fine
<1>3. player' = player /\ object' \in [Objects -> Player]
  BY TypeIs DEF IInv, Inv, rest
<1>4. PointersAgree' /\ OnceInGame' /\ HeldWhileUsed'
  BY <1>2, <1>3, HalfKept DEF IInv, InGame
<1> QED BY <1>1, <1>4 DEF Inv

LEMMA NetworkStep ==
  ASSUME SessionAssumption, IInv, NEW s \in Sessions, Network(s) \/ Timer(s)
  PROVE  IInv'
<1>1. queue \in Seq(Tasks) /\ ConnType
  BY TypeIs DEF IInv, Inv
<1>2. UNCHANGED rest /\ UNCHANGED <<player, eventConnect>>
  BY DEF Network, FirstMessage, ParsePacket, HangUp, Expire, Timer, rest
<1>3. SUFFICES ConnType' /\ queue' \in Seq(Tasks) /\ OneTaskEach'
  BY <1>2, SessionsUntouched DEF IInv
<1>4. CASE Calm(queue, queue') /\ ConnType' /\ SameNone
  BY <1>2, <1>4, OneTaskKept DEF IInv, Calm
<1>5. CASE FirstMessage(s) /\ conn' = [conn EXCEPT ![s] = "open"] /\ queue' = Append(queue, <<"login", s>>)
  <2>1. conn[s] = "none" /\ <<"login", s>> \in Tasks /\ ConnType'
    BY <1>1, <1>5 DEF FirstMessage, Tasks, ConnType
  <2>2. <<"login", s>> \notin Entries(queue) /\ player[s] = None /\ eventConnect[s] = None
    BY <2>1 DEF IInv, OneTaskEach
  <2>3. /\ queue' \in Seq(Tasks) /\ Entries(queue') = Entries(queue) \cup {<<"login", s>>}
        /\ \A u : Single(queue, u) /\ (u # <<"login", s>> \/ u \notin Entries(queue)) => Single(queue', u)
    BY <1>1, <1>5, <2>1, Appended
  <2>4. conn'[s] # "none" /\ \A t \in Sessions \ {s} : conn'[t] = conn[t]
    BY <1>1, <1>5 DEF ConnType
  <2>5. OneTaskEach'
    <3> SUFFICES ASSUME NEW t \in Sessions
                 PROVE  /\ Single(queue', <<"login", t>>) /\ Single(queue', <<"connect", t>>)
                        /\ <<"login", t>> \in Entries(queue') =>
                             conn'[t] # "none" /\ eventConnect'[t] = None /\ player'[t] = None
                        /\ <<"connect", t>> \in Entries(queue') => eventConnect'[t] # None
                        /\ eventConnect'[t] # None => player'[t] = None
                        /\ conn'[t] = "none" => player'[t] = None /\ eventConnect'[t] = None
      BY DEF OneTaskEach, Single, Entries
    <3>1. Single(queue', <<"login", t>>) /\ Single(queue', <<"connect", t>>)
      BY <2>2, <2>3 DEF IInv, OneTaskEach
    <3> QED BY <1>2, <2>2, <2>3, <2>4, <3>1 DEF IInv, OneTaskEach
  <2> QED BY <2>1, <2>3, <2>5
<1>6. CASE Timer(s)
  <2>1. /\ eventConnect[s] # None /\ <<"connect", s>> \notin Entries(queue)
        /\ queue' = Append(queue, <<"connect", s>>) /\ UNCHANGED conn /\ <<"connect", s>> \in Tasks
    BY <1>6 DEF Timer, Entries, Tasks
  <2>2. /\ queue' \in Seq(Tasks) /\ Entries(queue') = Entries(queue) \cup {<<"connect", s>>}
        /\ \A u : Single(queue, u) /\ (u # <<"connect", s>> \/ u \notin Entries(queue)) => Single(queue', u)
    BY <1>1, <2>1, Appended
  <2>3. OneTaskEach'
    <3> SUFFICES ASSUME NEW t \in Sessions
                 PROVE  /\ Single(queue', <<"login", t>>) /\ Single(queue', <<"connect", t>>)
                        /\ <<"login", t>> \in Entries(queue') =>
                             conn'[t] # "none" /\ eventConnect'[t] = None /\ player'[t] = None
                        /\ <<"connect", t>> \in Entries(queue') => eventConnect'[t] # None
                        /\ eventConnect'[t] # None => player'[t] = None
                        /\ conn'[t] = "none" => player'[t] = None /\ eventConnect'[t] = None
      BY DEF OneTaskEach, Single, Entries
    <3>1. Single(queue', <<"login", t>>) /\ Single(queue', <<"connect", t>>)
      BY <2>1, <2>2 DEF IInv, OneTaskEach
    <3> QED BY <1>2, <2>1, <2>2, <3>1 DEF IInv, OneTaskEach
  <2> QED BY <1>1, <2>1, <2>2, <2>3 DEF ConnType
<1>7. CASE Network(s)
  <2>1. CASE FirstMessage(s)
    <3>1. CASE conn' = [conn EXCEPT ![s] = "open"] /\ queue' = Append(queue, <<"login", s>>)
      BY <1>5, <2>1, <3>1
    <3>2. CASE conn' = [conn EXCEPT ![s] = "closed"] /\ queue' = Append(queue, <<"release", s>>)
      <4>1. Calm(queue, queue') /\ ConnType' /\ queue' \in Seq(Tasks)
        BY <1>1, <3>2, ReleaseIsCalm DEF ConnType, Calm
      <4>2. conn'[s] # "none" /\ \A t \in Sessions \ {s} : conn'[t] = conn[t]
        BY <1>1, <3>2 DEF ConnType
      <4>3. OneTaskEach'
        <5> SUFFICES ASSUME NEW t \in Sessions
                     PROVE  /\ Single(queue', <<"login", t>>) /\ Single(queue', <<"connect", t>>)
                            /\ <<"login", t>> \in Entries(queue') =>
                                 conn'[t] # "none" /\ eventConnect'[t] = None /\ player'[t] = None
                            /\ <<"connect", t>> \in Entries(queue') => eventConnect'[t] # None
                            /\ eventConnect'[t] # None => player'[t] = None
                            /\ conn'[t] = "none" => player'[t] = None /\ eventConnect'[t] = None
          BY DEF OneTaskEach, Single, Entries
        <5>1. Single(queue', <<"login", t>>) /\ Single(queue', <<"connect", t>>)
          BY <4>1 DEF IInv, OneTaskEach, Calm
        <5> QED BY <1>2, <4>1, <4>2, <5>1 DEF IInv, OneTaskEach, Calm
      <4> QED BY <4>1, <4>3
    <3> QED BY <2>1, <3>1, <3>2 DEF FirstMessage
  <2>2. CASE ParsePacket(s)
    BY <1>1, <1>4, <2>2, ReleaseIsCalm DEF ParsePacket, SameNone, ConnType
  <2>3. CASE HangUp(s)
    BY <1>1, <1>4, <2>3, CloseIsCalm DEF HangUp
  <2>4. CASE Expire(s)
    <3>1. ConnType' /\ SameNone /\ Calm(queue, queue')
      BY <1>1, <2>4 DEF Expire, ConnType, SameNone, Calm
    <3> QED BY <1>4, <3>1
  <2> QED BY <1>7, <2>1, <2>2, <2>3, <2>4 DEF Network
<1> QED BY <1>6, <1>7

-----------------------------------------------------------------------------
(* The dispatcher's tasks.                                                 *)

\* What the first task of the queue leaves when it has run.
LEMMA TaskTaken ==
  ASSUME SessionAssumption, IInv, NEW s \in Sessions,
         NEW what \in {"login", "connect", "packet", "release"}, Runs(what, s)
  PROVE  /\ Tail(queue) \in Seq(Tasks) /\ Calm(queue, Tail(queue)) /\ ConnType
         /\ what \in {"login", "connect"} =>
              /\ <<"login", s>> \notin Entries(Tail(queue))
              /\ <<"connect", s>> \notin Entries(Tail(queue))
              /\ conn[s] # "none" /\ player[s] = None
         /\ what = "login" => eventConnect[s] = None
         /\ what = "connect" => eventConnect[s] # None
<1>1. queue \in Seq(Tasks) /\ ConnType /\ queue # <<>> /\ Head(queue) = <<what, s>>
  BY TypeIs DEF IInv, Inv, Runs
<1>2. /\ Tail(queue) \in Seq(Tasks) /\ <<what, s>> \in Entries(queue)
      /\ Entries(Tail(queue)) \subseteq Entries(queue)
      /\ Single(queue, <<what, s>>) => <<what, s>> \notin Entries(Tail(queue))
      /\ Calm(queue, Tail(queue))
  BY <1>1, Tailed, TailIsCalm
<1>3. CASE what = "login"
  BY <1>1, <1>2, <1>3 DEF IInv, OneTaskEach
<1>4. CASE what = "connect"
  BY <1>1, <1>2, <1>4 DEF IInv, OneTaskEach
<1>5. CASE what \in {"packet", "release"}
  BY <1>1, <1>2, <1>5
<1> QED BY <1>3, <1>4, <1>5

\* The connections and the queue after a task that may close the session c.
LEMMA ClosedAfter ==
  ASSUME SessionAssumption, IInv, NEW q \in Seq(Tasks), Calm(queue, q),
         NEW c \in Sessions \cup {None}, Close(c, q) \/ (queue' = q /\ UNCHANGED conn)
  PROVE  /\ Calm(queue, queue') /\ Calm(q, queue') /\ queue' \in Seq(Tasks) /\ ConnType' /\ SameNone
<1>1. ConnType
  BY TypeIs DEF IInv, Inv
<1>2. CASE Close(c, q)
  BY <1>1, <1>2, CloseIsCalm, CalmAfterCalm DEF Calm
<1>3. CASE queue' = q /\ UNCHANGED conn
  BY <1>1, <1>3 DEF Calm, ConnType, SameNone
<1> QED BY <1>2, <1>3

\* An object that is free is pointed to by nobody.
LEMMA FreeIsAlone ==
  ASSUME SessionAssumption, Inv, NEW o \in Objects, object[o] = Free
  PROVE  Pointers(o) = 0 /\ object[o].client = None
BY Facts, FreeIsFree DEF Fine

\* Where the pointers of the sessions go when one of them changes.
LEMMA PlayerCount ==
  ASSUME SessionAssumption, Inv, NEW s \in Sessions, NEW v \in Objects \cup {None},
         player' \in [Sessions -> Objects \cup {None}],
         player'[s] = v, \A t \in Sessions \ {s} : player'[t] = player[t], NEW o \in Objects
  PROVE  /\ CountOf(player, o) \in Nat
         /\ CountOf(player', o) = CountOf(player, o) + One(v = o) - One(player[s] = o)
<1>1. player \in [Sessions -> Objects \cup {None}] /\ CountOf(player, o) \in Nat
  BY TypeIs, CountIsNat DEF Inv
<1> QED BY <1>1, CountAfterSet DEF One

LEMMA ConnectCount ==
  ASSUME SessionAssumption, Inv, NEW s \in Sessions, NEW v \in Objects \cup {None},
         eventConnect' \in [Sessions -> Objects \cup {None}],
         eventConnect'[s] = v, \A t \in Sessions \ {s} : eventConnect'[t] = eventConnect[t],
         NEW o \in Objects
  PROVE  /\ CountOf(eventConnect, o) \in Nat
         /\ CountOf(eventConnect', o) =
              CountOf(eventConnect, o) + One(v = o) - One(eventConnect[s] = o)
<1>1. eventConnect \in [Sessions -> Objects \cup {None}] /\ CountOf(eventConnect, o) \in Nat
  BY TypeIs, CountIsNat DEF Inv
<1> QED BY <1>1, CountAfterSet DEF One

\* All that IInv' asks for.
LEMMA Collected ==
  ASSUME SessionAssumption, IInv,
         PointersAgree', OnceInGame', HeldWhileUsed', OneTaskEach',
         object' \in [Objects -> Player], queue' \in Seq(Tasks), ConnType',
         player' \in [Sessions -> Objects \cup {None}],
         eventConnect' \in [Sessions -> Objects \cup {None}],
         acceptPackets' \in [Sessions -> BOOLEAN], bufferedProtocols' \subseteq Sessions,
         removedCreatures' \subseteq Objects, killedCreatures' \subseteq Objects,
         released' \subseteq Sessions
  PROVE  IInv'
<1>1. TypeOK'
  BY DEF TypeOK, Player, Tasks, ConnType
<1> QED BY <1>1 DEF IInv, Inv

\* A login or a connect of s that ends with the player o.
LEMMA Gains ==
  ASSUME SessionAssumption, IInv, NEW s \in Sessions, NEW o \in Objects, NEW new \in Player,
         NEW what \in {"login", "connect"}, Runs(what, s),
         object[o].client = None, player' \in [Sessions -> Objects \cup {None}],
         player'[s] = o, \A t \in Sessions \ {s} : player'[t] = player[t],
         object' = [object EXCEPT ![o] = new], new.client = s, new.refs # 0,
         new.status = "inGame" => InGame(o) \/ \A q \in Objects : ~InGame(q),
         eventConnect' \in [Sessions -> Objects \cup {None}], eventConnect'[s] = None,
         \A t \in Sessions \ {s} : eventConnect'[t] = eventConnect[t],
         acceptPackets' \in [Sessions -> BOOLEAN], bufferedProtocols' \subseteq Sessions,
         UNCHANGED <<removedCreatures, killedCreatures, released>>,
         NEW c \in Sessions \cup {None}, Close(c, Tail(queue)) \/ (queue' = Tail(queue) /\ UNCHANGED conn),
         Pointers(o) + 1 - One(eventConnect[s] = o) + Own(new) <= new.refs
  PROVE  IInv'
<1>1. /\ removedCreatures \subseteq Objects /\ killedCreatures \subseteq Objects
      /\ released \subseteq Sessions
  BY TypeIs DEF IInv, Inv
<1>4. /\ Tail(queue) \in Seq(Tasks) /\ Calm(queue, Tail(queue))
      /\ <<"login", s>> \notin Entries(Tail(queue)) /\ <<"connect", s>> \notin Entries(Tail(queue))
      /\ conn[s] # "none" /\ player[s] = None
  BY TaskTaken
<1>5. /\ Calm(queue, queue') /\ Calm(Tail(queue), queue') /\ queue' \in Seq(Tasks)
      /\ ConnType' /\ SameNone
  BY <1>4, ClosedAfter
<1>6. ASSUME NEW q \in Objects
      PROVE  /\ CountOf(player', q) = CountOf(player, q) + One(o = q) - One(player[s] = q)
             /\ CountOf(eventConnect', q) =
                  CountOf(eventConnect, q) + One(None = q) - One(eventConnect[s] = q)
             /\ CountOf(player, q) \in Nat /\ CountOf(eventConnect, q) \in Nat /\ q # None
  BY Facts, PlayerCount, ConnectCount DEF IInv
<1>7. \A q \in Objects \ {o} : CountOf(eventConnect', q) <= CountOf(eventConnect, q)
  BY <1>6 DEF One
<1>8. Pointers(o)' = Pointers(o) + 1 - One(eventConnect[s] = o)
  BY <1>4, <1>6 DEF Pointers, One
<1>9. PointersAgree' /\ OnceInGame' /\ HeldWhileUsed' /\ object' \in [Objects -> Player]
  <2>1. Own(new) \in Nat /\ new.refs \in Nat
    BY OwnIsNat
  <2>2. Pointers(o)' + Own(new) <= new.refs
    BY <1>8, <2>1
  <2>3. Inv /\ UNCHANGED <<removedCreatures, killedCreatures>> /\ player[s] = None
    BY <1>4 DEF IInv
  <2>4. \/ InGame(o) \/ new.status # "inGame" \/ \A q \in Objects : ~InGame(q)
    OBVIOUS
  <2> QED BY <1>7, <2>2, <2>3, <2>4, SessionGains, ZenonT(40)
<1>10. OneTaskEach'
  <2>1. /\ <<"login", s>> \notin Entries(queue') /\ <<"connect", s>> \notin Entries(queue')
    BY <1>4, <1>5 DEF Calm
  <2> QED BY <1>4, <1>5, <2>1, OneTaskKept DEF IInv
<1> QED BY <1>1, <1>5, <1>9, <1>10, Collected

\* A task that leaves the sessions their players and changes the object o; a connect of s
\* is planned for it or taken off the plan.
LEMMA Stays ==
  ASSUME SessionAssumption, IInv, NEW s \in Sessions, NEW o \in Objects, NEW new \in Player,
         UNCHANGED <<player, released>>, object' \in [Objects -> Player], object'[o] = new,
         \A q \in Objects \ {o} : object'[q] = object[q],
         new.client = object[o].client, new.refs # 0, new.status = "inGame" => InGame(o),
         NEW v \in {None, o},
         eventConnect' \in [Sessions -> Objects \cup {None}], eventConnect'[s] = v,
         \A t \in Sessions \ {s} : eventConnect'[t] = eventConnect[t],
         acceptPackets' = acceptPackets, bufferedProtocols' \subseteq Sessions,
         removedCreatures' \in {removedCreatures, removedCreatures \cup {o}},
         killedCreatures' \in {killedCreatures, killedCreatures \cup {o}},
         NEW what \in {"login", "connect"}, Runs(what, s),
         NEW c \in Sessions \cup {None}, Close(c, Tail(queue)) \/ (queue' = Tail(queue) /\ UNCHANGED conn),
         Pointers(o) + One(v = o) - One(eventConnect[s] = o)
           + One(o \in removedCreatures') - One(o \in removedCreatures)
           + One(o \in killedCreatures') - One(o \in killedCreatures) + Own(new) <= new.refs
  PROVE  IInv'
<1>1. /\ player \in [Sessions -> Objects \cup {None}] /\ acceptPackets \in [Sessions -> BOOLEAN]
      /\ removedCreatures' \subseteq Objects /\ killedCreatures' \subseteq Objects
      /\ released \subseteq Sessions
  BY TypeIs DEF IInv, Inv
<1>3. /\ Tail(queue) \in Seq(Tasks) /\ Calm(queue, Tail(queue))
      /\ <<"login", s>> \notin Entries(Tail(queue)) /\ <<"connect", s>> \notin Entries(Tail(queue))
      /\ conn[s] # "none" /\ player[s] = None
  BY TaskTaken
<1>4. /\ Calm(queue, queue') /\ Calm(Tail(queue), queue') /\ queue' \in Seq(Tasks)
      /\ ConnType' /\ SameNone
  BY <1>3, ClosedAfter
<1>5. ASSUME NEW q \in Objects
      PROVE  /\ CountOf(player', q) = CountOf(player, q)
             /\ CountOf(eventConnect', q) =
                  CountOf(eventConnect, q) + One(v = q) - One(eventConnect[s] = q)
             /\ CountOf(player, q) \in Nat /\ CountOf(eventConnect, q) \in Nat /\ q # None
  <2>1. v \in Objects \cup {None}
    OBVIOUS
  <2> QED BY <2>1, Facts, ConnectCount DEF IInv
<1>6. \A q \in Objects \ {o} : CountOf(eventConnect', q) <= CountOf(eventConnect, q)
  BY <1>5 DEF One
<1>7. Pointers(o)' + Own(new) <= new.refs
  <2>1. Own(new) \in Nat /\ new.refs \in Nat
    BY OwnIsNat
  <2>2. Pointers(o)' = Pointers(o) + One(v = o) - One(eventConnect[s] = o)
                         + One(o \in removedCreatures') - One(o \in removedCreatures)
                         + One(o \in killedCreatures') - One(o \in killedCreatures)
    <3>1. /\ CountOf(player', o) = CountOf(player, o)
          /\ CountOf(eventConnect', o) =
               CountOf(eventConnect, o) + One(v = o) - One(eventConnect[s] = o)
          /\ CountOf(player, o) \in Nat /\ CountOf(eventConnect, o) \in Nat
      BY <1>5
    <3>2. /\ Pointers(o) = CountOf(player, o) + CountOf(eventConnect, o)
                            + One(o \in removedCreatures) + One(o \in killedCreatures)
          /\ Pointers(o)' = CountOf(player', o) + CountOf(eventConnect', o)
                            + One(o \in removedCreatures') + One(o \in killedCreatures')
      BY DEF Pointers, One
    <3>3. /\ One(o \in removedCreatures) \in Nat /\ One(o \in killedCreatures) \in Nat
          /\ One(o \in removedCreatures') \in Nat /\ One(o \in killedCreatures') \in Nat
          /\ One(v = o) \in Nat /\ One(eventConnect[s] = o) \in Nat
      BY DEF One
    <3> QED BY <3>1, <3>2, <3>3
  <2> QED BY <2>1, <2>2
<1>8. PointersAgree' /\ OnceInGame' /\ HeldWhileUsed' /\ object' \in [Objects -> Player]
  BY <1>6, <1>7, OneChanges DEF IInv
<1>9. OneTaskEach'
  <2>1. /\ <<"login", s>> \notin Entries(queue') /\ <<"connect", s>> \notin Entries(queue')
    BY <1>3, <1>4 DEF Calm
  <2> QED BY <1>3, <1>4, <2>1, OneTaskKept DEF IInv
<1> QED BY <1>1, <1>4, <1>8, <1>9, Collected

\* The records that login makes.
LEMMA NewIs ==
  ASSUME NEW s \in Sessions
  PROVE  LET first == [Free EXCEPT !.client = s, !.refs = 1]
             loading == [Free EXCEPT !.status = "loading", !.client = s, !.refs = 1] IN
         /\ loading \in Player /\ Own(loading) = 0 /\ loading.refs = 1 /\ loading.client = s
         /\ loading.status = "loading"
         /\ Placed(first) \in Player /\ Own(Placed(first)) = 2 /\ Placed(first).refs = 3
         /\ Placed(first).client = s /\ Placed(first).status = "inGame"
<1> DEFINE a == [Free EXCEPT !.client = s]
           b == [a EXCEPT !.refs = 1]
           x == [Free EXCEPT !.status = "loading"]
           y == [x EXCEPT !.client = s]
           d == [y EXCEPT !.refs = 1]
           e == [b EXCEPT !.status = "inGame"]
           f == [e EXCEPT !.refs = b.refs + 2]
           g == [f EXCEPT !.check = "listed"]
<1>1. ASSUME NEW r \in Player
      PROVE  /\ [r EXCEPT !.client = s] \in Player /\ [r EXCEPT !.status = "loading"] \in Player
             /\ [r EXCEPT !.status = "inGame"] \in Player /\ [r EXCEPT !.check = "listed"] \in Player
             /\ \A n \in Nat : [r EXCEPT !.refs = n] \in Player
  BY DEF Player
<1>2. a \in Player /\ a.client = s /\ a.check = "none" /\ a.toRelease = 0 /\ a.status = "free"
  BY <1>1, FreeIsFree DEF Free
<1> HIDE DEF a
<1>3. /\ b \in Player /\ b.client = s /\ b.refs = 1 /\ b.check = "none" /\ b.toRelease = 0
      /\ b.status = "free"
  BY <1>1, <1>2 DEF Player
<1>4. [Free EXCEPT !.client = s, !.refs = 1] = b
  BY DEF a
<1> HIDE DEF b
<1>5. x \in Player /\ x.status = "loading" /\ x.check = "none" /\ x.toRelease = 0
  BY <1>1, FreeIsFree DEF Free
<1> HIDE DEF x
<1>6. /\ y \in Player /\ y.status = "loading" /\ y.client = s /\ y.check = "none"
      /\ y.toRelease = 0
  BY <1>1, <1>5 DEF Player
<1>12. y = [Free EXCEPT !.status = "loading", !.client = s]
  BY DEF x
<1> HIDE DEF y
<1>13. /\ d \in Player /\ d.client = s /\ d.refs = 1 /\ d.check = "none" /\ d.toRelease = 0
      /\ d.status = "loading"
  BY <1>1, <1>6 DEF Player
<1>14. d = [Free EXCEPT !.status = "loading", !.client = s, !.refs = 1]
  BY <1>12 DEF y, x
<1>7. /\ e \in Player /\ e.client = s /\ e.refs = 1 /\ e.check = "none" /\ e.toRelease = 0
      /\ e.status = "inGame"
  BY <1>1, <1>3 DEF Player
<1>8. Placed(b) = g
  BY <1>3 DEF Placed, Player
<1> HIDE DEF e
<1>9. /\ f \in Player /\ f.client = s /\ f.refs = 3 /\ f.check = "none" /\ f.toRelease = 0
      /\ f.status = "inGame"
  BY <1>1, <1>3, <1>7 DEF Player
<1> HIDE DEF f
<1>10. /\ g \in Player /\ g.client = s /\ g.refs = 3 /\ g.check = "listed" /\ g.toRelease = 0
       /\ g.status = "inGame"
  BY <1>1, <1>9 DEF Player
<1>11. Own(d) = 0 /\ Own(g) = 2
  BY <1>13, <1>10 DEF Own
<1> HIDE DEF d, g
<1> QED BY <1>4, <1>13, <1>14, <1>8, <1>10, <1>11

LEMMA RefuseStep ==
  ASSUME SessionAssumption, IInv, NEW s \in Sessions, NEW o \in Objects,
         Runs("login", s), object[o] = Free, Refuse(s, o), UNCHANGED <<games, released>>
  PROVE  IInv'
<1> DEFINE new == [Free EXCEPT !.status = "loading", !.client = s, !.refs = 1]
<1>1. new \in Player /\ Own(new) = 0 /\ new.refs = 1 /\ new.client = s /\ new.status = "loading"
  BY NewIs
<1>2. /\ object' = [object EXCEPT ![o] = new] /\ player' = [player EXCEPT ![s] = o]
      /\ Close(s, Tail(queue)) /\ eventConnect' = eventConnect
      /\ UNCHANGED <<acceptPackets, bufferedProtocols, removedCreatures, killedCreatures, released>>
  BY DEF Refuse, games
<1> HIDE DEF new
<1>3. /\ player' \in [Sessions -> Objects \cup {None}] /\ player'[s] = o
      /\ \A t \in Sessions \ {s} : player'[t] = player[t]
      /\ eventConnect' \in [Sessions -> Objects \cup {None}]
      /\ acceptPackets' \in [Sessions -> BOOLEAN] /\ bufferedProtocols' \subseteq Sessions
  BY <1>2, TypeIs DEF IInv, Inv
<1>4. eventConnect[s] = None /\ Pointers(o) = 0 /\ object[o].client = None
  BY TaskTaken, FreeIsAlone DEF IInv
<1>5. Pointers(o) + 1 - One(eventConnect[s] = o) + Own(new) <= new.refs
  BY <1>1, <1>4 DEF SessionAssumption, One
<1>6. eventConnect'[s] = None /\ \A t \in Sessions \ {s} : eventConnect'[t] = eventConnect[t]
  BY <1>2, <1>4
<1>7. new.refs # 0 /\ new.status # "inGame"
  BY <1>1
<1> QED BY <1>1, <1>2, <1>3, <1>4, <1>5, <1>6, <1>7, Gains, ZenonT(60)

LEMMA EnterStep ==
  ASSUME SessionAssumption, IInv, NEW s \in Sessions, NEW o \in Objects,
         Runs("login", s), object[o] = Free, Enter(s, o), UNCHANGED <<games, released>>,
         \A q \in Objects : ~InGame(q)
  PROVE  IInv'
<1> DEFINE new == Placed([Free EXCEPT !.client = s, !.refs = 1])
<1>1. /\ new \in Player /\ Own(new) = 2 /\ new.refs = 3 /\ new.client = s
      /\ new.status = "inGame"
  BY NewIs
<1>2. /\ \/ object' = [object EXCEPT ![o] = new] /\ queue' = Tail(queue) /\ UNCHANGED conn
         \/ object' = [object EXCEPT ![o] = Removed(new)] /\ Close(s, Tail(queue))
      /\ player' = [player EXCEPT ![s] = o] /\ eventConnect' = eventConnect
      /\ acceptPackets' = [acceptPackets EXCEPT ![s] = TRUE]
      /\ bufferedProtocols' = bufferedProtocols \cup {s}
      /\ UNCHANGED <<removedCreatures, killedCreatures, released>>
  BY DEF Enter, games
<1> HIDE DEF new
<1>3. /\ player' \in [Sessions -> Objects \cup {None}] /\ player'[s] = o
      /\ \A t \in Sessions \ {s} : player'[t] = player[t]
      /\ eventConnect' \in [Sessions -> Objects \cup {None}]
      /\ acceptPackets' \in [Sessions -> BOOLEAN] /\ bufferedProtocols' \subseteq Sessions
  BY <1>2, TypeIs DEF IInv, Inv
<1>4. eventConnect[s] = None /\ Pointers(o) = 0 /\ object[o].client = None
  BY TaskTaken, FreeIsAlone DEF IInv
<1>5. eventConnect'[s] = None /\ \A t \in Sessions \ {s} : eventConnect'[t] = eventConnect[t]
  BY <1>2, <1>4
<1>6. ASSUME NEW r \in {new, Removed(new)}
      PROVE  /\ r \in Player /\ r.client = s /\ r.refs # 0
             /\ Pointers(o) + 1 - One(eventConnect[s] = o) + Own(r) <= r.refs
  <2>1. r \in Player /\ r.client = s /\ r.refs = 3 /\ Own(r) = 2
    BY <1>1, RemovedIs
  <2>2. Pointers(o) + 1 - One(eventConnect[s] = o) = 1
    BY <1>4 DEF SessionAssumption, One
  <2> QED BY <2>1, <2>2
<1>7. CASE object' = [object EXCEPT ![o] = new] /\ queue' = Tail(queue) /\ UNCHANGED conn
  BY <1>2, <1>3, <1>4, <1>5, <1>6, <1>7, Gains
<1>8. CASE object' = [object EXCEPT ![o] = Removed(new)] /\ Close(s, Tail(queue))
  BY <1>2, <1>3, <1>4, <1>5, <1>6, <1>8, Gains
<1> QED BY <1>2, <1>7, <1>8

\* Who is in the game has his two lists' references.
LEMMA InGameIs ==
  ASSUME SessionAssumption, Inv, NEW o \in Objects, InGame(o)
  PROVE  object[o].refs >= 1 /\ object[o].refs # 0 /\ Own(object[o]) >= 1
<1>1. Own(object[o]) >= 1
  BY Facts DEF InGame, Own, Player
<1> QED BY <1>1, Facts DEF Fine

LEMMA ReplaceStep ==
  ASSUME SessionAssumption, IInv, NEW s \in Sessions, NEW o \in Objects,
         Runs("login", s), InGame(o), Replace(s, o), UNCHANGED <<games, released>>
  PROVE  IInv'
<1> DEFINE h == Held(object[o])
           new == [h EXCEPT !.isConnecting = TRUE]
           c == object[o].client
<1>1. /\ object \in [Objects -> Player] /\ c \in Sessions \cup {None}
      /\ eventConnect \in [Sessions -> Objects \cup {None}]
      /\ bufferedProtocols \subseteq Sessions /\ object[o] \in Player
  BY TypeIs DEF IInv, Inv, Player
<1>2. /\ h \in Player /\ Own(h) = Own(object[o]) /\ h.refs = object[o].refs + 1
      /\ h.status = object[o].status /\ h.client = c
  BY <1>1, HeldIs
<1>3. /\ object' = [object EXCEPT ![o] = new] /\ Close(c, Tail(queue))
      /\ eventConnect' = [eventConnect EXCEPT ![s] = o] /\ bufferedProtocols' = bufferedProtocols \cup {s}
      /\ UNCHANGED <<player, acceptPackets, removedCreatures, killedCreatures, released>>
  BY <1>1 DEF Replace, games
<1> HIDE DEF h, c
<1>4. /\ new \in Player /\ Own(new) = Own(h) /\ new.refs = h.refs /\ new.status = h.status
      /\ new.client = h.client
  BY <1>2 DEF Player, Own
<1> HIDE DEF new
<1>5. /\ eventConnect' \in [Sessions -> Objects \cup {None}] /\ eventConnect'[s] = o
      /\ \A t \in Sessions \ {s} : eventConnect'[t] = eventConnect[t]
      /\ bufferedProtocols' \subseteq Sessions
      /\ object' \in [Objects -> Player] /\ object'[o] = new
      /\ \A q \in Objects \ {o} : object'[q] = object[q]
  BY <1>1, <1>3, <1>4
<1>6. eventConnect[s] = None /\ o # None
  BY TaskTaken DEF SessionAssumption
<1>7. /\ Pointers(o) + One(o = o) - One(eventConnect[s] = o)
           + One(o \in removedCreatures') - One(o \in removedCreatures)
           + One(o \in killedCreatures') - One(o \in killedCreatures) + Own(new) <= new.refs
      /\ new.refs # 0
  <2>1. Pointers(o) + 1 + Own(new) <= new.refs /\ new.refs # 0
    BY <1>2, <1>4, Facts DEF IInv, Fine
  <2>2. Pointers(o) \in Nat /\ Own(new) \in Nat
    BY <1>4, Facts, OwnIsNat DEF IInv
  <2> QED BY <1>3, <1>6, <2>1, <2>2 DEF One
<1>8. new.client = object[o].client
  BY <1>2, <1>4 DEF c
<1> QED BY <1>1, <1>3, <1>4, <1>5, <1>7, <1>8, Stays, ZenonT(60)

\* A login or a connect that takes nobody.
LEMMA Nobody ==
  ASSUME SessionAssumption, IInv, NEW s \in Sessions, NEW o \in Objects,
         NEW what \in {"login", "connect"}, Runs(what, s),
         InGame(o) \/ eventConnect[s] = o, eventConnect[s] \in {None, o},
         UNCHANGED <<player, acceptPackets, object, removedCreatures, killedCreatures, released>>,
         eventConnect' = [eventConnect EXCEPT ![s] = None], bufferedProtocols' \subseteq Sessions,
         NEW c \in Sessions \cup {None}, Close(c, Tail(queue)) \/ (queue' = Tail(queue) /\ UNCHANGED conn)
  PROVE  IInv'
<1> DEFINE new == object[o]
<1>1. /\ object' \in [Objects -> Player] /\ object'[o] = new /\ new \in Player
      /\ \A q \in Objects \ {o} : object'[q] = object[q]
      /\ eventConnect \in [Sessions -> Objects \cup {None}]
  BY TypeIs DEF IInv, Inv
<1>2. new.client = object[o].client /\ (new.status = "inGame" => InGame(o))
  BY DEF InGame
<1>3. /\ eventConnect' \in [Sessions -> Objects \cup {None}] /\ eventConnect'[s] = None
      /\ \A t \in Sessions \ {s} : eventConnect'[t] = eventConnect[t]
  BY <1>1
<1>4. new.refs # 0
  <2>1. CASE InGame(o)
    BY <2>1, InGameIs DEF IInv
  <2>2. CASE eventConnect[s] = o
    <3>1. CountOf(eventConnect, o) # 0
      BY <2>2, CountIsNat
    <3>2. Pointers(o) >= 1
      BY <3>1, Facts DEF IInv, Pointers, One
    <3> QED BY <3>2, Facts DEF IInv, Fine
  <2> QED BY <2>1, <2>2
<1>5. Pointers(o) + One(None = o) - One(eventConnect[s] = o)
           + One(o \in removedCreatures') - One(o \in removedCreatures)
           + One(o \in killedCreatures') - One(o \in killedCreatures) + Own(new) <= new.refs
  <2>1. /\ Pointers(o) + Own(new) <= new.refs /\ Pointers(o) \in Nat /\ Own(new) \in Nat
        /\ new.refs \in Nat /\ o # None
    BY Facts DEF IInv, Fine
  <2> QED BY <2>1 DEF One
<1> HIDE DEF new
<1>6. /\ removedCreatures' \in {removedCreatures, removedCreatures \cup {o}}
      /\ killedCreatures' \in {killedCreatures, killedCreatures \cup {o}}
      /\ None \in {None, o} /\ UNCHANGED <<player, released>> /\ acceptPackets' = acceptPackets
  OBVIOUS
<1> QED BY <1>1, <1>2, <1>3, <1>4, <1>5, <1>6, Stays, SMTT(60)

LEMMA ReconnectStep ==
  ASSUME SessionAssumption, IInv, NEW s \in Sessions, NEW o \in Objects,
         Runs("login", s), InGame(o), Reconnect(s, o), UNCHANGED <<games, released>>
  PROVE  IInv'
<1> DEFINE h == Held(object[o])
           new == Taken(h, s)
<1>1. /\ object \in [Objects -> Player] /\ object[o] \in Player
      /\ eventConnect \in [Sessions -> Objects \cup {None}]
      /\ player \in [Sessions -> Objects \cup {None}]
      /\ acceptPackets \in [Sessions -> BOOLEAN]
      /\ bufferedProtocols \subseteq Sessions
  BY TypeIs DEF IInv, Inv
<1>2. /\ object[o].client = None /\ eventConnect' = eventConnect
      /\ bufferedProtocols' = bufferedProtocols \cup {s} /\ queue' = Tail(queue) /\ UNCHANGED conn
      /\ UNCHANGED <<removedCreatures, killedCreatures, released>>
      /\ IF conn[s] = "gone"
           THEN UNCHANGED <<object, player, acceptPackets>>
           ELSE /\ object' = [[object EXCEPT ![o] = h] EXCEPT ![o] = Taken(@, s)]
                /\ player' = [player EXCEPT ![s] = o]
                /\ acceptPackets' = [acceptPackets EXCEPT ![s] = TRUE]
  BY <1>1 DEF Reconnect, games
<1>3. /\ h \in Player /\ Own(h) = Own(object[o]) /\ h.refs = object[o].refs + 1
      /\ h.status = object[o].status
  BY <1>1, HeldIs
<1> HIDE DEF h
<1>4. new \in Player /\ Own(new) = Own(h) /\ new.refs = h.refs /\ new.client = s
  BY <1>3, TakenIs
<1> HIDE DEF new
<1>5. eventConnect[s] = None /\ bufferedProtocols' \subseteq Sessions
  BY <1>1, <1>2, TaskTaken
<1>6. /\ eventConnect' \in [Sessions -> Objects \cup {None}] /\ eventConnect'[s] = None
      /\ \A t \in Sessions \ {s} : eventConnect'[t] = eventConnect[t]
      /\ eventConnect' = [eventConnect EXCEPT ![s] = None]
  BY <1>1, <1>2, <1>5
<1>7. CASE conn[s] = "gone"
  BY <1>2, <1>5, <1>6, <1>7, Nobody
<1>8. CASE conn[s] # "gone"
  <2>1. /\ object' = [object EXCEPT ![o] = new] /\ player' = [player EXCEPT ![s] = o]
        /\ acceptPackets' = [acceptPackets EXCEPT ![s] = TRUE]
    BY <1>1, <1>2, <1>8 DEF new
  <2>2. /\ player' \in [Sessions -> Objects \cup {None}] /\ player'[s] = o
        /\ \A t \in Sessions \ {s} : player'[t] = player[t]
        /\ acceptPackets' \in [Sessions -> BOOLEAN]
    BY <1>1, <2>1
  <2>3. Pointers(o) + 1 - One(eventConnect[s] = o) + Own(new) <= new.refs /\ new.refs # 0
    <3>1. Pointers(o) + Own(new) + 1 <= new.refs /\ Pointers(o) \in Nat /\ Own(new) \in Nat
          /\ new.refs \in Nat /\ o # None
      BY <1>3, <1>4, Facts, OwnIsNat DEF IInv, Fine
    <3> QED BY <1>5, <3>1 DEF One
  <2> QED BY <1>2, <1>4, <1>5, <1>6, <2>1, <2>2, <2>3, Gains
<1> QED BY <1>7, <1>8

LEMMA LoginStep ==
  ASSUME SessionAssumption, IInv, NEW s \in Sessions, Login(s)
  PROVE  IInv'
<1>1. Runs("login", s) /\ UNCHANGED <<games, released>>
  BY DEF Login
<1>2. ASSUME \A o \in Objects : ~InGame(o), NEW o \in Objects, object[o] = Free,
             Refuse(s, o) \/ Enter(s, o)
      PROVE  IInv'
  BY <1>1, <1>2, RefuseStep, EnterStep
<1>3. ASSUME NEW o \in Objects, InGame(o), AlreadyLoggedIn(s, o) PROVE IInv'
  <2>1. /\ UNCHANGED <<player, acceptPackets, object, removedCreatures, killedCreatures, released>>
        /\ UNCHANGED bufferedProtocols /\ eventConnect' = eventConnect /\ Close(s, Tail(queue))
    BY <1>1, <1>3 DEF AlreadyLoggedIn, games
  <2>2. eventConnect[s] = None /\ eventConnect' = [eventConnect EXCEPT ![s] = None]
        /\ bufferedProtocols' \subseteq Sessions
    BY <1>1, <2>1, TaskTaken, TypeIs DEF IInv, Inv
  <2> QED BY <1>1, <1>3, <2>1, <2>2, Nobody
<1>4. ASSUME NEW o \in Objects, InGame(o), Replace(s, o) \/ Reconnect(s, o) PROVE IInv'
  BY <1>1, <1>4, ReplaceStep, ReconnectStep
<1> QED BY <1>2, <1>3, <1>4 DEF Login

LEMMA ConnectStep ==
  ASSUME SessionAssumption, IInv, NEW s \in Sessions, Connect(s)
  PROVE  IInv'
<1> DEFINE o == eventConnect[s]
<1>1. /\ Runs("connect", s) /\ eventConnect' = [eventConnect EXCEPT ![s] = None]
      /\ UNCHANGED <<bufferedProtocols, removedCreatures, killedCreatures, released>>
      /\ IF MayConnect(o)
           THEN Attach(s, o) /\ queue' = Tail(queue) /\ UNCHANGED conn
           ELSE Close(s, Tail(queue)) /\ UNCHANGED <<object, player, acceptPackets>>
  BY DEF Connect, games
<1>2. /\ object \in [Objects -> Player] /\ eventConnect \in [Sessions -> Objects \cup {None}]
      /\ player \in [Sessions -> Objects \cup {None}] /\ acceptPackets \in [Sessions -> BOOLEAN]
      /\ bufferedProtocols' \subseteq Sessions
  BY <1>1, TypeIs DEF IInv, Inv
<1>3. o \in Objects /\ o # None
  BY <1>1, <1>2, TaskTaken
<1>4. eventConnect[s] = o /\ object[o] \in Player
  BY <1>2, <1>3
<1> HIDE DEF o
<1>5. /\ eventConnect' \in [Sessions -> Objects \cup {None}] /\ eventConnect'[s] = None
      /\ \A t \in Sessions \ {s} : eventConnect'[t] = eventConnect[t]
  BY <1>1, <1>2
<1>6. CASE ~MayConnect(o)
  BY <1>1, <1>2, <1>3, <1>4, <1>6, Nobody
<1>7. CASE MayConnect(o)
  <2>1. Attach(s, o) /\ queue' = Tail(queue) /\ UNCHANGED conn /\ InGame(o) /\ object[o].client = None
    BY <1>1, <1>7 DEF MayConnect
  <2>2. /\ Pointers(o) + Own(object[o]) <= object[o].refs
        /\ Pointers(o) \in Nat /\ Own(object[o]) \in Nat /\ object[o].refs \in Nat
        /\ Pointers(o) >= 1 /\ Own(object[o]) >= 1
    <3>1. CountOf(eventConnect, o) # 0
      BY <1>3, <1>4, CountIsNat
    <3>2. Pointers(o) >= 1
      BY <1>3, <3>1, Facts DEF IInv, Pointers, One
    <3> QED BY <1>3, <2>1, <3>2, Facts, InGameIs DEF IInv, Fine
  <2>3. CASE conn[s] = "gone"
    <3> DEFINE new == Dropped(object[o], 1)
    <3>1. object' = [object EXCEPT ![o] = new] /\ UNCHANGED <<player, acceptPackets>>
      BY <2>1, <2>3 DEF Attach
    <3>2. /\ new \in Player /\ new.refs = object[o].refs - 1 /\ Own(new) = Own(object[o])
          /\ new.client = object[o].client
      BY <1>4, <2>2, DroppedIs
    <3> HIDE DEF new
    <3>3. /\ object' \in [Objects -> Player] /\ object'[o] = new
          /\ \A q \in Objects \ {o} : object'[q] = object[q]
      BY <1>2, <1>3, <3>1, <3>2
    <3>4. /\ Pointers(o) + One(None = o) - One(eventConnect[s] = o)
               + One(o \in removedCreatures') - One(o \in removedCreatures)
               + One(o \in killedCreatures') - One(o \in killedCreatures) + Own(new) <= new.refs
          /\ new.refs # 0
      BY <1>1, <1>3, <1>4, <2>2, <3>2 DEF One
    <3>5. /\ removedCreatures' \in {removedCreatures, removedCreatures \cup {o}}
          /\ killedCreatures' \in {killedCreatures, killedCreatures \cup {o}}
          /\ None \in {None, o} /\ UNCHANGED <<player, released>> /\ acceptPackets' = acceptPackets
          /\ None \in Sessions \cup {None} /\ Runs("connect", s)
          /\ Close(None, Tail(queue)) \/ (queue' = Tail(queue) /\ UNCHANGED conn)
          /\ (new.status = "inGame" => InGame(o))
      BY <1>1, <2>1, <3>1
    <3> QED BY <1>2, <1>3, <1>5, <3>2, <3>3, <3>4, <3>5, Stays, ZenonT(100)
  <2>4. CASE conn[s] # "gone"
    <3> DEFINE new == Taken(object[o], s)
    <3>1. /\ object' = [object EXCEPT ![o] = new] /\ player' = [player EXCEPT ![s] = o]
          /\ acceptPackets' = [acceptPackets EXCEPT ![s] = TRUE]
      BY <1>2, <2>1, <2>4 DEF Attach
    <3>2. new \in Player /\ Own(new) = Own(object[o]) /\ new.refs = object[o].refs /\ new.client = s
      BY <1>4, TakenIs
    <3> HIDE DEF new
    <3>3. /\ player' \in [Sessions -> Objects \cup {None}] /\ player'[s] = o
          /\ \A t \in Sessions \ {s} : player'[t] = player[t]
          /\ acceptPackets' \in [Sessions -> BOOLEAN]
      BY <1>2, <1>3, <3>1
    <3>4. Pointers(o) + 1 - One(eventConnect[s] = o) + Own(new) <= new.refs /\ new.refs # 0
      BY <1>4, <2>2, <3>2 DEF One
    <3> QED BY <1>1, <1>2, <1>3, <1>5, <2>1, <3>1, <3>2, <3>3, <3>4, Gains
  <2> QED BY <2>3, <2>4
<1> QED BY <1>6, <1>7

\* A step that concerns the object o and no session's pointers.
LEMMA Changes ==
  ASSUME SessionAssumption, IInv, NEW o \in Objects, NEW new \in Player,
         UNCHANGED <<player, eventConnect, acceptPackets, bufferedProtocols, released>>,
         object' \in [Objects -> Player], object'[o] = new,
         \A q \in Objects \ {o} : object'[q] = object[q],
         new.client = object[o].client, new.refs # 0, new.status = "inGame" => InGame(o),
         removedCreatures' \in {removedCreatures, removedCreatures \cup {o}},
         killedCreatures' \in {killedCreatures, killedCreatures \cup {o}},
         Calm(queue, queue'), queue' \in Seq(Tasks), ConnType', SameNone,
         Pointers(o) + One(o \in removedCreatures') - One(o \in removedCreatures)
           + One(o \in killedCreatures') - One(o \in killedCreatures) + Own(new) <= new.refs
  PROVE  IInv'
<1>1. /\ player' \in [Sessions -> Objects \cup {None}] /\ acceptPackets' \in [Sessions -> BOOLEAN]
      /\ eventConnect' \in [Sessions -> Objects \cup {None}] /\ bufferedProtocols' \subseteq Sessions
      /\ removedCreatures' \subseteq Objects /\ killedCreatures' \subseteq Objects
      /\ released' \subseteq Sessions
  BY TypeIs DEF IInv, Inv
<1>2. ASSUME NEW q \in Objects
      PROVE  /\ CountOf(player', q) = CountOf(player, q)
             /\ CountOf(eventConnect', q) = CountOf(eventConnect, q)
             /\ CountOf(player, q) \in Nat /\ CountOf(eventConnect, q) \in Nat
  BY Facts DEF IInv
<1>3. Pointers(o)' + Own(new) <= new.refs
  <2>1. /\ Pointers(o) = CountOf(player, o) + CountOf(eventConnect, o)
                          + One(o \in removedCreatures) + One(o \in killedCreatures)
        /\ Pointers(o)' = CountOf(player, o) + CountOf(eventConnect, o)
                          + One(o \in removedCreatures') + One(o \in killedCreatures')
    BY <1>2 DEF Pointers, One
  <2>2. /\ One(o \in removedCreatures) \in Nat /\ One(o \in killedCreatures) \in Nat
        /\ One(o \in removedCreatures') \in Nat /\ One(o \in killedCreatures') \in Nat
        /\ Own(new) \in Nat /\ new.refs \in Nat
    BY OwnIsNat DEF One
  <2> QED BY <1>2, <2>1, <2>2
<1>4. \A q \in Objects \ {o} : CountOf(eventConnect', q) <= CountOf(eventConnect, q)
  BY <1>2
<1>5. PointersAgree' /\ OnceInGame' /\ HeldWhileUsed' /\ object' \in [Objects -> Player]
  BY <1>3, <1>4, OneChanges, SMTT(30) DEF IInv
<1>6. OneTaskEach'
  BY OneTaskKept DEF IInv
<1> QED BY <1>1, <1>5, <1>6, Collected

LEMMA DieStep ==
  ASSUME SessionAssumption, IInv, NEW o \in Objects, Die(o)
  PROVE  IInv'
<1> DEFINE new == Held(object[o])
<1>1. /\ object' = [object EXCEPT ![o] = new] /\ killedCreatures' = killedCreatures \cup {o}
      /\ UNCHANGED <<player, eventConnect, acceptPackets, bufferedProtocols, released>>
      /\ UNCHANGED <<conn, queue, removedCreatures>>
  BY DEF Die, others
<1>2. object \in [Objects -> Player] /\ object[o] \in Player /\ ConnType /\ queue \in Seq(Tasks)
  BY TypeIs DEF IInv, Inv
<1>3. /\ new \in Player /\ Own(new) = Own(object[o]) /\ new.refs = object[o].refs + 1
      /\ new.client = object[o].client /\ new.status = object[o].status
  BY <1>2, HeldIs
<1> HIDE DEF new
<1>4. /\ object' \in [Objects -> Player] /\ object'[o] = new
      /\ \A q \in Objects \ {o} : object'[q] = object[q]
  BY <1>1, <1>2, <1>3
<1>5. /\ Pointers(o) + One(o \in removedCreatures') - One(o \in removedCreatures)
           + One(o \in killedCreatures') - One(o \in killedCreatures) + Own(new) <= new.refs
      /\ new.refs # 0
  <2>1. /\ Pointers(o) + Own(object[o]) <= object[o].refs /\ Pointers(o) \in Nat
        /\ Own(object[o]) \in Nat /\ object[o].refs \in Nat
    BY Facts DEF IInv, Fine
  <2> QED BY <1>1, <1>3, <2>1 DEF One
<1>6. Calm(queue, queue') /\ queue' \in Seq(Tasks) /\ ConnType' /\ SameNone
  BY <1>1, <1>2 DEF Calm, ConnType, SameNone
<1>7. new.status = "inGame" => InGame(o)
  BY <1>3 DEF InGame
<1> QED BY <1>1, <1>3, <1>4, <1>5, <1>6, <1>7, Changes, SMTT(30)

LEMMA KickStep ==
  ASSUME SessionAssumption, IInv, NEW o \in Objects, Kick(o)
  PROVE  IInv'
<1> DEFINE new == Removed(object[o])
<1>1. /\ object' = [object EXCEPT ![o] = new] /\ InGame(o) /\ Close(object[o].client, queue)
      /\ UNCHANGED <<player, eventConnect, acceptPackets, bufferedProtocols, released>>
      /\ UNCHANGED <<killedCreatures, removedCreatures>>
  BY DEF Kick, others, games
<1>2. object \in [Objects -> Player] /\ object[o] \in Player /\ ConnType /\ queue \in Seq(Tasks)
      /\ object[o].client \in Sessions \cup {None}
  BY TypeIs DEF IInv, Inv, Player
<1>3. /\ new \in Player /\ Own(new) = Own(object[o]) /\ new.refs = object[o].refs
      /\ new.client = object[o].client /\ new.status # "inGame"
  BY <1>1, <1>2, RemovedIs DEF InGame
<1> HIDE DEF new
<1>4. /\ object' \in [Objects -> Player] /\ object'[o] = new
      /\ \A q \in Objects \ {o} : object'[q] = object[q]
  BY <1>1, <1>2, <1>3
<1>5. /\ Pointers(o) + One(o \in removedCreatures') - One(o \in removedCreatures)
           + One(o \in killedCreatures') - One(o \in killedCreatures) + Own(new) <= new.refs
      /\ new.refs # 0
  <2>1. /\ Pointers(o) + Own(object[o]) <= object[o].refs /\ Pointers(o) \in Nat
        /\ Own(object[o]) \in Nat /\ object[o].refs \in Nat /\ object[o].refs # 0
    BY <1>1, Facts, InGameIs DEF IInv, Fine
  <2> QED BY <1>1, <1>3, <2>1 DEF One
<1>6. Calm(queue, queue') /\ queue' \in Seq(Tasks) /\ ConnType' /\ SameNone
  BY <1>1, <1>2, CloseIsCalm DEF Calm
<1> QED BY <1>1, <1>3, <1>4, <1>5, <1>6, Changes, SMTT(30)

\* A step that concerns connections and the queue only.
LEMMA Idle ==
  ASSUME SessionAssumption, IInv, UNCHANGED rest,
         Calm(queue, queue'), queue' \in Seq(Tasks), ConnType', SameNone
  PROVE  IInv'
<1>1. UNCHANGED <<player, eventConnect>>
  BY DEF rest
<1>2. OneTaskEach'
  BY <1>1, OneTaskKept DEF IInv
<1> QED BY <1>2, SessionsUntouched DEF IInv

LEMMA PacketStep ==
  ASSUME SessionAssumption, IInv, NEW s \in Sessions, Packet(s)
  PROVE  IInv'
<1> DEFINE o == player[s]
<1>1. /\ Tail(queue) \in Seq(Tasks) /\ Calm(queue, Tail(queue)) /\ ConnType
      /\ UNCHANGED <<player, eventConnect, acceptPackets, bufferedProtocols, killedCreatures, released>>
      /\ object \in [Objects -> Player] /\ player \in [Sessions -> Objects \cup {None}]
  BY TaskTaken, TypeIs DEF IInv, Inv, Packet
<1>2. CASE UNCHANGED <<object, removedCreatures>> /\ (Close(s, Tail(queue)) \/ (queue' = Tail(queue) /\ UNCHANGED conn))
  <2>1. UNCHANGED rest
    BY <1>1, <1>2 DEF rest
  <2>2. Calm(queue, queue') /\ queue' \in Seq(Tasks) /\ ConnType' /\ SameNone
    BY <1>1, <1>2, ClosedAfter
  <2> QED BY <2>1, <2>2, Idle
<1>3. CASE /\ o # None /\ queue' = Tail(queue) /\ UNCHANGED conn /\ object' = [object EXCEPT ![o] = Leaving(@)]
           /\ removedCreatures' = removedCreatures \cup {o}
  <2>1. o \in Objects /\ object[o] \in Player
    BY <1>1, <1>3
  <2>2. player[s] = o /\ removedCreatures' = removedCreatures \cup {o}
        /\ queue' = Tail(queue) /\ UNCHANGED conn
    BY <1>3
  <2> DEFINE new == Leaving(object[o])
  <2>3. object' = [object EXCEPT ![o] = new]
    BY <1>1, <1>3, <2>1
  <2>4. /\ new \in Player /\ Own(new) = Own(object[o]) /\ new.refs = object[o].refs + 1
        /\ new.client = object[o].client /\ new.status = object[o].status
    BY <2>1, LeavingIs
  <2> HIDE DEF o, new
  <2>5. /\ object' \in [Objects -> Player] /\ object'[o] = new
        /\ \A q \in Objects \ {o} : object'[q] = object[q]
    BY <1>1, <2>1, <2>3, <2>4
  <2>6. /\ Pointers(o) + One(o \in removedCreatures') - One(o \in removedCreatures)
             + One(o \in killedCreatures') - One(o \in killedCreatures) + Own(new) <= new.refs
        /\ new.refs # 0
    <3>1. /\ Pointers(o) + Own(object[o]) <= object[o].refs /\ Pointers(o) \in Nat
          /\ Own(object[o]) \in Nat /\ object[o].refs \in Nat
      BY <2>1, Facts DEF IInv, Fine
    <3> QED BY <1>1, <2>2, <2>4, <3>1 DEF One
  <2>7. Calm(queue, queue') /\ queue' \in Seq(Tasks) /\ ConnType' /\ SameNone
    BY <1>1, <2>2 DEF ConnType, SameNone
  <2>8. new.status = "inGame" => InGame(o)
    BY <2>4 DEF InGame
  <2> QED BY <1>1, <2>1, <2>2, <2>4, <2>5, <2>6, <2>7, <2>8, Changes, SMTT(30)
<1> QED BY <1>2, <1>3 DEF Packet, Logout

LEMMA ReleaseStep ==
  ASSUME SessionAssumption, IInv, NEW s \in Sessions, Release(s)
  PROVE  IInv'
<1>1. /\ Tail(queue) \in Seq(Tasks) /\ Calm(queue, Tail(queue)) /\ ConnType
      /\ Runs("release", s) /\ queue' = Tail(queue) /\ UNCHANGED conn
      /\ bufferedProtocols' = bufferedProtocols \ {s} /\ released' = released \cup {s}
      /\ UNCHANGED <<eventConnect, acceptPackets, removedCreatures, killedCreatures>>
  BY TaskTaken DEF Release, games
<1>2. /\ object \in [Objects -> Player] /\ player \in [Sessions -> Objects \cup {None}]
      /\ eventConnect' \in [Sessions -> Objects \cup {None}] /\ acceptPackets' \in [Sessions -> BOOLEAN]
      /\ bufferedProtocols' \subseteq Sessions /\ released' \subseteq Sessions
      /\ removedCreatures' \subseteq Objects /\ killedCreatures' \subseteq Objects
  BY <1>1, TypeIs DEF IInv, Inv
<1>3. Calm(queue, queue') /\ queue' \in Seq(Tasks) /\ ConnType' /\ SameNone
  BY <1>1 DEF ConnType, SameNone
<1>4. CASE ~LetsGo(s)
  <2>1. UNCHANGED <<object, player>>
    BY <1>4 DEF Release
  <2>2. ASSUME NEW q \in Objects PROVE Fine(q)' /\ object'[q] = object[q]
    <3>1. Pointers(q)' = Pointers(q) /\ object'[q] = object[q]
      BY <1>1, <2>1 DEF Pointers, CountOf, One
    <3> QED BY <3>1, Facts DEF IInv, Fine
  <2>3. PointersAgree' /\ OnceInGame' /\ HeldWhileUsed'
    BY <1>2, <2>1, <2>2, HalfKept DEF IInv, InGame
  <2>4. OneTaskEach'
    BY <1>1, <1>3, <2>1, OneTaskKept DEF IInv
  <2> QED BY <1>2, <1>3, <2>1, <2>3, <2>4, Collected
<1>5. CASE LetsGo(s)
  <2>0. PICK o \in Objects : player[s] = o
    BY <1>2, <1>5 DEF LetsGo
  <2> DEFINE bare == [object[o] EXCEPT !.client = None]
             new == Dropped(bare, 1)
  <2>1. /\ o \in Objects /\ object[o] \in Player /\ object[o].client = s
        /\ object' = [object EXCEPT ![o] = new] /\ player' = [player EXCEPT ![s] = None]
    BY <1>2, <1>5, <2>0 DEF LetsGo, Release
  <2>2. player[s] = o
    BY <2>0
  <2>3. /\ bare \in Player /\ bare.client = None /\ Own(bare) = Own(object[o])
        /\ bare.refs = object[o].refs /\ bare.status = object[o].status
    BY <2>1 DEF Player, Own
  <2> HIDE DEF bare
  <2>4. /\ player' \in [Sessions -> Objects \cup {None}] /\ player'[s] = None
        /\ \A t \in Sessions \ {s} : player'[t] = player[t]
    BY <1>2, <2>1
  <2>5. /\ CountOf(player, o) \in Nat /\ CountOf(player, o) # 0
        /\ Pointers(o) + Own(object[o]) <= object[o].refs
        /\ CountOf(eventConnect, o) \in Nat /\ Own(object[o]) \in Nat /\ object[o].refs \in Nat
        /\ s # None /\ o # None
    BY <2>1, <2>2, CountIsNat, Facts DEF IInv, Fine, SessionAssumption
  <2>6. Pointers(o) >= 1 /\ Pointers(o) \in Nat
    BY <2>5 DEF Pointers, One
  <2>7. 1 \in Nat /\ 1 <= bare.refs
    BY <2>3, <2>5, <2>6
  <2>8. /\ new \in Player /\ new.refs = object[o].refs - 1
        /\ object[o].refs = 1 => new = Free
        /\ object[o].refs # 1 => Own(new) = Own(object[o]) /\ new.status = object[o].status
                                /\ new.client = None
    BY <2>3, <2>7, DroppedIs
  <2> HIDE DEF new
  <2>9. /\ object' \in [Objects -> Player] /\ object'[o] = new
        /\ \A q \in Objects \ {o} : object'[q] = object[q]
    BY <1>2, <2>1, <2>8
  <2>10. new.client = None /\ (new.status = "inGame" => InGame(o))
    BY <2>8, FreeIsFree DEF InGame
  <2>11. PointersAgree'
    <3> SUFFICES ASSUME NEW t \in Sessions, NEW q \in Objects
                 PROVE  player'[t] = q <=> object'[q].client = t
      BY DEF PointersAgree
    <3>1. (player[t] = q <=> object[q].client = t) /\ t # None /\ q # None
      BY DEF IInv, Inv, PointersAgree, SessionAssumption
    <3>2. CASE q = o
      <4>1. player'[t] # o
        <5>1. CASE t = s
          BY <2>4, <2>5, <5>1
        <5>2. CASE t # s
          BY <2>1, <2>4, <3>1, <3>2, <5>2
        <5> QED BY <5>1, <5>2
      <4> QED BY <2>9, <2>10, <3>1, <3>2, <4>1
    <3>3. CASE q # o
      <4>1. object'[q] = object[q]
        BY <2>9, <3>3
      <4>2. CASE t = s
        BY <2>2, <2>4, <3>1, <3>3, <4>1, <4>2
      <4>3. CASE t # s
        BY <2>4, <3>1, <4>1, <4>3
      <4> QED BY <4>2, <4>3
    <3> QED BY <3>2, <3>3
  <2>12. OnceInGame'
    BY <2>9, <2>10 DEF IInv, Inv, OnceInGame, InGame
  <2>13. ASSUME NEW q \in Objects
         PROVE  Pointers(q)' = Pointers(q) - One(o = q)
    <3>1. CountOf(player', q) = CountOf(player, q) + One(None = q) - One(player[s] = q)
          /\ CountOf(player, q) \in Nat
      BY <2>4, PlayerCount DEF IInv
    <3>2. One(None = q) = 0 /\ One(player[s] = q) = One(o = q) /\ One(o = q) \in Nat
      BY <2>2, Facts DEF IInv, One
    <3>3. CountOf(eventConnect', q) = CountOf(eventConnect, q) /\ CountOf(eventConnect, q) \in Nat
      BY <1>1, Facts DEF IInv
    <3>4. /\ Pointers(q) = CountOf(player, q) + CountOf(eventConnect, q)
                            + One(q \in removedCreatures) + One(q \in killedCreatures)
          /\ Pointers(q)' = CountOf(player', q) + CountOf(eventConnect, q)
                            + One(q \in removedCreatures) + One(q \in killedCreatures)
      BY <1>1, <3>3 DEF Pointers, One
    <3>5. One(q \in removedCreatures) \in Nat /\ One(q \in killedCreatures) \in Nat
      BY DEF One
    <3> QED BY <3>1, <3>2, <3>3, <3>4, <3>5
  <2>14. ASSUME NEW q \in Objects \ {o} PROVE Fine(q)'
    <3>1. object'[q] = object[q] /\ Pointers(q)' = Pointers(q)
      BY <2>9, <2>13, Facts DEF IInv, One
    <3> QED BY <3>1, Facts DEF IInv, Fine
  <2>17. Fine(o)'
    <3>1. Pointers(o)' = Pointers(o) - 1
      <4>1. Pointers(o)' = Pointers(o) - One(o = o)
        BY <2>1, <2>13
      <4> QED BY <4>1 DEF One
    <3>2. CASE object[o].refs = 1
      <4>1. Pointers(o)' = 0 /\ new = Free
        BY <2>5, <2>6, <2>8, <3>1, <3>2
      <4> QED BY <2>9, <4>1, FreeIsFree DEF Fine
    <3>3. CASE object[o].refs # 1
      <4>1. Pointers(o)' + Own(new) <= new.refs /\ new.refs # 0
        BY <2>5, <2>6, <2>8, <3>1, <3>3
      <4> QED BY <2>9, <4>1 DEF Fine
    <3> QED BY <3>2, <3>3
  <2>15. HeldWhileUsed'
    BY <2>9, <2>14, <2>17, HeldIsFineNext
  <2>16. OneTaskEach'
    BY <1>1, <1>3, <2>4, OneTaskKept DEF IInv
  <2> QED BY <1>2, <1>3, <2>4, <2>9, <2>11, <2>12, <2>15, <2>16, Collected
<1> QED BY <1>4, <1>5

\* What one object loses or gains in a step of the lists, of which p are the pointers to it
\* before the step and n after it.
LEMMA OneSwept ==
  ASSUME NEW r \in Player, NEW a \in Player, NEW p \in Nat, NEW n \in Nat,
         p + Own(r) <= r.refs, r.refs = 0 => r = Free,
         \/ a = r \/ (a = Removed(r) /\ r.status = "inGame") \/ a = Swept(r) \/ a = Leaving(r),
         n <= p + a.refs - r.refs
  PROVE  /\ Cleaned(a) \in Player /\ n + Own(Cleaned(a)) <= Cleaned(a).refs
         /\ Cleaned(a).refs = 0 => Cleaned(a) = Free
         /\ Cleaned(a).client = r.client \/ (n = 0 /\ Cleaned(a) = Free)
         /\ Cleaned(a).status = "inGame" => r.status = "inGame"
<1>1. /\ Own(a) = Own(r) /\ a.client = r.client /\ (a.status = "inGame" => r.status = "inGame")
      /\ a.refs >= r.refs
  BY RemovedIs, SweptIs, LeavingIs, OwnIsNat
<1>2. /\ n + Own(a) <= a.refs /\ Own(a) \in Nat /\ a.refs \in Nat /\ a.toRelease \in Nat
      /\ a.toRelease <= Own(a) /\ r.refs \in Nat /\ Own(r) \in Nat
  BY <1>1, OwnIsNat DEF Own
<1>3. /\ Cleaned(a) \in Player /\ Cleaned(a).refs = a.refs - a.toRelease
      /\ Cleaned(a) = Free \/ /\ Own(Cleaned(a)) = Own(a) - a.toRelease
                              /\ Cleaned(a).status = a.status /\ Cleaned(a).client = a.client
      /\ (a.refs # 0 /\ Cleaned(a).refs = 0) => Cleaned(a) = Free
      /\ (Cleaned(a) = Free /\ a # Free) => a.toRelease = a.refs
  BY <1>2, CleanedIs
<1>4. a = Free => a.refs = 0 /\ a.toRelease = 0 /\ Own(a) = 0 /\ a.client = None
  BY FreeIsFree
<1>5. CASE Cleaned(a) = Free
  <2>1. n = 0 /\ Own(Cleaned(a)) = 0 /\ Cleaned(a).refs = 0
    BY <1>2, <1>3, <1>4, <1>5, FreeIsFree
  <2> QED BY <1>3, <1>5, <2>1, FreeIsFree
<1>6. CASE Cleaned(a) # Free
  <2>1. a.refs # 0 \/ r.refs = 0
    BY <1>1, <1>2
  <2>2. Cleaned(a).refs # 0
    <3>1. CASE a.refs # 0
      BY <1>3, <1>6, <3>1
    <3>2. CASE a.refs = 0
      <4>1. r.refs = 0 /\ r = Free
        BY <1>1, <1>2, <3>2
      <4>2. a = Free
        <5>1. a # Leaving(r)
          BY <1>2, <3>2, <4>1, LeavingIs
        <5>2. r.status = "free" /\ r.check = "none"
          BY <4>1 DEF Free
        <5> QED BY <4>1, <5>1, <5>2 DEF Swept
      <4>3. Cleaned(a) = Free
        BY <4>2 DEF Cleaned, Free
      <4> QED BY <1>6, <4>3
    <3> QED BY <3>1, <3>2
  <2> QED BY <1>1, <1>2, <1>3, <1>6, <2>2
<1> QED BY <1>5, <1>6

\* The sessions' and the objects' half of Inv after a step of the lists.
LEMMA ListsStep ==
  ASSUME SessionAssumption, IInv, object' \in [Objects -> Player],
         UNCHANGED <<player, eventConnect, acceptPackets, bufferedProtocols, released>>,
         removedCreatures' \subseteq Objects, killedCreatures' \subseteq Objects,
         \A o \in Objects :
           /\ Pointers(o)' + Own(object'[o]) <= object'[o].refs
           /\ object'[o].refs = 0 => object'[o] = Free
           /\ object'[o].client = object[o].client \/ (Pointers(o)' = 0 /\ object'[o] = Free)
           /\ object'[o].status = "inGame" => InGame(o),
         NEW c \in Sessions \cup {None}, Close(c, queue)
  PROVE  IInv'
<1>1. queue \in Seq(Tasks) /\ ConnType /\ player \in [Sessions -> Objects \cup {None}]
      /\ player' \in [Sessions -> Objects \cup {None}] /\ acceptPackets' \in [Sessions -> BOOLEAN]
      /\ eventConnect' \in [Sessions -> Objects \cup {None}] /\ bufferedProtocols' \subseteq Sessions
      /\ released' \subseteq Sessions /\ object \in [Objects -> Player]
  BY TypeIs DEF IInv, Inv
<1>2. Calm(queue, queue') /\ queue' \in Seq(Tasks) /\ ConnType' /\ SameNone
  BY <1>1, CloseIsCalm DEF Calm
<1>3. ASSUME NEW o \in Objects
      PROVE  /\ object'[o].client = object[o].client
             /\ object'[o].status = "inGame" => InGame(o)
             /\ Fine(o)'
  <2>1. Fine(o)'
    BY DEF Fine
  <2>2. ASSUME Pointers(o)' = 0, object'[o] = Free PROVE object'[o].client = object[o].client
    <3>1. CountOf(player, o) = 0
      <4>1. CountOf(player, o) \in Nat /\ CountOf(eventConnect, o) \in Nat
        BY Facts DEF IInv
      <4>2. Pointers(o)' = CountOf(player, o) + CountOf(eventConnect, o)
                           + One(o \in removedCreatures') + One(o \in killedCreatures')
        BY DEF Pointers, CountOf, One
      <4>3. One(o \in removedCreatures') \in Nat /\ One(o \in killedCreatures') \in Nat
        BY DEF One
      <4> QED BY <2>2, <4>1, <4>2, <4>3
    <3>2. \A t \in Sessions : player[t] # o
      BY <3>1, CountIsNat
    <3>3. object[o].client \in Sessions \cup {None}
      BY <1>1 DEF Player
    <3>4. object[o].client = None
      BY <3>2, <3>3 DEF IInv, Inv, PointersAgree
    <3> QED BY <2>2, <3>4, FreeIsFree
  <2> QED BY <2>1, <2>2
<1>4. PointersAgree' /\ OnceInGame' /\ HeldWhileUsed'
  BY <1>3, HalfKept DEF IInv
<1>5. OneTaskEach'
  BY <1>2, OneTaskKept DEF IInv
<1> QED BY <1>1, <1>2, <1>4, <1>5, Collected

LEMMA CheckCreaturesStep ==
  ASSUME SessionAssumption, IInv, NEW list \in SUBSET Objects, CheckCreatures(list)
  PROVE  IInv'
<1> DEFINE after(out, idle, o) ==
      IF o \in idle THEN Removed(object[o])
      ELSE IF o \in out THEN Leaving(object[o])
      ELSE IF o \in list THEN Swept(object[o]) ELSE object[o]
<1>1. PICK out \in SUBSET list, idle \in SUBSET list :
        /\ out \cap idle = {} /\ \A o \in idle : Thinks(o)
        /\ object' = [o \in Objects |-> Cleaned(after(out, idle, o))]
        /\ removedCreatures' = removedCreatures \cup out
        /\ Close(IF idle = {} THEN None ELSE object[CHOOSE o \in idle : TRUE].client, queue)
        /\ UNCHANGED <<killedCreatures, others>>
  BY DEF CheckCreatures
<1>2. /\ object \in [Objects -> Player] /\ killedCreatures' \subseteq Objects
      /\ removedCreatures' \subseteq Objects
      /\ UNCHANGED <<player, eventConnect, acceptPackets, bufferedProtocols, released>>
      /\ killedCreatures' = killedCreatures
  BY <1>1, TypeIs DEF IInv, Inv, others
<1>3. ASSUME NEW o \in Objects
      PROVE  /\ Cleaned(after(out, idle, o)) \in Player
             /\ Pointers(o)' + Own(Cleaned(after(out, idle, o))) <= Cleaned(after(out, idle, o)).refs
             /\ Cleaned(after(out, idle, o)).refs = 0 => Cleaned(after(out, idle, o)) = Free
             /\ \/ Cleaned(after(out, idle, o)).client = object[o].client
                \/ Pointers(o)' = 0 /\ Cleaned(after(out, idle, o)) = Free
             /\ Cleaned(after(out, idle, o)).status = "inGame" => InGame(o)
  <2> DEFINE r == object[o]
             a == after(out, idle, o)
             n == Pointers(o) + (IF o \in out /\ o \notin removedCreatures THEN 1 ELSE 0)
  <2>1. /\ r \in Player /\ Pointers(o) \in Nat /\ n \in Nat /\ Pointers(o) + Own(r) <= r.refs
        /\ (r.refs = 0 => r = Free) /\ r.refs \in Nat
    BY Facts DEF IInv, Fine
  <2>2. Pointers(o)' = n
    <3>1. CountOf(player', o) = CountOf(player, o) /\ CountOf(eventConnect', o) = CountOf(eventConnect, o)
          /\ CountOf(player, o) \in Nat /\ CountOf(eventConnect, o) \in Nat
      BY <1>2, Facts DEF IInv
    <3> QED BY <1>1, <1>2, <3>1 DEF Pointers, One
  <2>3. /\ a \in Player /\ n <= Pointers(o) + a.refs - r.refs
        /\ a = r \/ (a = Removed(r) /\ r.status = "inGame") \/ a = Swept(r) \/ a = Leaving(r)
    <3>1. CASE o \in idle
      <4>1. a = Removed(r) /\ r.status = "inGame" /\ n = Pointers(o)
        BY <1>1, <2>1, <3>1 DEF Thinks, InGame
      <4> QED BY <2>1, <4>1, RemovedIs
    <3>2. CASE o \notin idle /\ o \in out
      <4>1. a = Leaving(r) /\ n <= Pointers(o) + 1
        BY <2>1, <3>2
      <4> QED BY <2>1, <4>1, LeavingIs
    <3>3. CASE o \notin idle /\ o \notin out /\ o \in list
      <4>1. a = Swept(r) /\ n = Pointers(o)
        BY <2>1, <3>3
      <4> QED BY <2>1, <4>1, SweptIs
    <3>4. CASE o \notin idle /\ o \notin out /\ o \notin list
      BY <2>1, <3>4
    <3> QED BY <3>1, <3>2, <3>3, <3>4
  <2>4. r = object[o] /\ a = after(out, idle, o)
    OBVIOUS
  <2> HIDE DEF r, a, n, after
  <2>5. /\ Cleaned(a) \in Player /\ n + Own(Cleaned(a)) <= Cleaned(a).refs
        /\ Cleaned(a).refs = 0 => Cleaned(a) = Free
        /\ Cleaned(a).client = r.client \/ (n = 0 /\ Cleaned(a) = Free)
        /\ Cleaned(a).status = "inGame" => r.status = "inGame"
    BY <2>1, <2>3, OneSwept
  <2> QED BY <2>2, <2>4, <2>5 DEF InGame
<1>4. \A o \in Objects : object'[o] = Cleaned(after(out, idle, o))
  BY <1>1
<1>5. object' \in [Objects -> Player]
  BY <1>1, <1>3
<1> DEFINE c == IF idle = {} THEN None ELSE object[CHOOSE o \in idle : TRUE].client
<1>6. c \in Sessions \cup {None} /\ Close(c, queue)
  <2>1. idle # {} => (CHOOSE o \in idle : TRUE) \in Objects
    BY <1>1
  <2> QED BY <1>1, <1>2, <2>1 DEF Player
<1> HIDE DEF after, c
<1>7. \A o \in Objects :
        /\ Pointers(o)' + Own(object'[o]) <= object'[o].refs
        /\ object'[o].refs = 0 => object'[o] = Free
        /\ object'[o].client = object[o].client \/ (Pointers(o)' = 0 /\ object'[o] = Free)
        /\ object'[o].status = "inGame" => InGame(o)
  BY <1>3, <1>4
<1> QED BY <1>2, <1>5, <1>6, <1>7, ListsStep

LEMMA ProcessRemovedStep ==
  ASSUME SessionAssumption, IInv, ProcessRemovedCreatures
  PROVE  IInv'
<1> DEFINE gone == {o \in removedCreatures \cup killedCreatures : InGame(o)}
           logsOut == gone \ killedCreatures
           c == IF logsOut = {} THEN None ELSE object[CHOOSE o \in logsOut : TRUE].client
<1>1. /\ object' = [o \in Objects |-> IF o \in gone THEN Dropped(Removed(object[o]), 1) ELSE object[o]]
      /\ Close(c, queue) /\ removedCreatures' = {} /\ killedCreatures' = {}
      /\ UNCHANGED <<player, eventConnect, acceptPackets, bufferedProtocols, released>>
  BY DEF ProcessRemovedCreatures, others
<1>2. /\ object \in [Objects -> Player] /\ removedCreatures \subseteq Objects
      /\ killedCreatures \subseteq Objects
  BY TypeIs DEF IInv, Inv
<1>3. c \in Sessions \cup {None}
  <2>1. logsOut # {} => (CHOOSE o \in logsOut : TRUE) \in Objects
    BY <1>2
  <2> QED BY <1>2, <2>1 DEF Player
<1>4. ASSUME NEW o \in Objects
      PROVE  /\ object'[o] \in Player
             /\ Pointers(o)' + Own(object'[o]) <= object'[o].refs
             /\ object'[o].refs = 0 => object'[o] = Free
             /\ object'[o].client = object[o].client
             /\ object'[o].status = "inGame" => InGame(o)
  <2>1. /\ Pointers(o)' = CountOf(player, o) + CountOf(eventConnect, o)
        /\ CountOf(player, o) \in Nat /\ CountOf(eventConnect, o) \in Nat
        /\ Pointers(o) = CountOf(player, o) + CountOf(eventConnect, o)
                         + One(o \in removedCreatures) + One(o \in killedCreatures)
        /\ One(o \in removedCreatures) \in Nat /\ One(o \in killedCreatures) \in Nat
    <3>1. CountOf(player, o) \in Nat /\ CountOf(eventConnect, o) \in Nat
      BY Facts DEF IInv
    <3>2. Pointers(o) = CountOf(player, o) + CountOf(eventConnect, o)
                         + One(o \in removedCreatures) + One(o \in killedCreatures)
      BY DEF Pointers
    <3>3. /\ CountOf(player', o) = CountOf(player, o) /\ CountOf(eventConnect', o) = CountOf(eventConnect, o)
          /\ One(o \in removedCreatures') = 0 /\ One(o \in killedCreatures') = 0
      BY <1>1 DEF One
    <3>4. Pointers(o)' = CountOf(player', o) + CountOf(eventConnect', o)
                         + One(o \in removedCreatures') + One(o \in killedCreatures')
      BY DEF Pointers, CountOf, One
    <3>5. One(o \in removedCreatures) \in Nat /\ One(o \in killedCreatures) \in Nat
      BY DEF One
    <3> QED BY <3>1, <3>2, <3>3, <3>4, <3>5
  <2>2. /\ object[o] \in Player /\ Pointers(o) + Own(object[o]) <= object[o].refs
        /\ object[o].refs = 0 => object[o] = Free
    BY Facts DEF IInv, Fine
  <2>3. /\ Own(object[o]) \in Nat /\ object[o].refs \in Nat
    BY Facts DEF IInv
  <2>4. CASE o \notin gone
    <3>1. object'[o] = object[o]
      BY <1>1, <2>4
    <3> QED BY <2>1, <2>2, <2>3, <3>1 DEF InGame
  <2>5. CASE o \in gone
    <3> DEFINE r == Removed(object[o])
    <3>1. InGame(o) /\ (o \in removedCreatures \/ o \in killedCreatures)
      BY <2>5
    <3>2. Pointers(o) >= Pointers(o)' + 1
      <4>1. One(o \in removedCreatures) + One(o \in killedCreatures) >= 1
        BY <3>1 DEF One
      <4> QED BY <2>1, <4>1
    <3>3. /\ r \in Player /\ Own(r) = Own(object[o]) /\ r.refs = object[o].refs
          /\ r.client = object[o].client /\ r.status # "inGame"
      BY <2>2, <3>1, RemovedIs DEF InGame
    <3>4. object'[o] = Dropped(r, 1)
      BY <1>1, <2>5
    <3>5. Own(object[o]) >= 1
      BY <3>1, InGameIs DEF IInv
    <3> HIDE DEF r
    <3>6. 1 \in Nat /\ 1 <= r.refs /\ r.refs # 1
      BY <2>1, <2>2, <2>3, <3>2, <3>3, <3>5
    <3>7. /\ Dropped(r, 1) \in Player /\ Dropped(r, 1).refs = r.refs - 1
          /\ Own(Dropped(r, 1)) = Own(r) /\ Dropped(r, 1).status = r.status
          /\ Dropped(r, 1).client = r.client
      BY <3>3, <3>6, DroppedIs
    <3> QED BY <2>1, <2>2, <2>3, <3>2, <3>3, <3>4, <3>6, <3>7
  <2> QED BY <2>4, <2>5
<1>5. object' \in [Objects -> Player]
  BY <1>1, <1>4
<1>6. removedCreatures' \subseteq Objects /\ killedCreatures' \subseteq Objects
  BY <1>1
<1> HIDE DEF gone, logsOut, c
<1> QED BY <1>1, <1>3, <1>4, <1>5, <1>6, ListsStep

-----------------------------------------------------------------------------
LEMMA Start ==
  ASSUME SessionAssumption, Init
  PROVE  IInv
<1>1. /\ object = [o \in Objects |-> Free] /\ player = [s \in Sessions |-> None]
      /\ eventConnect = [s \in Sessions |-> None] /\ queue = <<>>
      /\ conn = [s \in Sessions |-> "none"] /\ removedCreatures = {} /\ killedCreatures = {}
  BY DEF Init
<1>2. object \in [Objects -> Player]
  BY <1>1, FreeIsFree
<1>3. TypeOK
  BY <1>1, <1>2, TypeFrom DEF Init, ConnType
<1>4. PointersAgree /\ OnceInGame
  <2>1. \A o \in Objects : object[o].client = None /\ ~InGame(o)
    BY <1>1, FreeIsFree DEF InGame
  <2> QED BY <1>1, <2>1 DEF PointersAgree, OnceInGame, SessionAssumption
<1>5. ASSUME NEW o \in Objects PROVE Fine(o)
  <2>1. CountOf(player, o) = 0 /\ CountOf(eventConnect, o) = 0
    BY <1>1, CountIsNat DEF SessionAssumption
  <2> QED BY <1>1, <2>1, FreeIsFree DEF Fine, Pointers, One
<1>6. HeldWhileUsed
  BY <1>2, <1>5, HeldIsFine
<1>7. OneTaskEach
  BY <1>1 DEF OneTaskEach, Single, Entries
<1> QED BY <1>3, <1>4, <1>6, <1>7 DEF IInv, Inv

LEMMA Step ==
  ASSUME SessionAssumption, IInv, [Next]_vars
  PROVE  IInv'
<1>1. CASE UNCHANGED vars
  <2>1. UNCHANGED rest /\ UNCHANGED <<conn, queue>>
    BY <1>1 DEF vars, session, rest
  <2>2. queue \in Seq(Tasks) /\ ConnType
    BY TypeIs DEF IInv, Inv
  <2>3. Calm(queue, queue') /\ queue' \in Seq(Tasks) /\ ConnType' /\ SameNone
    BY <2>1, <2>2 DEF Calm, ConnType, SameNone
  <2> QED BY <2>1, <2>3, Idle
<1>2. ASSUME NEW s \in Sessions, Task(s) \/ Network(s) \/ Timer(s) PROVE IInv'
  BY <1>2, LoginStep, ConnectStep, PacketStep, ReleaseStep, NetworkStep DEF Task
<1>3. ASSUME NEW o \in Objects, Die(o) \/ Kick(o) PROVE IInv'
  BY <1>3, DieStep, KickStep
<1>4. ASSUME NEW list \in SUBSET Objects, CheckCreatures(list) PROVE IInv'
  BY <1>4, CheckCreaturesStep
<1> QED BY <1>1, <1>2, <1>3, <1>4, ProcessRemovedStep DEF Next

\* No pointer to a player outlives the Player object (decrementReferenceCounter deletes it),
\* a session and its player point to each other, and no character is in the game twice.
THEOREM SessionsAgree == Spec => []Inv
<1>1. Init => IInv
  BY SessionAssumption, Start
<1>2. IInv /\ [Next]_vars => IInv'
  BY SessionAssumption, Step
<1>3. IInv => Inv
  BY DEF IInv
<1> QED BY <1>1, <1>2, <1>3, PTL DEF Spec

\* Only ProtocolGame::release takes a session's player away: login and connect give one to a
\* session that has none.
THEOREM OnlyReleaseTakes == Spec => NoTakeover
<1> DEFINE A == \A s \in Sessions :
                  player[s] # None /\ player'[s] # player[s] =>
                    /\ player'[s] = None
                    /\ queue # <<>> /\ Head(queue) = <<"release", s>>
<1>1. Init => IInv
  BY SessionAssumption, Start
<1>2. IInv /\ [Next]_vars => IInv'
  BY SessionAssumption, Step
<1>3. IInv /\ [Next]_vars => [A]_vars
  <2> SUFFICES ASSUME IInv, Next, NEW s \in Sessions, player[s] # None, player'[s] # player[s]
               PROVE  player'[s] = None /\ queue # <<>> /\ Head(queue) = <<"release", s>>
    BY DEF vars, session
  <2>1. player \in [Sessions -> Objects \cup {None}]
    BY TypeIs DEF IInv, Inv
  <2>2. ASSUME NEW t \in Sessions, Login(t) PROVE FALSE
    <3>1. player[t] = None /\ t # s
      BY SessionAssumption, <2>2, TaskTaken DEF Login
    <3> QED BY <2>1, <2>2, <3>1 DEF Login, Refuse, Enter, AlreadyLoggedIn, Replace, Reconnect
  <2>3. ASSUME NEW t \in Sessions, Connect(t) PROVE FALSE
    <3>1. player[t] = None /\ t # s
      BY SessionAssumption, <2>3, TaskTaken DEF Connect
    <3> QED BY <2>1, <2>3, <3>1 DEF Connect, Attach
  <2>4. ASSUME NEW t \in Sessions, Release(t)
        PROVE  player'[s] = None /\ queue # <<>> /\ Head(queue) = <<"release", s>>
    <3>1. player' = [player EXCEPT ![t] = None] \/ player' = player
      BY <2>4 DEF Release
    <3>2. s = t
      BY <2>1, <3>1
    <3> QED BY <2>1, <2>4, <3>1, <3>2 DEF Release, Runs
  <2>5. ASSUME NEW t \in Sessions, Packet(t) \/ Network(t) \/ Timer(t) PROVE FALSE
    BY <2>5 DEF Packet, Network, FirstMessage, ParsePacket, HangUp, Expire, Timer, rest
  <2>6. ASSUME NEW o \in Objects, Die(o) \/ Kick(o) PROVE FALSE
    BY <2>6 DEF Die, Kick, others
  <2>7. ASSUME NEW list \in SUBSET Objects, CheckCreatures(list) PROVE FALSE
    BY <2>7 DEF CheckCreatures, others
  <2>8. ~ProcessRemovedCreatures
    BY DEF ProcessRemovedCreatures, others
  <2> QED BY <2>2, <2>3, <2>4, <2>5, <2>6, <2>7, <2>8 DEF Next, Task
<1> QED BY <1>1, <1>2, <1>3, PTL DEF Spec, NoTakeover

-----------------------------------------------------------------------------
(* The packets that wait in the queue.                                     *)

\* A packet in the queue is of an open connection, or the release of its session waits
\* behind it.
Behind(q, c) ==
  \A i \in 1 .. Len(q) :
    q[i][1] = "packet" =>
      \/ c[q[i][2]] = "open"
      \/ \E j \in 1 .. Len(q) : i < j /\ q[j] = <<"release", q[i][2]>>
Ordered == Behind(queue, conn)

LEMMA BehindTail ==
  ASSUME NEW q \in Seq(Tasks), NEW c, q # <<>>, Behind(q, c)
  PROVE  Behind(Tail(q), c)
<1> DEFINE r == Tail(q)
<1>1. /\ Len(r) = Len(q) - 1 /\ Len(q) \in Nat
      /\ \A i \in 1 .. Len(r) : r[i] = q[i + 1]
  <2>1. Len(q) \in Nat \ {0}
    BY EmptySeq, LenProperties
  <2> QED BY <2>1, HeadTailProperties
<1> HIDE DEF r
<1>2. ASSUME NEW i \in 1 .. Len(r), r[i][1] = "packet", c[r[i][2]] # "open"
      PROVE  \E j \in 1 .. Len(r) : i < j /\ r[j] = <<"release", r[i][2]>>
  <2>1. i + 1 \in 1 .. Len(q) /\ r[i] = q[i + 1]
    BY <1>1
  <2>2. PICK j \in 1 .. Len(q) : i + 1 < j /\ q[j] = <<"release", r[i][2]>>
    BY <1>2, <2>1 DEF Behind
  <2>3. j - 1 \in 1 .. Len(r) /\ i < j - 1 /\ (j - 1) + 1 = j
    BY <1>1, <2>2
  <2>4. r[j - 1] = q[j]
    BY <1>1, <2>3
  <2> QED BY <2>2, <2>3, <2>4
<1> QED BY <1>2 DEF Behind, r

LEMMA BehindAppend ==
  ASSUME NEW q \in Seq(Tasks), NEW c, NEW d, NEW t \in Tasks,
         t[1] = "packet" => d[t[2]] = "open",
         \A s \in Sessions : c[s] = "open" => d[s] = "open" \/ t = <<"release", s>>,
         Behind(q, c)
  PROVE  Behind(Append(q, t), d)
<1> DEFINE a == Append(q, t)
<1>1. /\ Len(a) = Len(q) + 1 /\ a[Len(q) + 1] = t /\ Len(q) \in Nat
      /\ \A i \in 1 .. Len(q) : a[i] = q[i] /\ q[i] \in Tasks
  BY AppendProperties, LenProperties, ElementOfSeq, SMT
<1> HIDE DEF a
<1>2. ASSUME NEW i \in 1 .. Len(a), a[i][1] = "packet", d[a[i][2]] # "open"
      PROVE  \E j \in 1 .. Len(a) : i < j /\ a[j] = <<"release", a[i][2]>>
  <2>1. i \in 1 .. Len(q) /\ a[i] = q[i] /\ q[i][2] \in Sessions
    <3>1. i # Len(q) + 1
      BY <1>1, <1>2
    <3>2. i \in 1 .. Len(q)
      BY <1>1, <3>1
    <3> QED BY <1>1, <3>2 DEF Tasks
  <2>2. CASE c[q[i][2]] = "open"
    <3>1. t = <<"release", q[i][2]>>
      BY <1>2, <2>1, <2>2
    <3>2. Len(q) + 1 \in 1 .. Len(a) /\ i < Len(q) + 1
      BY <1>1, <2>1
    <3> QED BY <1>1, <2>1, <3>1, <3>2
  <2>3. CASE c[q[i][2]] # "open"
    <3>1. PICK j \in 1 .. Len(q) : i < j /\ q[j] = <<"release", q[i][2]>>
      BY <1>2, <2>1, <2>3 DEF Behind
    <3>2. j \in 1 .. Len(a) /\ a[j] = q[j]
      BY <1>1
    <3> QED BY <2>1, <3>1, <3>2
  <2> QED BY <2>2, <2>3
<1> QED BY <1>2 DEF Behind, a

LEMMA BehindSame ==
  ASSUME NEW q \in Seq(Tasks), NEW c, NEW d, Behind(q, c),
         \A s \in Sessions : c[s] = "open" => d[s] = "open"
  PROVE  Behind(q, d)
<1>1. \A i \in 1 .. Len(q) : q[i][2] \in Sessions
  BY ElementOfSeq DEF Tasks
<1> QED BY <1>1 DEF Behind

LEMMA BehindClose ==
  ASSUME NEW q \in Seq(Tasks), ConnType, Behind(q, conn), NEW s \in Sessions \cup {None},
         Close(s, q)
  PROVE  Ordered'
<1>1. CASE queue' = q /\ UNCHANGED conn
  BY <1>1 DEF Ordered
<1>2. CASE s \in Sessions /\ conn' = [conn EXCEPT ![s] = "closed"]
           /\ queue' = Append(q, <<"release", s>>)
  <2> DEFINE t == <<"release", s>>
  <2>1. t \in Tasks /\ t[1] # "packet"
    BY <1>2 DEF Tasks
  <2>2. \A u \in Sessions : conn[u] = "open" => conn'[u] = "open" \/ t = <<"release", u>>
    BY <1>2 DEF ConnType
  <2>3. queue' = Append(q, t)
    BY <1>2
  <2> HIDE DEF t
  <2>4. Behind(Append(q, t), conn')
    BY <2>1, <2>2, BehindAppend
  <2>5. Behind(queue', conn')
    BY <2>3, <2>4
  <2> QED BY <2>5 DEF Ordered
<1> QED BY <1>1, <1>2 DEF Close

LEMMA PacketsStep ==
  ASSUME SessionAssumption, IInv, Ordered, [Next]_vars
  PROVE  Ordered'
<1>1. queue \in Seq(Tasks) /\ ConnType /\ object \in [Objects -> Player]
  BY TypeIs DEF IInv, Inv
<1>2. \A o \in Objects : object[o].client \in Sessions \cup {None}
  BY <1>1 DEF Player
<1>3. ASSUME queue # <<>>, queue' = Tail(queue), UNCHANGED conn PROVE Ordered'
  BY <1>1, <1>3, BehindTail DEF Ordered
<1>4. ASSUME queue # <<>>, NEW c \in Sessions \cup {None}, Close(c, Tail(queue)) PROVE Ordered'
  <2>1. Tail(queue) \in Seq(Tasks) /\ Behind(Tail(queue), conn)
    BY <1>1, <1>4, BehindTail, Tailed DEF Ordered
  <2> QED BY <1>1, <1>4, <2>1, BehindClose
<1>5. ASSUME NEW c \in Sessions \cup {None}, Close(c, queue) PROVE Ordered'
  BY <1>1, <1>5, BehindClose DEF Ordered
<1>6. ASSUME UNCHANGED <<conn, queue>> PROVE Ordered'
  BY <1>6 DEF Ordered
<1>7. CASE UNCHANGED vars
  BY <1>6, <1>7 DEF vars, session
<1>8. ASSUME NEW s \in Sessions, Task(s) PROVE Ordered'
  <2>1. CASE Login(s)
    <3>1. queue # <<>>
      BY <2>1 DEF Login, Runs
    <3>2. \/ queue' = Tail(queue) /\ UNCHANGED conn
          \/ Close(s, Tail(queue))
          \/ \E o \in Objects : Close(object[o].client, Tail(queue))
      BY <2>1 DEF Login, Refuse, Enter, AlreadyLoggedIn, Replace, Reconnect
    <3> QED BY <1>2, <1>3, <1>4, <3>1, <3>2
  <2>2. CASE Connect(s)
    <3>1. queue # <<>> /\ (Close(s, Tail(queue)) \/ (queue' = Tail(queue) /\ UNCHANGED conn))
      BY <2>2 DEF Connect, Runs
    <3> QED BY <1>3, <1>4, <3>1
  <2>3. CASE Packet(s)
    <3>1. queue # <<>> /\ (Close(s, Tail(queue)) \/ (queue' = Tail(queue) /\ UNCHANGED conn))
      BY <2>3 DEF Packet, Runs, Logout
    <3> QED BY <1>3, <1>4, <3>1
  <2>4. CASE Release(s)
    BY <1>3, <2>4 DEF Release, Runs
  <2> QED BY <1>8, <2>1, <2>2, <2>3, <2>4 DEF Task
<1>9. ASSUME NEW s \in Sessions, NEW what \in {"login", "connect", "packet", "release"},
             queue' = Append(queue, <<what, s>>), what = "packet" => conn'[s] = "open",
             \A u \in Sessions : conn[u] = "open" => conn'[u] = "open"
      PROVE  Ordered'
  <2> DEFINE t == <<what, s>>
  <2>1. t \in Tasks /\ (t[1] = "packet" => conn'[t[2]] = "open") /\ queue' = Append(queue, t)
    BY <1>9 DEF Tasks
  <2> HIDE DEF t
  <2>2. Behind(Append(queue, t), conn')
    BY <1>1, <1>9, <2>1, BehindAppend DEF Ordered
  <2>3. Behind(queue', conn')
    BY <2>1, <2>2
  <2> QED BY <2>3 DEF Ordered
<1>10. ASSUME NEW s \in Sessions, Network(s) \/ Timer(s) PROVE Ordered'
  <2>1. CASE FirstMessage(s)
    <3>1. \A u \in Sessions : conn[u] = "open" => conn'[u] = "open"
      BY <1>1, <2>1 DEF FirstMessage, ConnType
    <3>2. queue' = Append(queue, <<"login", s>>) \/ queue' = Append(queue, <<"release", s>>)
      BY <2>1 DEF FirstMessage
    <3> QED BY <1>9, <3>1, <3>2
  <2>2. CASE ParsePacket(s)
    <3>1. conn' = conn /\ conn[s] = "open" /\ queue' = Append(queue, <<"packet", s>>)
      BY <2>2 DEF ParsePacket
    <3> QED BY <1>9, <3>1
  <2>3. CASE HangUp(s)
    BY <1>5, <2>3 DEF HangUp
  <2>4. CASE Expire(s)
    <3>1. queue' = queue /\ \A u \in Sessions : conn[u] = "open" => conn'[u] = "open"
      BY <1>1, <2>4 DEF Expire, ConnType
    <3>2. Behind(queue, conn')
      BY <1>1, <3>1, BehindSame DEF Ordered
    <3>3. Behind(queue', conn')
      BY <3>1, <3>2
    <3> QED BY <3>3 DEF Ordered
  <2>5. CASE Timer(s)
    <3>1. conn' = conn /\ queue' = Append(queue, <<"connect", s>>)
      BY <2>5 DEF Timer
    <3> QED BY <1>9, <3>1
  <2> QED BY <1>10, <2>1, <2>2, <2>3, <2>4, <2>5 DEF Network
<1>11. ASSUME NEW o \in Objects, Die(o) \/ Kick(o) PROVE Ordered'
  BY <1>2, <1>5, <1>6, <1>11 DEF Die, Kick
<1>12. ASSUME NEW list \in SUBSET Objects, CheckCreatures(list) PROVE Ordered'
  <2>1. PICK idle \in SUBSET list :
          Close(IF idle = {} THEN None ELSE object[CHOOSE o \in idle : TRUE].client, queue)
    BY <1>12 DEF CheckCreatures
  <2> DEFINE c == IF idle = {} THEN None ELSE object[CHOOSE o \in idle : TRUE].client
  <2>2. c \in Sessions \cup {None}
    <3>1. idle # {} => (CHOOSE o \in idle : TRUE) \in Objects
      BY <2>1
    <3> QED BY <1>2, <3>1
  <2> HIDE DEF c
  <2>3. Close(c, queue)
    BY <2>1 DEF c
  <2> QED BY <1>5, <2>2, <2>3
<1>13. CASE ProcessRemovedCreatures
  <2> DEFINE logsOut == {o \in removedCreatures \cup killedCreatures : InGame(o)} \ killedCreatures
             c == IF logsOut = {} THEN None ELSE object[CHOOSE o \in logsOut : TRUE].client
  <2>1. logsOut \subseteq Objects
    BY TypeIs DEF IInv, Inv
  <2>2. c \in Sessions \cup {None}
    <3>1. logsOut # {} => (CHOOSE o \in logsOut : TRUE) \in Objects
      BY <2>1
    <3> QED BY <1>2, <3>1
  <2>3. Close(c, queue)
    BY <1>13 DEF ProcessRemovedCreatures
  <2> HIDE DEF c
  <2> QED BY <1>5, <2>2, <2>3
<1> QED BY <1>7, <1>8, <1>10, <1>11, <1>12, <1>13 DEF Next

LEMMA OrderedIsEnough ==
  ASSUME IInv, Ordered
  PROVE  PacketsFindSession
<1> SUFFICES ASSUME NEW i \in 1 .. Len(queue) PROVE Alive(queue[i][2])
  BY DEF PacketsFindSession
<1>1. CASE queue[i][1] # "packet"
  BY <1>1 DEF Alive
<1>2. CASE queue[i][1] = "packet" /\ conn[queue[i][2]] = "open"
  BY <1>2 DEF Alive
<1>3. CASE queue[i][1] = "packet" /\ conn[queue[i][2]] # "open"
  <2>1. PICK j \in 1 .. Len(queue) : queue[j] = <<"release", queue[i][2]>>
    BY <1>3 DEF Ordered, Behind
  <2>2. queue[j][1] # "packet" /\ queue[j][2] = queue[i][2]
    BY <2>1
  <2> QED BY <2>2 DEF Alive
<1> QED BY <1>1, <1>2, <1>3

\* A session that parsePacket has bound as a raw pointer is still there when its packet's turn
\* comes: the connection is open, or its release, which holds the session, is queued behind.
THEOREM PacketsFindTheirSession == Spec => []PacketsFindSession
<1>1. Init => IInv /\ Ordered
  <2>1. Init => Ordered
    BY DEF Init, Ordered, Behind
  <2> QED BY <2>1, SessionAssumption, Start
<1>2. IInv /\ Ordered /\ [Next]_vars => IInv' /\ Ordered'
  BY SessionAssumption, Step, PacketsStep
<1>3. IInv /\ Ordered => PacketsFindSession
  BY OrderedIsEnough
<1> QED BY <1>1, <1>2, <1>3, PTL DEF Spec
=============================================================================
