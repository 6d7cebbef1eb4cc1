---------------------------- MODULE ServicesProofs ----------------------------
(* What the server's services obey, for every number of messages, ports,   *)
(* threads, protocols, saves and queries: the invariants that the run of   *)
(* MCServices checks, of the lists of things to do, connections, output    *)
(* buffers, ports, saves and asynchronous queries.                         *)
(*                                                                         *)
(* Each part has an inductive invariant (...IInv), with a lemma for its     *)
(* initial states, one for its steps and one that it implies what is       *)
(* promised.  The parts share no variable: a step of one leaves the others *)
(* as they are, and the last section puts them together.                   *)
EXTENDS MCServices, FiniteSetTheorems, TLAPS

-----------------------------------------------------------------------------
(* A creature's list of things to do.                                      *)
(*                                                                         *)
(* Inv is not inductive: it says nothing about a list while its loop runs, *)
(* and the loop leaves a list that is not due to the event it scheduled.   *)

ArmedAlways ==
  (executing /\ ~removed /\ (running => wake > 0)) => \E d \in wake .. MaxDelay : events[d] > 0

ToDoIInv == TypeOK /\ ListMatchesFlags /\ ArmedAlways

LEMMA DelayIsBounded ==
  ASSUME ToDoAssumption, NEW e \in Entry, NEW cd \in [Gates -> 0 .. MaxDelay]
  PROVE  Delay(e, cd) \in 0 .. MaxDelay
<1>1. e[1] \in {"wait", "walk", "attack", "useex", "action"} /\ e[2] \in 0 .. MaxDelay
  BY DEF Entry
<1>2. cd["walk"] \in 0 .. MaxDelay /\ cd["attack"] \in 0 .. MaxDelay /\ cd["multi"] \in 0 .. MaxDelay
  BY DEF Gates
<1>3. 0 \in 0 .. MaxDelay
  BY DEF ToDoAssumption
<1>4. Larger(e[2], cd["walk"]) \in 0 .. MaxDelay
  BY <1>1, <1>2 DEF Larger
<1> QED BY <1>1, <1>2, <1>3, <1>4 DEF Delay

\* What scheduling an event brings about.
LEMMA Scheduled ==
  ASSUME ToDoAssumption, TypeOK, NEW d \in 0 .. MaxDelay, Schedule(d)
  PROVE  /\ wake' \in 0 .. MaxDelay /\ events' \in [0 .. MaxDelay -> Nat]
         /\ \E n \in wake' .. MaxDelay : events'[n] > 0
<1> DEFINE n == Larger(d, MinDelay)
<1>1. n \in 0 .. MaxDelay /\ n >= d
  BY DEF ToDoAssumption, Larger
<1>2. wake' = d /\ events' = [events EXCEPT ![n] = @ + 1]
  BY DEF Schedule
<1> HIDE DEF n
<1>3. events' \in [0 .. MaxDelay -> Nat] /\ events'[n] > 0
  BY <1>1, <1>2 DEF TypeOK
<1>4. n \in wake' .. MaxDelay
  BY <1>1, <1>2 DEF ToDoAssumption
<1> QED BY <1>2, <1>3, <1>4

LEMMA Cleared ==
  ASSUME Clear
  PROVE  /\ entries' \in Seq(Entry) /\ executing' = FALSE /\ stop' = FALSE /\ current' = 0
         /\ ListMatchesFlags'
<1>1. entries' = <<>> /\ executing' = FALSE /\ stop' = FALSE /\ current' = 0
  BY DEF Clear
<1>2. entries' \in Seq(Entry) /\ Len(entries') = 0
  BY <1>1
<1>3. ListMatchesFlags'
  BY <1>1, <1>2 DEF ListMatchesFlags
<1> QED BY <1>1, <1>2, <1>3

LEMMA ClearedIInv ==
  ASSUME ToDoAssumption, ToDoIInv, Clear, UNCHANGED timers,
         cooldown' \in [Gates -> 0 .. MaxDelay], running' \in BOOLEAN, removed' \in BOOLEAN,
         orders' \in Nat
  PROVE  ToDoIInv'
BY Cleared DEF ToDoIInv, TypeOK, ArmedAlways, timers

\* What a new list brings about: it is armed, or there is none.
LEMMA Planned ==
  ASSUME ToDoAssumption, TypeOK, NEW p \in Seq(Entry), NEW cd \in [Gates -> 0 .. MaxDelay], Plan(p, cd)
  PROVE  /\ entries' \in Seq(Entry) /\ executing' \in BOOLEAN /\ stop' \in BOOLEAN /\ current' \in Nat
         /\ wake' \in 0 .. MaxDelay /\ events' \in [0 .. MaxDelay -> Nat]
         /\ ListMatchesFlags'
         /\ executing' => \E d \in wake' .. MaxDelay : events'[d] > 0
<1>1. CASE p = <<>>
  BY <1>1, Cleared DEF Plan, timers, TypeOK
<1>2. CASE p # <<>>
  <2>1. p[1] \in Entry /\ Len(p) > 0
    BY <1>2
  <2>2. Delay(p[1], cd) \in 0 .. MaxDelay
    BY <2>1, DelayIsBounded
  <2>3. Schedule(Delay(p[1], cd))
    BY <1>2 DEF Plan
  <2>4. /\ wake' \in 0 .. MaxDelay /\ events' \in [0 .. MaxDelay -> Nat]
        /\ \E n \in wake' .. MaxDelay : events'[n] > 0
    BY <2>2, <2>3, Scheduled
  <2>5. entries' = p /\ executing' = TRUE /\ stop' = FALSE /\ current' = 0
    BY <1>2 DEF Plan
  <2>6. ListMatchesFlags'
    BY <1>2, <2>1, <2>5 DEF ListMatchesFlags
  <2> QED BY <2>4, <2>5, <2>6
<1> QED BY <1>1, <1>2

LEMMA PlannedIInv ==
  ASSUME ToDoAssumption, ToDoIInv, NEW p \in Seq(Entry), NEW cd \in [Gates -> 0 .. MaxDelay], Plan(p, cd),
         cooldown' \in [Gates -> 0 .. MaxDelay], running' \in BOOLEAN, removed' \in BOOLEAN,
         orders' \in Nat
  PROVE  ToDoIInv'
BY Planned DEF ToDoIInv, TypeOK, ArmedAlways

LEMMA OthersIInv ==
  ASSUME ToDoAssumption, ToDoIInv, Order \/ Yield \/ Stop \/ Moved \/ TargetMoved \/ Remove
  PROVE  ToDoIInv'
<1> USE DEF ToDoIInv
<1>1. Plans \subseteq Seq(Entry)
  BY DEF ToDoAssumption
<1>2. orders' \in Nat
  BY DEF Order, Yield, Stop, Moved, TargetMoved, Remove, Other, Disturb, TypeOK
<1>3. CASE Order
  BY <1>1, <1>2, <1>3, PlannedIInv DEF Order, TypeOK
<1>4. CASE Yield
  <2>1. << <<"wait", MinDelay>> >> \in Seq(Entry)
    BY DEF ToDoAssumption, Entry
  <2> QED BY <1>2, <1>4, <2>1, PlannedIInv DEF Yield, TypeOK
<1>5. CASE Stop
  BY <1>2, <1>5 DEF Stop, timers, TypeOK, ListMatchesFlags, ArmedAlways
<1>6. CASE Moved
  <2>1. cooldown' \in [Gates -> 0 .. MaxDelay]
    BY <1>6 DEF Moved, TypeOK, ToDoAssumption
  <2>2. UNCHANGED timers /\ UNCHANGED <<running, removed>> /\ (Clear \/ UNCHANGED list)
    BY <1>6 DEF Moved
  <2>3. CASE Clear
    BY <1>2, <2>1, <2>2, <2>3, ClearedIInv DEF TypeOK
  <2>4. CASE UNCHANGED list
    BY <1>2, <2>1, <2>2, <2>4 DEF list, timers, TypeOK, ListMatchesFlags, ArmedAlways
  <2> QED BY <2>2, <2>3, <2>4
<1>7. CASE TargetMoved
  BY <1>1, <1>2, <1>7, PlannedIInv DEF TargetMoved, TypeOK
<1>8. CASE Remove
  BY <1>2, <1>8 DEF Remove, list, timers, TypeOK, ListMatchesFlags, ArmedAlways
<1> QED BY <1>3, <1>4, <1>5, <1>6, <1>7, <1>8

LEMMA FireIInv ==
  ASSUME ToDoAssumption, ToDoIInv, Fire
  PROVE  ToDoIInv'
<1> USE DEF ToDoIInv
<1>1. /\ events' \in [0 .. MaxDelay -> Nat]
      /\ \A d \in 0 .. MaxDelay : d > 0 => events'[d] = events[d]
  BY DEF Fire, TypeOK, ToDoAssumption
<1>2. TypeOK' /\ ListMatchesFlags'
  BY <1>1 DEF Fire, list, TypeOK, ListMatchesFlags
<1>3. ArmedAlways'
  <2> SUFFICES ASSUME executing', ~removed', running' => wake' > 0
               PROVE  \E d \in wake' .. MaxDelay : events'[d] > 0
    BY DEF ArmedAlways
  <2>1. executing /\ ~removed /\ ~running /\ wake' = wake
    BY DEF Fire, list
  <2>2. running' /\ wake > 0
    BY <2>1 DEF Fire, ListMatchesFlags
  <2>3. PICK d \in wake .. MaxDelay : events[d] > 0
    BY <2>1 DEF ArmedAlways
  <2> QED BY <1>1, <2>1, <2>2, <2>3 DEF TypeOK, ToDoAssumption
<1> QED BY <1>2, <1>3

LEMMA TickIInv ==
  ASSUME ToDoAssumption, ToDoIInv, Tick
  PROVE  ToDoIInv'
<1> USE DEF ToDoIInv
<1>1. \A n \in 0 .. MaxDelay : Less(n) \in 0 .. MaxDelay /\ Less(n) <= n
  BY DEF Less, ToDoAssumption
<1>2. entries' \in Seq(Entry) /\ Len(entries') = Len(entries)
  <2>1. \A i \in DOMAIN entries : <<entries[i][1], Less(entries[i][2])>> \in Entry
    <3> TAKE i \in DOMAIN entries
    <3>1. entries[i] \in Entry
      BY DEF TypeOK
    <3>2. /\ entries[i][1] \in {"wait", "walk", "attack", "useex", "action"}
          /\ entries[i][2] \in 0 .. MaxDelay
      BY <3>1 DEF Entry
    <3> QED BY <1>1, <3>2 DEF Entry
  <2>2. DOMAIN entries = 1 .. Len(entries) /\ Len(entries) \in Nat
    BY DEF TypeOK
  <2>3. entries' = [i \in 1 .. Len(entries) |-> <<entries[i][1], Less(entries[i][2])>>]
    BY <2>2 DEF Tick
  <2>4. entries' \in [1 .. Len(entries) -> Entry]
    BY <2>1, <2>2, <2>3
  <2> QED BY <2>2, <2>4
<1>3. /\ events' \in [0 .. MaxDelay -> Nat]
      /\ \A d \in 0 .. MaxDelay : events[d] > 0 => events'[Less(d)] > 0
  <2>1. events \in [0 .. MaxDelay -> Nat] /\ MaxDelay \in Nat
    BY DEF TypeOK, ToDoAssumption
  <2>2. events' = [d \in 0 .. MaxDelay |->
                  (IF d < MaxDelay THEN events[d + 1] ELSE 0) + (IF d = 0 THEN events[0] ELSE 0)]
    BY DEF Tick
  <2>3. events' \in [0 .. MaxDelay -> Nat]
    BY <2>1, <2>2
  <2>4. ASSUME NEW d \in 0 .. MaxDelay, events[d] > 0 PROVE events'[Less(d)] > 0
    <3>1. CASE d = 0
      BY <2>1, <2>2, <2>4, <3>1 DEF Less
    <3>2. CASE d # 0
      <4>1. Less(d) = d - 1 /\ d - 1 \in 0 .. MaxDelay /\ d - 1 < MaxDelay /\ (d - 1) + 1 = d
        BY <2>1, <3>2 DEF Less
      <4>2. events'[d - 1] = events[d] + (IF d - 1 = 0 THEN events[0] ELSE 0)
        BY <2>2, <4>1
      <4> QED BY <2>1, <2>4, <4>1, <4>2
    <3> QED BY <3>1, <3>2
  <2> QED BY <2>3, <2>4
<1>4. cooldown' \in [Gates -> 0 .. MaxDelay] /\ wake' \in 0 .. MaxDelay
  BY <1>1 DEF Tick, TypeOK
<1>5. TypeOK'
  BY <1>2, <1>3, <1>4 DEF Tick, TypeOK
<1>6. ListMatchesFlags'
  BY <1>2 DEF Tick, TypeOK, ListMatchesFlags
<1>7. ArmedAlways'
  <2> SUFFICES ASSUME executing', ~removed', running' => wake' > 0
               PROVE  \E d \in wake' .. MaxDelay : events'[d] > 0
    BY DEF ArmedAlways
  <2>1. executing /\ ~removed /\ wake' = Less(wake) /\ (running => wake > 0)
    BY DEF Tick, Less, TypeOK
  <2>2. PICK d \in wake .. MaxDelay : events[d] > 0
    BY <2>1 DEF ArmedAlways
  <2>3. d \in 0 .. MaxDelay /\ Less(d) \in Less(wake) .. MaxDelay
    BY <2>2 DEF Less, TypeOK, ToDoAssumption
  <2> QED BY <1>3, <2>1, <2>2, <2>3
<1> QED BY <1>5, <1>6, <1>7

LEMMA LoopIInv ==
  ASSUME ToDoAssumption, ToDoIInv, LoopEnds \/ ListDone \/ Wait
  PROVE  ToDoIInv'
<1> USE DEF ToDoIInv
<1>1. CASE LoopEnds
  <2>1. UNCHANGED <<list, timers, cooldown, removed, orders>> /\ running' = FALSE
    BY <1>1 DEF LoopEnds
  <2>2. executing /\ ~removed => wake > 0
    BY <1>1 DEF LoopEnds, Goes, TypeOK, ToDoAssumption
  <2>3. TypeOK' /\ ListMatchesFlags'
    BY <2>1 DEF list, timers, TypeOK, ListMatchesFlags
  <2>4. ArmedAlways'
    BY <2>1, <2>2 DEF list, timers, ArmedAlways
  <2> QED BY <2>3, <2>4
<1>2. CASE ListDone
  <2>1. PICK p \in Plans : Plan(p, cooldown)
    BY <1>2 DEF ListDone
  <2>2. p \in Seq(Entry)
    BY DEF ToDoAssumption
  <2>3. running' = FALSE /\ cooldown' = cooldown /\ removed' = removed /\ orders' = orders
    BY <1>2 DEF ListDone
  <2> QED BY <2>1, <2>2, <2>3, PlannedIInv DEF TypeOK
<1>3. CASE Wait
  <2>1. /\ running' \in BOOLEAN /\ cooldown' = cooldown /\ removed' = removed /\ orders' = orders
        /\ current < Len(entries)
    BY <1>3 DEF Wait, NotYet
  <2>2. CASE stop
    BY <1>3, <2>1, <2>2, ClearedIInv DEF Wait, TypeOK
  <2>3. CASE ~stop
    <3>1. entries[current + 1] \in Entry
      BY <2>1 DEF TypeOK
    <3>2. Delay(entries[current + 1], cooldown) \in 0 .. MaxDelay
      BY <3>1, DelayIsBounded DEF TypeOK
    <3>3. Schedule(Delay(entries[current + 1], cooldown)) /\ UNCHANGED list
      BY <1>3, <2>3 DEF Wait
    <3>4. /\ wake' \in 0 .. MaxDelay /\ events' \in [0 .. MaxDelay -> Nat]
          /\ \E n \in wake' .. MaxDelay : events'[n] > 0
      BY <3>2, <3>3, Scheduled
    <3> QED BY <2>1, <3>3, <3>4 DEF list, TypeOK, ListMatchesFlags, ArmedAlways
  <2> QED BY <2>2, <2>3
<1> QED BY <1>1, <1>2, <1>3

LEMMA RunEntryIInv ==
  ASSUME ToDoAssumption, ToDoIInv, RunEntry
  PROVE  ToDoIInv'
<1> USE DEF ToDoIInv
<1> DEFINE e == entries[current + 1]
<1>1. running /\ executing /\ ~removed /\ wake = 0 /\ current < Len(entries)
  BY DEF RunEntry, Goes
<1>2. e \in Entry
  BY <1>1 DEF TypeOK
<1>3. ASSUME Proceed, UNCHANGED <<timers, removed, orders>>, cooldown' \in [Gates -> 0 .. MaxDelay]
      PROVE  ToDoIInv'
  <2>1. CASE stop
    BY <1>3, <2>1, ClearedIInv DEF Proceed, TypeOK
  <2>2. CASE ~stop
    BY <1>1, <1>3, <2>2 DEF Proceed, timers, TypeOK, ListMatchesFlags, ArmedAlways
  <2> QED BY <2>1, <2>2
<1>4. CASE e[1] = "wait"
  BY <1>3, <1>4 DEF RunEntry, TypeOK
<1>5. CASE e[1] # "wait"
  <2>1. PICK c \in Cooldowns :
          /\ cooldown' = [cooldown EXCEPT ![GateOf(e)] = c]
          /\ \/ Proceed /\ UNCHANGED <<timers, removed, orders>>
             \/ Disturb /\ (\E p \in Plans : Plan(p, cooldown')) /\ UNCHANGED <<running, removed>>
             \/ /\ removed' = TRUE /\ current' = current + 1
                /\ UNCHANGED <<entries, executing, stop, running, timers, orders>>
    BY <1>5 DEF RunEntry
  <2>2. cooldown' \in [Gates -> 0 .. MaxDelay]
    BY <2>1 DEF TypeOK, ToDoAssumption
  <2>3. CASE Proceed /\ UNCHANGED <<timers, removed, orders>>
    BY <1>3, <2>2, <2>3
  <2>4. CASE Disturb /\ (\E p \in Plans : Plan(p, cooldown')) /\ UNCHANGED <<running, removed>>
    <3>1. PICK p \in Plans : Plan(p, cooldown')
      BY <2>4
    <3>2. p \in Seq(Entry) /\ orders' \in Nat /\ running' \in BOOLEAN /\ removed' \in BOOLEAN
      BY <2>4 DEF TypeOK, ToDoAssumption, Disturb
    <3> QED BY <2>2, <3>1, <3>2, PlannedIInv
  <2>5. CASE /\ removed' = TRUE /\ current' = current + 1
             /\ UNCHANGED <<entries, executing, stop, running, timers, orders>>
    BY <1>1, <2>2, <2>5 DEF timers, TypeOK, ListMatchesFlags, ArmedAlways
  <2> QED BY <2>1, <2>3, <2>4, <2>5
<1> QED BY <1>4, <1>5

LEMMA ToDoAssumed == ToDoAssumption
BY ToDoAssumption

\* A creature that has something to do, and is not just doing it, has an event
\* coming that will do it, and no request to stop outlives its list
\* (creature.cpp startToDo, executeToDoEntries).
THEOREM ListsAreServed == Spec => []Inv
<1>1. Init => ToDoIInv
  <2> SUFFICES ASSUME Init PROVE ToDoIInv
    OBVIOUS
  <2>1. entries \in Seq(Entry) /\ entries = <<>> /\ Len(entries) = 0
    BY DEF Init
  <2>2. cooldown \in [Gates -> 0 .. MaxDelay] /\ events \in [0 .. MaxDelay -> Nat]
    BY ToDoAssumed DEF ToDoAssumption, Init
  <2> QED BY <2>1, <2>2, ToDoAssumed DEF ToDoAssumption, Init, ToDoIInv, TypeOK, ListMatchesFlags,
           ArmedAlways
<1>2. ToDoIInv /\ [Next]_vars => ToDoIInv'
  <2>1. ASSUME ToDoIInv, Next PROVE ToDoIInv'
    BY <2>1, ToDoAssumed, OthersIInv, FireIInv, TickIInv, LoopIInv, RunEntryIInv DEF Next
  <2>2. ASSUME ToDoIInv, UNCHANGED vars PROVE ToDoIInv'
    BY <2>2 DEF vars, ToDoIInv, TypeOK, ListMatchesFlags, ArmedAlways
  <2> QED BY <2>1, <2>2
<1>3. ToDoIInv => Inv
  BY DEF ToDoIInv, Inv, Armed, ArmedAlways
<1> QED BY <1>1, <1>2, <1>3, PTL DEF Spec

-----------------------------------------------------------------------------
(* A connection.                                                           *)
(*                                                                         *)
(* Inv of Connection speaks of one state; what its handlers leave is told   *)
(* by two relations on the object, Follows and Keeps, that every method    *)
(* obeys, so that each handler is proved from the methods it calls.        *)

Conns ==
  [closed : BOOLEAN, open : BOOLEAN, registered : BOOLEAN,
   protocol : BOOLEAN, receivedFirst : BOOLEAN, receivedFirstHeader : BOOLEAN,
   read : {"none", "header", "body", "proxy"},
   rop : {"none", "pending", "ok", "err"}, wop : {"none", "pending", "ok", "err"},
   queue : Seq(Nat), readTimer : BOOLEAN, writeTimer : BOOLEAN, late : BOOLEAN]

\* A method leaves the object d of c, and what is queued alone.
Follows(c, d) ==
  /\ d \in Conns
  /\ c.closed => d.closed /\ d.protocol = c.protocol
  /\ c.protocol => d.protocol
  /\ d.open => c.open
  /\ d.closed \/ d.registered = c.registered

Keeps(c, d) == Follows(c, d) /\ d.queue = c.queue

LEMMA ShutKeeps ==
  ASSUME NEW c \in Conns
  PROVE  /\ Keeps(c, N!Shut(c)) /\ N!Shut(c).closed = c.closed /\ N!Shut(c).wop = c.wop /\ N!Shut(c).open = FALSE
         /\ N!Shut(c).registered = c.registered
         /\ N!Shut(c).protocol = c.protocol
<1> DEFINE d == [c EXCEPT !.open = FALSE, !.readTimer = FALSE, !.writeTimer = FALSE]
<1>1. /\ d \in Conns /\ d.closed = c.closed /\ d.wop = c.wop /\ d.open = FALSE
      /\ d.registered = c.registered /\ d.protocol = c.protocol /\ d.queue = c.queue
  BY DEF Conns
<1>2. c.open \in BOOLEAN
  BY DEF Conns
<1>3. N!Shut(c) = IF c.open THEN d ELSE c
  BY DEF N!Shut
<1> HIDE DEF d
<1> QED BY <1>1, <1>2, <1>3 DEF Keeps, Follows

LEMMA CloseKeeps ==
  ASSUME NEW c \in Conns, NEW force
  PROVE  Keeps(c, N!Close(c, force)) /\ N!Close(c, force).closed /\ N!Close(c, force).wop = c.wop
         /\ N!Close(c, force).protocol = c.protocol
<1> DEFINE d == [c EXCEPT !.registered = FALSE, !.closed = TRUE]
<1>1. d \in Conns /\ Keeps(c, d) /\ d.closed /\ d.wop = c.wop /\ d.protocol = c.protocol
  BY DEF Conns, Keeps, Follows
<1>2. N!Close(c, force) \in {d, N!Shut(d)}
  BY DEF N!Close
<1> HIDE DEF d
<1> QED BY <1>1, <1>2, ShutKeeps DEF Keeps, Follows

LEMMA StartReadKeeps ==
  ASSUME NEW c \in Conns, NEW what \in {"header", "body", "proxy"}, NEW d \in N!StartRead(c, what)
  PROVE  Keeps(c, d) /\ d.wop = c.wop /\ d.protocol = c.protocol
<1> DEFINE t == [c EXCEPT !.readTimer = TRUE]
<1>1. t \in Conns /\ Keeps(c, t) /\ t.wop = c.wop /\ t.protocol = c.protocol
  BY DEF Conns, Keeps, Follows
<1>2. d = [t EXCEPT !.read = what, !.rop = "pending"] \/ d = N!Close(t, TRUE)
  BY DEF N!StartRead, N!Reading, N!Thrown
<1> HIDE DEF t
<1>3. CASE d = [t EXCEPT !.read = what, !.rop = "pending"]
  BY <1>1, <1>3 DEF Conns, Keeps, Follows
<1>4. CASE d = N!Close(t, TRUE)
  BY <1>1, <1>4, CloseKeeps DEF Keeps, Follows
<1> QED BY <1>2, <1>3, <1>4

LEMMA StartWriteKeeps ==
  ASSUME NEW c \in Conns, NEW d \in N!StartWrite(c)
  PROVE  /\ Keeps(c, d) /\ d.protocol = c.protocol
         /\ d.wop = "pending" \/ (d.closed /\ d.wop = c.wop)
<1> DEFINE t == [c EXCEPT !.writeTimer = TRUE]
<1>1. t \in Conns /\ Keeps(c, t) /\ t.wop = c.wop /\ t.protocol = c.protocol
  BY DEF Conns, Keeps, Follows
<1>2. d = [t EXCEPT !.wop = "pending"] \/ d = N!Close(t, TRUE)
  BY DEF N!StartWrite, N!Thrown
<1> HIDE DEF t
<1>3. CASE d = [t EXCEPT !.wop = "pending"]
  BY <1>1, <1>3 DEF Conns, Keeps, Follows
<1>4. CASE d = N!Close(t, TRUE)
  BY <1>1, <1>4, CloseKeeps DEF Keeps, Follows
<1> QED BY <1>2, <1>3, <1>4

LEMMA SendKeeps ==
  ASSUME NEW c \in Conns, NEW m \in Nat, ~c.closed, NEW d \in N!Send(c, m)
  PROVE  /\ Follows(c, d) /\ d.queue = Append(c.queue, m) /\ d.protocol = c.protocol
         /\ c.queue = <<>> => d.wop = "pending" \/ (d.closed /\ d.wop = c.wop)
         /\ c.queue # <<>> => d.wop = c.wop
<1> DEFINE t == [c EXCEPT !.queue = Append(c.queue, m)]
<1>0. Append(c.queue, m) \in Seq(Nat)
  BY DEF Conns
<1>1. t \in Conns /\ Follows(c, t) /\ t.wop = c.wop /\ t.protocol = c.protocol
      /\ t.queue = Append(c.queue, m)
  BY <1>0 DEF Conns, Follows
<1>2. IF c.queue = <<>> THEN d \in N!StartWrite(t) ELSE d = t
  BY DEF N!Send
<1> HIDE DEF t
<1>3. CASE c.queue = <<>>
  BY <1>1, <1>2, <1>3, StartWriteKeeps DEF Keeps, Follows
<1>4. CASE c.queue # <<>>
  BY <1>1, <1>2, <1>4
<1> QED BY <1>3, <1>4

-----------------------------------------------------------------------------
\* The messages that are queued are the last ones accepted, in their order, and
\* those before them are written, unless the connection was closed over them.
Numbered(c, a, w) ==
  /\ Len(c.queue) <= a /\ \A i \in 1 .. Len(c.queue) : c.queue[i] = a - Len(c.queue) + i
  /\ ~c.closed \/ c.queue # <<>> => 1 .. a - Len(c.queue) \subseteq w
  /\ w \subseteq 1 .. a /\ \A m \in w : 1 .. m \subseteq w

Writing(c) ==
  /\ c.wop # "none" => c.queue # <<>>
  /\ c.queue # <<>> /\ ~c.closed => c.wop # "none"

ConnIInv ==
  /\ conn \in Conns /\ alive \in BOOLEAN /\ dispatching \in BOOLEAN /\ reset \in BOOLEAN
  /\ accepted \in 0 .. MaxQueued /\ releases \in Nat
  /\ N!ReleasedOnce /\ N!OpenIsKnown
  /\ Numbered(conn, accepted, written) /\ Writing(conn)

LEMMA ConnIInvImpliesInv ==
  ASSUME MaxQueued \in Nat, ConnIInv
  PROVE  N!Inv
<1>1. conn \in Conns /\ conn.queue \in Seq(Nat) /\ Len(conn.queue) \in Nat
      /\ accepted \in 0 .. MaxQueued
  BY DEF ConnIInv, Conns
<1>a. /\ Len(conn.queue) <= accepted
      /\ \A i \in 1 .. Len(conn.queue) : conn.queue[i] = accepted - Len(conn.queue) + i
      /\ written \subseteq 1 .. accepted /\ \A m \in written : 1 .. m \subseteq written
  BY DEF ConnIInv, Numbered
<1>2. \A i \in 1 .. Len(conn.queue) : conn.queue[i] \in 1 .. MaxQueued
  <2> DEFINE n == Len(conn.queue)
  <2>1. n \in Nat /\ n <= accepted /\ accepted \in Nat /\ accepted <= MaxQueued
    BY <1>1, <1>a
  <2> HIDE DEF n
  <2>2. \A i \in 1 .. n : accepted - n + i \in 1 .. MaxQueued
    BY <2>1
  <2> QED BY <1>a, <2>2 DEF n
<1>3. conn.queue \in Seq(1 .. MaxQueued)
  BY <1>1, <1>2
<1>4. N!TypeOK
  BY <1>1, <1>3 DEF ConnIInv, Conns, Numbered, N!TypeOK
<1>5. N!WriterServesQueue
  <2> DEFINE n == Len(conn.queue)
  <2>1. n \in Nat /\ accepted \in Nat
    BY <1>1
  <2> HIDE DEF n
  <2>2. \A i, j \in 1 .. n : i < j => accepted - n + i < accepted - n + j
    BY <2>1
  <2>3. \A i, j \in 1 .. Len(conn.queue) : i < j => conn.queue[i] < conn.queue[j]
    BY <1>a, <2>2 DEF n
  <2> QED BY <1>a, <2>3 DEF ConnIInv, Writing, N!WriterServesQueue
<1> QED BY <1>4, <1>5 DEF ConnIInv, N!Inv

\* A handler that ends with d counts its release, and forgets no open socket.
LEMMA HandlerReleases ==
  ASSUME ConnIInv, NEW d, Follows(conn, d), N!Becomes(d), alive' = alive
  PROVE  /\ conn' = d /\ dispatching' = dispatching /\ reset' = reset /\ releases' \in Nat
         /\ N!ReleasedOnce' /\ N!OpenIsKnown'
<1>1. /\ conn' = d /\ releases' = releases + N!Released(conn, d)
      /\ dispatching' = dispatching /\ reset' = reset
  BY DEF N!Becomes
<1>2. N!Released(conn, d) = IF ~conn.closed /\ d.closed /\ d.protocol /\ dispatching THEN 1 ELSE 0
  BY DEF N!Released
<1>3. releases \in Nat /\ dispatching \in BOOLEAN /\ d \in Conns /\ conn \in Conns
  BY DEF ConnIInv, Follows
<1>4. releases' \in Nat
  BY <1>1, <1>2, <1>3
<1>5. N!ReleasedOnce'
  BY <1>1, <1>2, <1>3 DEF ConnIInv, Follows, N!ReleasedOnce, Conns
<1>6. N!OpenIsKnown'
  BY <1>1, <1>3 DEF ConnIInv, Follows, N!OpenIsKnown, Conns
<1> QED BY <1>1, <1>4, <1>5, <1>6

\* One that leaves the queue alone.
LEMMA HandlerKeeps ==
  ASSUME ConnIInv, NEW d, Keeps(conn, d), d.wop = conn.wop, N!Becomes(d),
         UNCHANGED <<alive, accepted, written>>
  PROVE  ConnIInv'
<1>1. Follows(conn, d) /\ d.queue = conn.queue /\ d \in Conns /\ conn \in Conns
  BY DEF Keeps, Follows, ConnIInv
<1>2. /\ conn' = d /\ dispatching' = dispatching /\ reset' = reset /\ releases' \in Nat
      /\ N!ReleasedOnce' /\ N!OpenIsKnown'
  BY <1>1, HandlerReleases
<1>3. Numbered(conn', accepted', written')
  BY <1>1, <1>2 DEF ConnIInv, Follows, Numbered, Conns
<1>4. Writing(conn')
  BY <1>1, <1>2 DEF ConnIInv, Follows, Writing, Conns
<1> QED BY <1>1, <1>2, <1>3, <1>4 DEF ConnIInv

\* One that queues a message.
LEMMA HandlerSends ==
  ASSUME ConnIInv, NEW d, Follows(conn, d), ~conn.closed, accepted + 1 <= MaxQueued, MaxQueued \in Nat,
         d.queue = Append(conn.queue, accepted + 1),
         conn.queue = <<>> => d.wop = "pending" \/ (d.closed /\ d.wop = conn.wop),
         conn.queue # <<>> => d.wop = conn.wop, N!Becomes(d),
         accepted' = accepted + 1, UNCHANGED <<alive, written>>
  PROVE  ConnIInv'
<1>1. d \in Conns /\ conn \in Conns /\ conn.queue \in Seq(Nat) /\ accepted \in Nat
  BY DEF Follows, ConnIInv, Conns
<1>2. /\ conn' = d /\ dispatching' = dispatching /\ reset' = reset /\ releases' \in Nat
      /\ N!ReleasedOnce' /\ N!OpenIsKnown'
  BY HandlerReleases
<1>3. /\ Len(d.queue) = Len(conn.queue) + 1 /\ Len(conn.queue) \in Nat
      /\ \A i \in 1 .. Len(conn.queue) : d.queue[i] = conn.queue[i]
      /\ d.queue[Len(conn.queue) + 1] = accepted + 1
      /\ d.queue # <<>>
  BY <1>1
<1>4. Numbered(conn', accepted', written')
  <2> DEFINE n == Len(conn.queue)
  <2>a. /\ n <= accepted /\ \A i \in 1 .. n : conn.queue[i] = accepted - n + i
        /\ 1 .. accepted - n \subseteq written
    BY DEF ConnIInv, Numbered
  <2>b. n \in Nat /\ Len(d.queue) = n + 1 /\ accepted' - (n + 1) = accepted - n
    BY <1>1, <1>3
  <2>1. \A i \in 1 .. Len(d.queue) : d.queue[i] = accepted' - Len(d.queue) + i
    <3> TAKE i \in 1 .. Len(d.queue)
    <3>1. CASE i = n + 1
      BY <1>1, <1>3, <2>b, <3>1
    <3>2. CASE i \in 1 .. n
      BY <1>1, <1>3, <2>a, <2>b, <3>2
    <3> QED BY <2>b, <3>1, <3>2
  <2>2. 1 .. accepted' - Len(d.queue) \subseteq written
    BY <2>a, <2>b
  <2>3. written \subseteq 1 .. accepted' /\ \A m \in written : 1 .. m \subseteq written
    BY <1>1 DEF ConnIInv, Numbered
  <2>4. Len(d.queue) <= accepted'
    BY <1>1, <1>3 DEF ConnIInv, Numbered
  <2> QED BY <1>2, <2>1, <2>2, <2>3, <2>4 DEF Numbered
<1>5. Writing(conn')
  BY <1>1, <1>2, <1>3 DEF ConnIInv, Writing
<1> QED BY <1>1, <1>2, <1>4, <1>5 DEF ConnIInv

LEMMA ReadOverKeeps ==
  ASSUME ConnIInv
  PROVE  Keeps(conn, N!ReadOver) /\ N!ReadOver.wop = conn.wop /\ N!ReadOver.protocol = conn.protocol
         /\ N!ReadOver.closed = conn.closed /\ N!ReadOver \in Conns
BY DEF ConnIInv, Conns, Keeps, Follows, N!ReadOver

\* What follows on what follows.
LEMMA KeepsTwice ==
  ASSUME NEW c, NEW d, NEW e, Keeps(c, d), Keeps(d, e)
  PROVE  Keeps(c, e)
BY DEF Keeps, Follows

LEMMA OnAcceptIInv ==
  ASSUME ConnIInv, N!OnAccept
  PROVE  ConnIInv'
<1> DEFINE p == [conn EXCEPT !.protocol = TRUE]
<1>1. /\ p \in Conns /\ p.wop = conn.wop /\ p.protocol = TRUE /\ conn.closed = FALSE
      /\ Keeps(conn, p)
  BY DEF N!OnAccept, N!Fresh, ConnIInv, Conns, Keeps, Follows
<1>2. PICK d \in {N!Close(conn, TRUE)} \cup N!StartRead(conn, "header") \cup N!StartRead(p, "header") :
        N!Becomes(d)
  BY DEF N!OnAccept
<1> HIDE DEF p
<1>3. conn \in Conns
  BY DEF ConnIInv
<1>4. CASE d = N!Close(conn, TRUE)
  BY <1>2, <1>3, <1>4, CloseKeeps, HandlerKeeps DEF N!OnAccept
<1>5. CASE d \in N!StartRead(conn, "header")
  BY <1>2, <1>3, <1>5, StartReadKeeps, HandlerKeeps DEF N!OnAccept
<1>6. CASE d \in N!StartRead(p, "header")
  <2>1. Keeps(p, d) /\ d.wop = p.wop
    BY <1>1, <1>6, StartReadKeeps
  <2>2. Keeps(conn, d) /\ d.wop = conn.wop
    BY <1>1, <2>1, KeepsTwice
  <2> QED BY <1>2, <2>2, HandlerKeeps DEF N!OnAccept
<1> QED BY <1>2, <1>4, <1>5, <1>6

LEMMA ParseHeaderIInv ==
  ASSUME ConnIInv, N!ParseHeader
  PROVE  ConnIInv'
<1> DEFINE c == N!ReadOver
           d == [c EXCEPT !.receivedFirstHeader = TRUE]
<1>1. c \in Conns /\ Keeps(conn, c) /\ c.wop = conn.wop
  BY ReadOverKeeps
<1>2. PICK e : /\ N!Becomes(e)
               /\ \/ \E force \in BOOLEAN : e = N!Close(c, force) \/ e = N!Close(d, force)
                  \/ e = c
                  \/ \E what \in {"body", "proxy"} : e \in N!StartRead(d, what)
  <2>1. PICK e \in IF conn.rop = "err" THEN {N!Close(c, TRUE)}
              ELSE IF c.closed THEN {c}
              ELSE {N!Close(c, FALSE), N!Close(d, TRUE)} \cup N!StartRead(d, "body")
                   \cup IF c.receivedFirstHeader THEN {} ELSE {N!Reading(d, "proxy")} :
          N!Becomes(e)
    BY DEF N!ParseHeader
  <2>2. N!Reading(d, "proxy") \in N!StartRead(d, "proxy")
    BY DEF N!StartRead
  <2> HIDE DEF c, d
  <2> QED BY <2>1, <2>2
<1> HIDE DEF c
<1>3. d \in Conns /\ Keeps(c, d) /\ d.wop = c.wop
  BY <1>1 DEF Conns, Keeps, Follows
<1> HIDE DEF d
<1>4. Keeps(conn, d) /\ d.wop = conn.wop
  BY <1>1, <1>3, KeepsTwice
<1>5. \A x \in Conns : Keeps(conn, x) /\ x.wop = conn.wop =>
        /\ \A force : Keeps(conn, N!Close(x, force)) /\ N!Close(x, force).wop = conn.wop
        /\ \A what \in {"body", "proxy"} : \A y \in N!StartRead(x, what) :
             Keeps(conn, y) /\ y.wop = conn.wop
  BY CloseKeeps, StartReadKeeps, KeepsTwice
<1>6. Keeps(conn, e) /\ e.wop = conn.wop
  BY <1>1, <1>2, <1>3, <1>4, <1>5
<1> QED BY <1>2, <1>6, HandlerKeeps DEF N!ParseHeader

LEMMA ParseProxyIInv ==
  ASSUME ConnIInv, N!ParseProxy
  PROVE  ConnIInv'
<1> DEFINE c == N!ReadOver
<1>1. c \in Conns /\ Keeps(conn, c) /\ c.wop = conn.wop
  BY ReadOverKeeps
<1>2. PICK e : N!Becomes(e) /\ (e = N!Close(c, TRUE) \/ e \in N!StartRead(c, "header"))
  <2>1. PICK e \in IF conn.rop = "err" THEN {N!Close(c, TRUE)}
                   ELSE {N!Close(c, TRUE)} \cup N!StartRead(c, "header") : N!Becomes(e)
    BY DEF N!ParseProxy
  <2> HIDE DEF c
  <2> QED BY <2>1
<1> HIDE DEF c
<1>3. Keeps(c, e) /\ e.wop = c.wop
  <2>1. ASSUME e = N!Close(c, TRUE) PROVE Keeps(c, e) /\ e.wop = c.wop
    BY <1>1, <2>1, CloseKeeps
  <2>2. ASSUME e \in N!StartRead(c, "header") PROVE Keeps(c, e) /\ e.wop = c.wop
    BY <1>1, <2>2, StartReadKeeps
  <2> QED BY <1>2, <2>1, <2>2
<1>4. Keeps(conn, e) /\ e.wop = conn.wop
  BY <1>1, <1>3, KeepsTwice
<1> QED BY <1>2, <1>4, HandlerKeeps DEF N!ParseProxy

LEMMA ParsePacketIInv ==
  ASSUME MaxQueued \in Nat, ConnIInv, N!ParsePacket
  PROVE  ConnIInv'
<1> DEFINE c == N!ReadOver
           f == [c EXCEPT !.receivedFirst = TRUE]
           d == [c EXCEPT !.receivedFirst = TRUE, !.protocol = TRUE]
<1>1. c \in Conns /\ Keeps(conn, c) /\ c.wop = conn.wop /\ c.closed = conn.closed
  BY ReadOverKeeps
<1>2. PICK e : /\ N!Becomes(e)
               /\ accepted' = accepted + IF Len(e.queue) > Len(conn.queue) THEN 1 ELSE 0
               /\ accepted' <= MaxQueued
               /\ \/ e = N!Close(c, TRUE)
                  \/ e = c
                  \/ ~c.closed /\ e = N!Close(f, TRUE)
                  \/ ~c.closed /\ \E x \in N!React(d, accepted + 1) : e \in N!StartRead(x, "header")
  <2>1. PICK e \in IF conn.rop = "err" THEN {N!Close(c, TRUE)}
              ELSE IF c.closed THEN {c}
              ELSE (IF c.protocol THEN {} ELSE {N!Close(f, TRUE)})
                   \cup UNION {N!StartRead(x, "header") : x \in N!React(d, accepted + 1)} :
        /\ N!Becomes(e)
        /\ accepted' = accepted + IF Len(e.queue) > Len(conn.queue) THEN 1 ELSE 0
        /\ accepted' <= MaxQueued
    BY DEF N!ParsePacket
  <2> HIDE DEF c, d, f
  <2> QED BY <2>1
<1> HIDE DEF c
<1>3. f \in Conns /\ Keeps(c, f) /\ f.wop = c.wop
  BY <1>1 DEF Conns, Keeps, Follows
<1>4. ASSUME ~c.closed PROVE d \in Conns /\ Keeps(c, d) /\ d.wop = c.wop /\ d.closed = c.closed
  BY <1>1, <1>4 DEF Conns, Keeps, Follows
<1> HIDE DEF f, d
<1>5. accepted \in Nat /\ UNCHANGED <<alive, written>> /\ conn \in Conns
  BY DEF ConnIInv, N!ParsePacket
<1>6. ASSUME Keeps(conn, e), e.wop = conn.wop PROVE ConnIInv'
  <2>1. accepted' = accepted
    BY <1>2, <1>5, <1>6 DEF Keeps, Conns
  <2> QED BY <1>2, <1>5, <1>6, <2>1, HandlerKeeps
<1>7. CASE e = c
  BY <1>1, <1>6, <1>7
<1>8. ASSUME NEW x \in {c, f}, e = N!Close(x, TRUE) PROVE ConnIInv'
  <2>1. x \in Conns /\ Keeps(conn, x) /\ x.wop = conn.wop
    BY <1>1, <1>3, KeepsTwice
  <2>2. Keeps(x, e) /\ e.wop = x.wop
    BY <1>8, <2>1, CloseKeeps
  <2> QED BY <1>6, <2>1, <2>2, KeepsTwice
<1>9. CASE ~c.closed /\ \E x \in N!React(d, accepted + 1) : e \in N!StartRead(x, "header")
  <2>1. d \in Conns /\ Keeps(conn, d) /\ d.wop = conn.wop /\ ~d.closed
    BY <1>1, <1>4, <1>9, KeepsTwice
  <2>2. PICK x \in N!React(d, accepted + 1) : e \in N!StartRead(x, "header")
    BY <1>9
  <2>3. CASE x = d \/ x = N!Close(d, FALSE)
    <3>a. Keeps(d, d)
      BY <2>1 DEF Keeps, Follows
    <3>b. N!Close(d, FALSE) \in Conns /\ Keeps(d, N!Close(d, FALSE)) /\ N!Close(d, FALSE).wop = d.wop
      BY <2>1, CloseKeeps DEF Keeps, Follows
    <3>1. x \in Conns /\ Keeps(d, x) /\ x.wop = d.wop
      BY <2>1, <2>3, <3>a, <3>b
    <3>2. Keeps(x, e) /\ e.wop = x.wop
      BY <2>2, <3>1, StartReadKeeps
    <3> QED BY <1>6, <2>1, <3>1, <3>2, KeepsTwice
  <2>4. CASE \E y \in N!Send(d, accepted + 1) : x = N!Close(y, FALSE)
    <3>1. PICK y \in N!Send(d, accepted + 1) : x = N!Close(y, FALSE)
      BY <2>4
    <3>2. /\ Follows(d, y) /\ y.queue = Append(d.queue, accepted + 1) /\ y \in Conns
          /\ d.queue = <<>> => y.wop = "pending" \/ (y.closed /\ y.wop = d.wop)
          /\ d.queue # <<>> => y.wop = d.wop
      BY <1>5, <2>1, SendKeeps DEF Follows
    <3>3. x \in Conns /\ Keeps(y, x) /\ x.wop = y.wop /\ x.closed
      BY <3>1, <3>2, CloseKeeps DEF Keeps, Follows
    <3>4. Keeps(x, e) /\ e.wop = x.wop
      BY <2>2, <3>3, StartReadKeeps
    <3>5. /\ Follows(conn, e) /\ e.queue = Append(conn.queue, accepted + 1)
          /\ e.closed /\ ~conn.closed /\ d.queue = conn.queue
      BY <1>1, <1>9, <2>1, <3>2, <3>3, <3>4 DEF Keeps, Follows
    <3>6. Len(e.queue) > Len(conn.queue)
      BY <1>5, <3>5 DEF Conns
    <3>7. /\ conn.queue = <<>> => e.wop = "pending" \/ (e.closed /\ e.wop = conn.wop)
          /\ conn.queue # <<>> => e.wop = conn.wop
      BY <2>1, <3>2, <3>3, <3>4, <3>5
    <3> QED BY <1>2, <1>5, <3>5, <3>6, <3>7, HandlerSends
  <2> QED BY <2>2, <2>3, <2>4 DEF N!React
<1> QED BY <1>2, <1>7, <1>8, <1>9

\* Not what is written, but how much, makes the queue shorter.
LEMMA OnWriteIInv ==
  ASSUME MaxQueued \in Nat, ConnIInv, N!OnWriteOperation
  PROVE  ConnIInv'
<1> DEFINE c == [conn EXCEPT !.wop = "none", !.writeTimer = FALSE, !.queue = Tail(conn.queue)]
           f == [c EXCEPT !.queue = <<>>]
           n == Len(conn.queue)
<1>1. conn \in Conns /\ conn.queue \in Seq(Nat) /\ conn.queue # <<>> /\ accepted \in Nat
      /\ n \in Nat \ {0} /\ UNCHANGED <<alive, accepted>>
  BY DEF N!OnWriteOperation, ConnIInv, Conns, Writing
<1>2. /\ Tail(conn.queue) \in Seq(Nat) /\ Len(Tail(conn.queue)) = n - 1
      /\ \A i \in 1 .. n - 1 : Tail(conn.queue)[i] = conn.queue[i + 1]
      /\ Head(conn.queue) = conn.queue[1]
  BY <1>1
<1>3. /\ c \in Conns /\ Follows(conn, c) /\ c.wop = "none" /\ c.queue = Tail(conn.queue)
      /\ c.closed = conn.closed
  BY <1>1, <1>2 DEF Conns, Follows
<1>4. PICK e \in IF conn.wop = "err" THEN {N!Close(f, TRUE)} ELSE N!AfterWrite(c) : N!Becomes(e)
  BY DEF N!OnWriteOperation
<1>5. conn.wop \in {"ok", "err"}
      /\ written' = IF conn.wop = "ok" THEN written \cup {Head(conn.queue)} ELSE written
  BY DEF N!OnWriteOperation
<1> HIDE DEF c
<1>6. f \in Conns /\ Follows(c, f) /\ f.wop = "none" /\ f.queue = <<>>
  <2>1. <<>> \in Seq(Nat)
    OBVIOUS
  <2> QED BY <1>3, <2>1 DEF Conns, Follows
<1> HIDE DEF f
<1>7. /\ n <= accepted /\ \A i \in 1 .. n : conn.queue[i] = accepted - n + i
      /\ 1 .. accepted - n \subseteq written
      /\ written \subseteq 1 .. accepted /\ \A m \in written : 1 .. m \subseteq written
  BY <1>1 DEF ConnIInv, Numbered
<1> HIDE DEF n
<1>8. CASE conn.wop = "err"
  <2>1. e = N!Close(f, TRUE)
    BY <1>4, <1>8
  <2>2. Keeps(f, e) /\ e.closed /\ e.wop = "none" /\ e.queue = <<>>
    BY <1>6, <2>1, CloseKeeps DEF Keeps
  <2>3. Follows(conn, e)
    BY <1>3, <1>6, <2>2 DEF Keeps, Follows
  <2>4. /\ conn' = e /\ dispatching' = dispatching /\ reset' = reset /\ releases' \in Nat
        /\ N!ReleasedOnce' /\ N!OpenIsKnown'
    BY <1>1, <1>4, <2>3, HandlerReleases
  <2>5. written' = written
    BY <1>5, <1>8
  <2>6. Numbered(conn', accepted', written')
    <3>1. conn' = e /\ e.closed /\ e.queue = <<>> /\ Len(e.queue) = 0 /\ accepted' = accepted
      BY <1>1, <2>2, <2>4
    <3> QED BY <1>1, <1>7, <2>5, <3>1 DEF Numbered
  <2>7. Writing(conn')
    BY <2>2, <2>4 DEF Writing
  <2> QED BY <1>1, <2>3, <2>4, <2>6, <2>7 DEF ConnIInv, Follows
<1>9. CASE conn.wop = "ok"
  <2>1. e \in N!AfterWrite(c)
    BY <1>4, <1>9
  <2>2. /\ Keeps(c, e)
        /\ e.queue # <<>> => e.closed \/ e.wop # "none"
        /\ e.wop # "none" => e.queue # <<>>
    <3>1. CASE c.queue # <<>>
      <4>1. e \in N!StartWrite(c)
        BY <2>1, <3>1 DEF N!AfterWrite
      <4> QED BY <1>3, <3>1, <4>1, StartWriteKeeps DEF Keeps
    <3>2. CASE c.queue = <<>>
      <4>1. e = c \/ e = N!Shut(c)
        BY <2>1, <3>2 DEF N!AfterWrite
      <4>2. Keeps(c, c)
        BY <1>3 DEF Keeps, Follows
      <4>3. Keeps(c, N!Shut(c)) /\ N!Shut(c).wop = c.wop
        BY <1>3, ShutKeeps
      <4>4. Keeps(c, e) /\ e.wop = c.wop
        BY <4>1, <4>2, <4>3
      <4> QED BY <1>3, <3>2, <4>4 DEF Keeps
    <3> QED BY <3>1, <3>2
  <2>3. Follows(conn, e) /\ e.queue = Tail(conn.queue)
    BY <1>3, <2>2 DEF Keeps, Follows
  <2>4. /\ conn' = e /\ dispatching' = dispatching /\ reset' = reset /\ releases' \in Nat
        /\ N!ReleasedOnce' /\ N!OpenIsKnown'
    BY <1>1, <1>4, <2>3, HandlerReleases
  <2>5. written' = written \cup {accepted - n + 1}
    BY <1>1, <1>2, <1>5, <1>7, <1>9
  <2>6. /\ Len(e.queue) = n - 1 /\ n \in Nat \ {0}
        /\ \A i \in 1 .. n - 1 : e.queue[i] = conn.queue[i + 1]
    BY <1>1, <1>2, <2>3
  <2>7. Numbered(conn', accepted', written')
    <3>1. \A i \in 1 .. Len(e.queue) : e.queue[i] = accepted - Len(e.queue) + i
      <4> TAKE i \in 1 .. Len(e.queue)
      <4>1. i \in 1 .. n - 1 /\ i + 1 \in 1 .. n
        BY <2>6
      <4>2. e.queue[i] = accepted - n + (i + 1)
        BY <1>7, <2>6, <4>1
      <4> QED BY <1>1, <2>6, <4>1, <4>2
    <3>2. 1 .. accepted - Len(e.queue) \subseteq written'
      <4>1. \A k \in 1 .. accepted - Len(e.queue) : k \in 1 .. accepted - n \/ k = accepted - n + 1
        BY <1>1, <1>7, <2>6
      <4> QED BY <1>7, <2>5, <4>1
    <3>3. written' \subseteq 1 .. accepted
      BY <1>1, <1>7, <2>5, <2>6
    <3>4. \A m \in written' : 1 .. m \subseteq written'
      <4>1. 1 .. accepted - n + 1 \subseteq written'
        BY <1>1, <2>6, <3>2
      <4> QED BY <1>7, <2>5, <4>1
    <3>5. Len(e.queue) <= accepted
      BY <1>1, <1>7, <2>6
    <3> QED BY <1>1, <2>4, <3>1, <3>2, <3>3, <3>4, <3>5 DEF Numbered
  <2>8. Writing(conn')
    BY <2>2, <2>4 DEF Writing
  <2>9. accepted' \in 0 .. MaxQueued /\ alive' \in BOOLEAN /\ dispatching' \in BOOLEAN /\ reset' \in BOOLEAN
    BY <1>1, <2>4 DEF ConnIInv
  <2> QED BY <2>3, <2>4, <2>7, <2>8, <2>9 DEF ConnIInv, Follows
<1> QED BY <1>5, <1>8, <1>9

LEMMA DispatcherIInv ==
  ASSUME MaxQueued \in Nat, ConnIInv, N!HandleTimeout \/ N!DispatcherSends \/ N!Disconnect
  PROVE  ConnIInv'
<1>1. conn \in Conns /\ accepted \in Nat
  BY DEF ConnIInv
<1>2. CASE N!HandleTimeout
  <2> DEFINE c == [conn EXCEPT !.late = FALSE]
  <2>1. c \in Conns /\ Keeps(conn, c) /\ c.wop = conn.wop
    BY <1>1 DEF Conns, Keeps, Follows
  <2>2. N!Becomes(N!Close(c, TRUE)) /\ UNCHANGED <<alive, accepted, written>>
    BY <1>2 DEF N!HandleTimeout
  <2> HIDE DEF c
  <2>3. Keeps(c, N!Close(c, TRUE)) /\ N!Close(c, TRUE).wop = c.wop
    BY <2>1, CloseKeeps
  <2>4. Keeps(conn, N!Close(c, TRUE)) /\ N!Close(c, TRUE).wop = conn.wop
    BY <2>1, <2>3, KeepsTwice
  <2> QED BY <2>2, <2>4, HandlerKeeps
<1>3. CASE N!Disconnect
  BY <1>1, <1>3, CloseKeeps, HandlerKeeps DEF N!Disconnect
<1>4. CASE N!DispatcherSends
  <2>1. PICK d \in N!Send(conn, accepted + 1) :
          N!Becomes(d) /\ accepted' = accepted + IF conn.closed THEN 0 ELSE 1
    BY <1>4 DEF N!DispatcherSends
  <2>2. UNCHANGED <<alive, written>> /\ accepted < MaxQueued
    BY <1>4 DEF N!DispatcherSends
  <2>3. CASE conn.closed
    <3>1. d = conn /\ accepted' = accepted
      BY <1>1, <2>1, <2>3 DEF N!Send
    <3>2. Keeps(conn, d)
      BY <1>1, <3>1 DEF Keeps, Follows
    <3> QED BY <2>1, <2>2, <3>1, <3>2, HandlerKeeps
  <2>4. CASE ~conn.closed
    <3>1. /\ Follows(conn, d) /\ d.queue = Append(conn.queue, accepted + 1)
          /\ conn.queue = <<>> => d.wop = "pending" \/ (d.closed /\ d.wop = conn.wop)
          /\ conn.queue # <<>> => d.wop = conn.wop
      BY <1>1, <2>1, <2>4, SendKeeps
    <3>2. accepted' = accepted + 1 /\ accepted + 1 <= MaxQueued
      BY <1>1, <2>1, <2>2, <2>4
    <3> QED BY <2>1, <2>2, <2>4, <3>1, <3>2, HandlerSends
  <2> QED BY <2>3, <2>4
<1> QED BY <1>2, <1>3, <1>4

\* Steps that change what no handler has to do with.
LEMMA AsideIInv ==
  ASSUME ConnIInv, conn' \in Conns, conn'.closed = conn.closed, conn'.protocol = conn.protocol,
         conn'.queue = conn.queue, conn'.wop = "none" <=> conn.wop = "none",
         conn'.open => conn.open /\ alive' = alive /\ conn'.registered = conn.registered,
         alive' \in BOOLEAN, dispatching' \in BOOLEAN, dispatching' => dispatching, reset' \in BOOLEAN,
         UNCHANGED <<accepted, written, releases>>
  PROVE  ConnIInv'
<1>1. N!ReleasedOnce' /\ N!OpenIsKnown'
  BY DEF ConnIInv, N!ReleasedOnce, N!OpenIsKnown
<1>2. Numbered(conn', accepted', written')
  BY DEF ConnIInv, Numbered
<1>3. Writing(conn')
  BY DEF ConnIInv, Writing
<1> QED BY <1>1, <1>2, <1>3 DEF ConnIInv

LEMMA SocketIInv ==
  ASSUME ConnIInv,
         \/ N!CloseAll \/ N!Destructor \/ N!ReadCompletes \/ N!WriteCompletes
         \/ N!PeerResets \/ N!TimerExpires
  PROVE  ConnIInv'
<1>1. conn \in Conns /\ alive \in BOOLEAN /\ dispatching \in BOOLEAN /\ reset \in BOOLEAN
  BY DEF ConnIInv
<1>2. CASE N!CloseAll
  <2>1. conn' = conn \/ conn' = [conn EXCEPT !.registered = FALSE, !.open = FALSE]
    BY <1>2 DEF N!CloseAll
  <2>2. /\ conn' \in Conns /\ conn'.closed = conn.closed /\ conn'.protocol = conn.protocol
        /\ conn'.queue = conn.queue /\ conn'.wop = conn.wop
        /\ conn'.open => conn.open /\ conn'.registered = conn.registered
    BY <1>1, <2>1 DEF Conns
  <2> QED BY <1>1, <1>2, <2>2, AsideIInv DEF N!CloseAll
<1>3. CASE N!Destructor
  <2>1. conn' = N!Shut(conn)
    BY <1>3 DEF N!Destructor
  <2>2. /\ conn' \in Conns /\ conn'.closed = conn.closed /\ conn'.protocol = conn.protocol
        /\ conn'.queue = conn.queue /\ conn'.wop = conn.wop /\ ~conn'.open
    BY <1>1, <2>1, ShutKeeps DEF Keeps, Follows
  <2> QED BY <1>1, <1>3, <2>2, AsideIInv DEF N!Destructor
<1>4. CASE N!ReadCompletes
  <2>1. N!Result \in {"ok", "err"} /\ conn' = [conn EXCEPT !.rop = N!Result]
    BY <1>4 DEF N!ReadCompletes, N!Result
  <2>2. /\ conn' \in Conns /\ conn'.closed = conn.closed /\ conn'.protocol = conn.protocol
        /\ conn'.queue = conn.queue /\ conn'.wop = conn.wop /\ conn'.open = conn.open
        /\ conn'.registered = conn.registered
    BY <1>1, <2>1 DEF Conns
  <2> QED BY <1>1, <1>4, <2>2, AsideIInv DEF N!ReadCompletes
<1>5. CASE N!WriteCompletes
  <2>1. N!Result \in {"ok", "err"} /\ conn' = [conn EXCEPT !.wop = N!Result] /\ conn.wop = "pending"
    BY <1>5 DEF N!WriteCompletes, N!Result
  <2>2. /\ conn' \in Conns /\ conn'.closed = conn.closed /\ conn'.protocol = conn.protocol
        /\ conn'.queue = conn.queue /\ conn'.wop # "none" /\ conn'.open = conn.open
        /\ conn'.registered = conn.registered
    BY <1>1, <2>1 DEF Conns
  <2> QED BY <1>1, <1>5, <2>1, <2>2, AsideIInv DEF N!WriteCompletes
<1>6. CASE N!PeerResets
  BY <1>1, <1>6, AsideIInv DEF N!PeerResets
<1>7. CASE N!TimerExpires
  <2>1. \/ conn' = [conn EXCEPT !.readTimer = FALSE, !.late = TRUE]
        \/ conn' = [conn EXCEPT !.writeTimer = FALSE, !.late = TRUE]
    BY <1>7 DEF N!TimerExpires
  <2>2. /\ conn' \in Conns /\ conn'.closed = conn.closed /\ conn'.protocol = conn.protocol
        /\ conn'.queue = conn.queue /\ conn'.wop = conn.wop /\ conn'.open = conn.open
        /\ conn'.registered = conn.registered
    BY <1>1, <2>1 DEF Conns
  <2> QED BY <1>1, <1>7, <2>2, AsideIInv DEF N!TimerExpires
<1> QED BY <1>2, <1>3, <1>4, <1>5, <1>6, <1>7

LEMMA ConnInitIInv ==
  ASSUME MaxQueued \in Nat, N!Init
  PROVE  ConnIInv
<1>1. conn.queue = <<>> /\ Len(conn.queue) = 0 /\ written = {} /\ accepted = 0
  BY DEF N!Init, N!Fresh
<1>2. Numbered(conn, accepted, written)
  BY <1>1 DEF Numbered
<1>3. conn \in Conns
  BY DEF N!Init, N!Fresh, Conns
<1>4. conn.closed = FALSE /\ conn.open = TRUE /\ conn.registered = TRUE /\ conn.wop = "none"
  BY DEF N!Init, N!Fresh
<1>5. alive = TRUE /\ releases = 0 /\ dispatching = TRUE /\ reset = FALSE
  BY DEF N!Init
<1>6. N!ReleasedOnce /\ N!OpenIsKnown /\ Writing(conn)
  BY <1>1, <1>4, <1>5 DEF Writing, N!ReleasedOnce, N!OpenIsKnown
<1>7. accepted \in 0 .. MaxQueued
  BY <1>1
<1>8. releases \in Nat
  BY <1>5
<1>9. alive \in BOOLEAN /\ dispatching \in BOOLEAN /\ reset \in BOOLEAN
  BY <1>5
<1> QED BY <1>2, <1>3, <1>6, <1>7, <1>8, <1>9, Zenon DEF ConnIInv

LEMMA ConnStepIInv ==
  ASSUME MaxQueued \in Nat, ConnIInv, [N!Next]_(N!vars)
  PROVE  ConnIInv'
<1>1. CASE N!NetworkThread
  BY <1>1, OnAcceptIInv, ParseHeaderIInv, ParseProxyIInv, ParsePacketIInv, OnWriteIInv, DispatcherIInv
     DEF N!NetworkThread
<1>2. CASE N!DispatcherSends \/ N!Disconnect
  BY <1>2, DispatcherIInv
<1>3. CASE N!CloseAll \/ N!Destructor \/ N!ReadCompletes \/ N!WriteCompletes \/ N!PeerResets
           \/ N!TimerExpires
  BY <1>3, SocketIInv
<1>4. CASE UNCHANGED N!vars
  BY <1>4 DEF N!vars, ConnIInv, N!ReleasedOnce, N!OpenIsKnown
<1> QED BY <1>1, <1>2, <1>3, <1>4 DEF N!Next

-----------------------------------------------------------------------------
(* The buffers of the protocols.                                           *)
(*                                                                         *)
(* What has been handed over and what is in the buffer are, one after the  *)
(* other, the numbers of all messages; and a buffer of several messages    *)
(* has room for its padding, so only one with a single, greatest message   *)
(* is handed over without.                                                 *)

\* OutputAssumption of OutputPool, with the IsFiniteSet that the library's theorems use.
OutputConstants ==
  IsFiniteSet(Protocols) /\ Sizes \subseteq Nat /\ MaxMessages \in Nat \ {0}

Buffers == [msgs : Seq(Nat), length : Nat]

\* A buffer of several messages leaves room for its padding.
Buffered(b) ==
  /\ b \in Buffers /\ b.length <= O!MaxBodyLength - O!InitialPosition - 1
  /\ Len(b.msgs) <= 1 \/ b.length <= O!MaxProtocolBodyLength
  /\ b.msgs = <<>> => b.length = 0

\* h and then m are the numbers up to n.
Ordered(h, m, n) ==
  /\ Len(h) + Len(m) = n
  /\ \A i \in 1 .. Len(h) : h[i] = i
  /\ \A i \in 1 .. Len(m) : m[i] = Len(h) + i

LoneGreatest(b) == Len(b.msgs) = 1 /\ b.length = O!MaxBodyLength - O!InitialPosition - 1

OutputIInv ==
  /\ bufferedProtocols \subseteq Protocols
  /\ pool_events \in Nat /\ pool_events <= Cardinality({p \in Protocols : state[p] # "new"})
  /\ state \in [Protocols -> {"new", "in", "closed", "released"}]
  /\ pool_written \in [Protocols -> 0 .. MaxMessages]
  /\ handed \in [Protocols -> Seq(Nat)]
  /\ outputBuffer \in [Protocols -> Buffers]
  /\ O!Served
  /\ \A p \in Protocols :
       /\ Buffered(outputBuffer[p])
       /\ state[p] \in {"new", "in"} => Ordered(handed[p], outputBuffer[p].msgs, pool_written[p])
       /\ state[p] = "new" => pool_written[p] = 0
  /\ \A b \in odd : LoneGreatest(b)

LEMMA OrderedIsAll ==
  ASSUME NEW h \in Seq(Nat), NEW m \in Seq(Nat), NEW n \in Nat, Ordered(h, m, n)
  PROVE  h \o m = [i \in 1 .. n |-> i]
<1> DEFINE s == h \o m
<1>1. s \in Seq(Nat) /\ Len(s) = n /\ Len(h) \in Nat /\ Len(m) \in Nat
  BY DEF Ordered
<1>2. ASSUME NEW i \in 1 .. n PROVE s[i] = i
  <2>1. CASE i <= Len(h)
    BY <1>1, <2>1 DEF Ordered
  <2>2. CASE i > Len(h)
    <3>1. i - Len(h) \in 1 .. Len(m)
      BY <1>1, <2>2 DEF Ordered
    <3>2. s[i] = m[i - Len(h)]
      BY <1>1, <2>2
    <3> QED BY <1>1, <3>1, <3>2 DEF Ordered
  <2> QED BY <1>1, <2>1, <2>2
<1> HIDE DEF s
<1>3. DOMAIN s = 1 .. n
  BY <1>1
<1>4. s = [i \in 1 .. n |-> s[i]]
  BY <1>1, <1>3
<1>5. s = [i \in 1 .. n |-> i]
  BY <1>2, <1>4
<1> QED BY <1>5 DEF s

\* The next number comes, behind what is queued or to what is handed on with it.
LEMMA OrderedGrows ==
  ASSUME NEW h \in Seq(Nat), NEW m \in Seq(Nat), NEW n \in Nat, Ordered(h, m, n)
  PROVE  Ordered(h \o m, <<n + 1>>, n + 1) /\ Ordered(h, Append(m, n + 1), n + 1)
<1>1. Len(h) \in Nat /\ Len(m) \in Nat /\ Len(h) + Len(m) = n
  BY DEF Ordered
<1>2. Ordered(h \o m, <<n + 1>>, n + 1)
  <2>1. h \o m = [i \in 1 .. n |-> i] /\ Len(h \o m) = n
    BY <1>1, OrderedIsAll
  <2> DEFINE u == h \o m
             t == <<n + 1>>
  <2>2. Len(u) = n /\ \A i \in 1 .. n : u[i] = i
    BY <2>1
  <2>3. Len(t) = 1 /\ t[1] = n + 1
    OBVIOUS
  <2> HIDE DEF u, t
  <2>4. Ordered(u, t, n + 1)
    BY <2>2, <2>3 DEF Ordered
  <2> QED BY <2>4 DEF u, t
<1>3. Ordered(h, Append(m, n + 1), n + 1)
  <2> DEFINE t == Append(m, n + 1)
  <2>1. /\ Len(t) = Len(m) + 1 /\ t[Len(m) + 1] = n + 1
        /\ \A i \in 1 .. Len(m) : t[i] = m[i]
    BY <1>1
  <2> HIDE DEF t
  <2>a. /\ \A i \in 1 .. Len(h) : h[i] = i
        /\ \A i \in 1 .. Len(m) : m[i] = Len(h) + i
    BY DEF Ordered
  <2>b. \A i \in 1 .. Len(t) : t[i] = Len(h) + i
    <3> TAKE i \in 1 .. Len(t)
    <3>1. CASE i = Len(m) + 1
      BY <1>1, <2>1, <3>1
    <3>2. CASE i \in 1 .. Len(m)
      BY <2>1, <2>a, <3>2
    <3> QED BY <1>1, <2>1, <3>1, <3>2
  <2>2. Ordered(h, t, n + 1)
    BY <1>1, <2>1, <2>a, <2>b DEF Ordered
  <2> QED BY <2>2 DEF t
<1> QED BY <1>2, <1>3

\* Only a lone message of the greatest length finds no room for its padding.
LEMMA UnpaddedIsGreatest ==
  ASSUME NEW b, Buffered(b), b # O!NoBuffer, ~O!Padded(b)
  PROVE  LoneGreatest(b)
<1> DEFINE n == b.length
<1>1. b \in Buffers /\ n \in Nat /\ n <= 24575 /\ Len(b.msgs) \in Nat
  BY DEF Buffered, Buffers, O!MaxBodyLength, O!BufferSize, O!InitialPosition
<1>2. O!Padding(b) = (-(n + 2)) % 8
  BY DEF O!Padding
<1>3. 4 + n + ((-(n + 2)) % 8) >= 24580
  BY <1>1, <1>2 DEF O!Padded, O!MaxBodyLength, O!BufferSize, O!InitialPosition
<1> HIDE DEF n
<1>4. n = 24575
  BY <1>1, <1>3
<1>5. Len(b.msgs) <= 1 /\ b.msgs # <<>>
  BY <1>4 DEF n, Buffered, O!MaxProtocolBodyLength, O!MaxBodyLength, O!BufferSize
<1>6. Len(b.msgs) = 1
  <2>1. b.msgs \in Seq(Nat)
    BY <1>1 DEF Buffers
  <2> DEFINE m == b.msgs
  <2>2. m \in Seq(Nat) /\ m # <<>> /\ Len(m) <= 1
    BY <1>5, <2>1
  <2> HIDE DEF m
  <2>a. Len(m) \in Nat /\ Len(m) # 0
    BY <2>2
  <2>b. Len(m) <= 1
    BY <2>2
  <2>3. Len(m) = 1
    BY <2>a, <2>b
  <2> QED BY <2>3 DEF m
<1> QED BY <1>4, <1>6 DEF n, LoneGreatest, O!MaxBodyLength, O!BufferSize, O!InitialPosition

LEMMA PoolCardinality ==
  ASSUME NEW X
  PROVE  O!Cardinality(X) = Cardinality(X)
BY DEF O!Cardinality, Cardinality

LEMMA OutputIInvImpliesInv ==
  ASSUME OutputConstants, OutputIInv
  PROVE  O!OutputInv
<1>1. {p \in Protocols : state[p] # "new"} \in SUBSET Protocols
  OBVIOUS
<1>2. /\ Cardinality({p \in Protocols : state[p] # "new"}) <= Cardinality(Protocols)
      /\ Cardinality({p \in Protocols : state[p] # "new"}) \in Nat /\ Cardinality(Protocols) \in Nat
  BY <1>1, FS_Subset, FS_CardinalityType DEF OutputConstants
<1>3. O!OutTypeOK
  <2>1. pool_events \in 0 .. Cardinality(Protocols)
    BY <1>2 DEF OutputIInv
  <2>2. \A p \in Protocols : outputBuffer[p].length \in Nat /\ pool_written[p] \in 0 .. MaxMessages
    BY DEF OutputIInv, Buffers
  <2>3. bufferedProtocols \subseteq Protocols
        /\ state \in [Protocols -> {"new", "in", "closed", "released"}]
    BY DEF OutputIInv
  <2> QED BY <2>1, <2>2, <2>3, PoolCardinality DEF O!OutTypeOK
<1>4. O!InOrder
  <2> SUFFICES ASSUME NEW p \in Protocols, state[p] = "in"
               PROVE  handed[p] \o outputBuffer[p].msgs = [i \in 1 .. pool_written[p] |-> i]
    BY DEF O!InOrder
  <2>1. handed[p] \in Seq(Nat) /\ outputBuffer[p].msgs \in Seq(Nat) /\ pool_written[p] \in Nat
    BY DEF OutputIInv, Buffers
  <2>2. Ordered(handed[p], outputBuffer[p].msgs, pool_written[p])
    BY DEF OutputIInv
  <2> QED BY <2>1, <2>2, OrderedIsAll
<1>5. O!Fits
  <2>1. ASSUME NEW p \in Protocols PROVE O!InitialPosition + outputBuffer[p].length + 7 < O!BufferSize
    <3>1. outputBuffer[p] \in Buffers /\ Buffered(outputBuffer[p])
      BY DEF OutputIInv
    <3> QED BY <3>1 DEF Buffers, Buffered, O!MaxBodyLength, O!BufferSize, O!InitialPosition
  <2>2. \A b \in odd : Len(b.msgs) = 1 /\ b.length = O!MaxBodyLength - O!InitialPosition - 1
    BY DEF OutputIInv, LoneGreatest
  <2> QED BY <2>1, <2>2 DEF O!Fits
<1> QED BY <1>3, <1>4, <1>5 DEF OutputIInv, O!OutputInv

\* What a message does to the buffer it is written to, and to what is handed on.
LEMMA Written ==
  ASSUME OutputConstants, OutputIInv, NEW p \in Protocols, NEW size \in Sizes, O!Write(p, size),
         pool_written[p] < MaxMessages
  PROVE  /\ pool_written' \in [Protocols -> 0 .. MaxMessages]
         /\ handed' \in [Protocols -> Seq(Nat)]
         /\ outputBuffer' \in [Protocols -> Buffers]
         /\ \A q \in Protocols \ {p} : /\ pool_written'[q] = pool_written[q]
                                       /\ handed'[q] = handed[q]
                                       /\ outputBuffer'[q] = outputBuffer[q]
         /\ Buffered(outputBuffer'[p])
         /\ state[p] \in {"new", "in"} => Ordered(handed'[p], outputBuffer'[p].msgs, pool_written'[p])
         /\ \A b \in odd' : LoneGreatest(b)
<1> DEFINE b == outputBuffer[p]
           full == b # O!NoBuffer /\ O!TooLong(b, size)
           old == IF full THEN O!NoBuffer ELSE b
           n == pool_written[p]
           new == [msgs |-> Append(old.msgs, n + 1), length |-> old.length + size]
<1>1. /\ b \in Buffers /\ Buffered(b) /\ b.msgs \in Seq(Nat) /\ b.length \in Nat
      /\ n \in Nat /\ n + 1 <= MaxMessages /\ size \in Nat /\ handed[p] \in Seq(Nat)
      /\ MaxMessages \in Nat
  BY DEF OutputConstants, OutputIInv, Buffers
<1>2. /\ pool_written' = [pool_written EXCEPT ![p] = n + 1]
      /\ O!InitialPosition + size < O!MaxBodyLength
  BY DEF O!Write
<1>3. pool_written' \in [Protocols -> 0 .. MaxMessages] /\ pool_written'[p] = n + 1
      /\ \A q \in Protocols \ {p} : pool_written'[q] = pool_written[q]
  BY <1>1, <1>2 DEF OutputIInv
<1>4. outputBuffer' = [outputBuffer EXCEPT ![p] = new]
  BY <1>3 DEF O!Write
<1>5. handed' = IF full THEN [handed EXCEPT ![p] = handed[p] \o O!Sent(p, b)] ELSE handed
  BY DEF O!Write
<1>6. odd' = IF full /\ ~O!Padded(b) THEN odd \cup {b} ELSE odd
  BY DEF O!Write
<1>7. old \in Buffers /\ old.msgs \in Seq(Nat) /\ old.length \in Nat
      /\ (old = b \/ (old.msgs = <<>> /\ old.length = 0))
  <2>1. O!NoBuffer \in Buffers /\ O!NoBuffer.msgs = <<>> /\ O!NoBuffer.length = 0
    BY DEF O!NoBuffer, Buffers
  <2>2. old = O!NoBuffer \/ old = b
    OBVIOUS
  <2> HIDE DEF old
  <2>3. O!NoBuffer.msgs \in Seq(Nat) /\ O!NoBuffer.length \in Nat
    BY <2>1
  <2> QED BY <1>1, <2>1, <2>2, <2>3
<1>8. old.msgs # <<>> => old = b /\ ~full /\ b # O!NoBuffer /\ ~O!TooLong(b, size)
  BY DEF O!NoBuffer
<1>a. old.msgs = <<>> => old.length = 0
  BY <1>1, <1>7 DEF Buffered
<1>9. new \in Buffers
  BY <1>1, <1>7 DEF Buffers
<1>10. Buffered(new)
  <2>1. new.length = old.length + size /\ new.msgs # <<>> /\ Len(new.msgs) = Len(old.msgs) + 1
        /\ Len(old.msgs) \in Nat
    BY <1>1, <1>7
  <2>2. CASE old.msgs = <<>>
    <3>1. Len(new.msgs) = 1 /\ new.length = size
      BY <1>1, <1>a, <2>1, <2>2
    <3> QED BY <1>1, <1>2, <1>9, <2>1, <3>1 DEF Buffered, O!MaxBodyLength, O!BufferSize, O!InitialPosition
  <2>3. CASE old.msgs # <<>>
    <3>1. new.length <= O!MaxProtocolBodyLength
      BY <1>1, <1>8, <2>1, <2>3
         DEF O!TooLong, O!MaxProtocolBodyLength, O!MaxBodyLength, O!BufferSize
    <3> QED BY <1>9, <2>1, <3>1
            DEF Buffered, Buffers, O!MaxProtocolBodyLength, O!MaxBodyLength, O!BufferSize, O!InitialPosition
  <2> QED BY <2>2, <2>3
<1>11. outputBuffer' \in [Protocols -> Buffers] /\ outputBuffer'[p] = new
       /\ \A q \in Protocols \ {p} : outputBuffer'[q] = outputBuffer[q]
  BY <1>4, <1>9 DEF OutputIInv
<1>12. handed' \in [Protocols -> Seq(Nat)]
       /\ handed'[p] = (IF full THEN handed[p] \o O!Sent(p, b) ELSE handed[p])
       /\ \A q \in Protocols \ {p} : handed'[q] = handed[q]
  <2>1. O!Sent(p, b) \in Seq(Nat)
    BY <1>1 DEF O!Sent
  <2>2. handed[p] \o O!Sent(p, b) \in Seq(Nat)
    BY <1>1, <2>1
  <2> QED BY <1>5, <2>2 DEF OutputIInv
<1>13. ASSUME state[p] \in {"new", "in"}
       PROVE  Ordered(handed'[p], new.msgs, n + 1)
  <2>1. Ordered(handed[p], b.msgs, n)
    BY <1>13 DEF OutputIInv
  <2>2. O!Sent(p, b) = b.msgs
    BY <1>13 DEF O!Sent
  <2> DEFINE h == handed[p]
             m == b.msgs
  <2>a. h \in Seq(Nat) /\ m \in Seq(Nat) /\ Len(h) \in Nat /\ Len(m) \in Nat
    BY <1>1
  <2>3. Ordered(h \o m, <<n + 1>>, n + 1) /\ Ordered(h, Append(m, n + 1), n + 1)
    BY <1>1, <2>1, OrderedGrows
  <2>4. CASE full
    <3>1. handed'[p] = h \o m
      BY <1>12, <2>2, <2>4
    <3>2. old.msgs = <<>>
      BY <2>4 DEF O!NoBuffer
    <3>3. new.msgs = <<n + 1>>
      <4>1. new.msgs = Append(old.msgs, n + 1)
        OBVIOUS
      <4>2. Append(<<>>, n + 1) = <<n + 1>>
        OBVIOUS
      <4> QED BY <3>2, <4>1, <4>2, Zenon
    <3> QED BY <2>3, <3>1, <3>3, Zenon
  <2>5. CASE ~full
    <3>1. handed'[p] = h /\ new.msgs = Append(m, n + 1)
      BY <1>12, <2>5
    <3> QED BY <2>3, <3>1, Zenon
  <2> QED BY <2>4, <2>5
<1>14. \A x \in odd' : LoneGreatest(x)
  BY <1>1, <1>6, UnpaddedIsGreatest DEF OutputIInv
<1> QED BY <1>3, <1>10, <1>11, <1>12, <1>13, <1>14

Begun == {p \in Protocols : state[p] # "new"}

LEMMA LoginOIInv ==
  ASSUME OutputConstants, OutputIInv, NEW p \in Protocols, O!Login(p)
  PROVE  OutputIInv'
<1>1. state[p] = "new" /\ state' = [state EXCEPT ![p] = "in"] /\ pool_written[p] = 0
  BY DEF O!Login, OutputIInv
<1>2. PICK size \in Sizes : O!Write(p, size)
  BY DEF O!Login
<1>3. pool_written[p] < MaxMessages
  BY <1>1 DEF OutputConstants
<1>4. /\ pool_written' \in [Protocols -> 0 .. MaxMessages]
      /\ handed' \in [Protocols -> Seq(Nat)]
      /\ outputBuffer' \in [Protocols -> Buffers]
      /\ \A q \in Protocols \ {p} : /\ pool_written'[q] = pool_written[q]
                                    /\ handed'[q] = handed[q]
                                    /\ outputBuffer'[q] = outputBuffer[q]
      /\ Buffered(outputBuffer'[p])
      /\ state[p] \in {"new", "in"} => Ordered(handed'[p], outputBuffer'[p].msgs, pool_written'[p])
      /\ \A b \in odd' : LoneGreatest(b)
  BY <1>2, <1>3, Written
<1>5. state' \in [Protocols -> {"new", "in", "closed", "released"}] /\ state'[p] = "in"
      /\ \A q \in Protocols \ {p} : state'[q] = state[q]
  BY <1>1 DEF OutputIInv
<1>6. pool_events' \in Nat /\ pool_events' <= Cardinality(Begun')
  <2>1. Begun' = Begun \cup {p} /\ p \notin Begun
    BY <1>1, <1>5 DEF Begun
  <2>2. IsFiniteSet(Begun)
    BY FS_Subset DEF Begun, OutputConstants
  <2>3. Cardinality(Begun') = Cardinality(Begun) + 1 /\ Cardinality(Begun) \in Nat
    BY <2>1, <2>2, FS_AddElement, FS_CardinalityType
  <2>4. pool_events \in Nat /\ pool_events <= Cardinality(Begun)
    BY DEF OutputIInv, Begun
  <2>5. pool_events' = pool_events + 1 \/ pool_events' = pool_events
    BY DEF O!Login
  <2> QED BY <2>3, <2>4, <2>5
<1>7. bufferedProtocols' \subseteq Protocols /\ O!Served'
  BY DEF O!Login, OutputIInv, O!Served
<1>8. ASSUME NEW q \in Protocols
      PROVE  /\ Buffered(outputBuffer'[q])
             /\ state'[q] \in {"new", "in"} => Ordered(handed'[q], outputBuffer'[q].msgs, pool_written'[q])
             /\ state'[q] = "new" => pool_written'[q] = 0
  <2>1. CASE q = p
    BY <1>1, <1>4, <1>5, <2>1
  <2>2. CASE q # p
    BY <1>4, <1>5, <2>2 DEF OutputIInv
  <2> QED BY <2>1, <2>2
<1> QED BY <1>4, <1>5, <1>6, <1>7, <1>8 DEF OutputIInv, Begun

LEMMA TellOIInv ==
  ASSUME OutputConstants, OutputIInv, NEW p \in Protocols, O!Tell(p)
  PROVE  OutputIInv'
<1>1. state[p] \in {"in", "closed"} /\ UNCHANGED <<bufferedProtocols, pool_events, state>>
      /\ pool_written[p] < MaxMessages
  BY DEF O!Tell
<1>2. PICK size \in Sizes : O!Write(p, size)
  BY DEF O!Tell
<1>4. /\ pool_written' \in [Protocols -> 0 .. MaxMessages]
      /\ handed' \in [Protocols -> Seq(Nat)]
      /\ outputBuffer' \in [Protocols -> Buffers]
      /\ \A q \in Protocols \ {p} : /\ pool_written'[q] = pool_written[q]
                                    /\ handed'[q] = handed[q]
                                    /\ outputBuffer'[q] = outputBuffer[q]
      /\ Buffered(outputBuffer'[p])
      /\ state[p] \in {"new", "in"} => Ordered(handed'[p], outputBuffer'[p].msgs, pool_written'[p])
      /\ \A b \in odd' : LoneGreatest(b)
  BY <1>1, <1>2, Written
<1>8. ASSUME NEW q \in Protocols
      PROVE  /\ Buffered(outputBuffer'[q])
             /\ state'[q] \in {"new", "in"} => Ordered(handed'[q], outputBuffer'[q].msgs, pool_written'[q])
             /\ state'[q] = "new" => pool_written'[q] = 0
  <2>1. CASE q = p
    BY <1>1, <1>4, <2>1
  <2>2. CASE q # p
    BY <1>1, <1>4, <2>2 DEF OutputIInv
  <2> QED BY <2>1, <2>2
<1>9. O!Served'
  BY <1>1 DEF OutputIInv, O!Served
<1> QED BY <1>1, <1>4, <1>8, <1>9 DEF OutputIInv

LEMMA CloseOIInv ==
  ASSUME OutputConstants, OutputIInv, NEW p \in Protocols, O!Close(p) \/ O!Release(p)
  PROVE  OutputIInv'
<1>1. /\ state[p] \notin {"new"} /\ UNCHANGED <<pool_events, outputBuffer, pool_written, handed, odd>>
      /\ state' \in [Protocols -> {"new", "in", "closed", "released"}]
      /\ state'[p] \notin {"new", "in"} /\ \A q \in Protocols \ {p} : state'[q] = state[q]
      /\ bufferedProtocols' \subseteq bufferedProtocols
  BY DEF O!Close, O!Release, OutputIInv
<1>2. {q \in Protocols : state'[q] # "new"} = {q \in Protocols : state[q] # "new"}
  BY <1>1
<1>3. O!Served'
  BY <1>1 DEF OutputIInv, O!Served
<1>4. ASSUME NEW q \in Protocols
      PROVE  /\ Buffered(outputBuffer'[q])
             /\ state'[q] \in {"new", "in"} => Ordered(handed'[q], outputBuffer'[q].msgs, pool_written'[q])
             /\ state'[q] = "new" => pool_written'[q] = 0
  BY <1>1 DEF OutputIInv
<1> QED BY <1>1, <1>2, <1>3, <1>4 DEF OutputIInv

LEMMA SendAllOIInv ==
  ASSUME OutputConstants, OutputIInv, O!SendAll
  PROVE  OutputIInv'
<1> DEFINE full == {p \in bufferedProtocols : outputBuffer[p] # O!NoBuffer}
<1>1. /\ outputBuffer' = [p \in Protocols |-> IF p \in full THEN O!NoBuffer ELSE outputBuffer[p]]
      /\ handed' = [p \in Protocols |-> IF p \in full THEN handed[p] \o O!Sent(p, outputBuffer[p])
                                                      ELSE handed[p]]
      /\ odd' = odd \cup {outputBuffer[p] : p \in {q \in full : ~O!Padded(outputBuffer[q])}}
      /\ pool_events' = IF bufferedProtocols = {} THEN pool_events - 1 ELSE pool_events
      /\ pool_events > 0 /\ UNCHANGED <<bufferedProtocols, state, pool_written>>
  BY DEF O!SendAll, O!Ends
<1>2. full \subseteq Protocols /\ \A p \in full : outputBuffer[p] # O!NoBuffer
  BY DEF OutputIInv
<1> HIDE DEF full
<1>3. O!NoBuffer \in Buffers /\ Buffered(O!NoBuffer) /\ O!NoBuffer.msgs = <<>>
  <2>1. <<>> \in Seq(Nat) /\ Len(<<>>) = 0
    OBVIOUS
  <2> QED BY <2>1 DEF O!NoBuffer, Buffers, Buffered, O!MaxBodyLength, O!BufferSize, O!InitialPosition
<1>4. outputBuffer' \in [Protocols -> Buffers] /\ \A p \in Protocols : Buffered(outputBuffer'[p])
  BY <1>1, <1>3 DEF OutputIInv
<1>5. \A p \in Protocols : /\ handed[p] \in Seq(Nat) /\ outputBuffer[p].msgs \in Seq(Nat)
                           /\ pool_written[p] \in Nat /\ O!Sent(p, outputBuffer[p]) \in Seq(Nat)
  BY DEF OutputIInv, Buffers, O!Sent
<1>6. handed' \in [Protocols -> Seq(Nat)]
  BY <1>1, <1>5 DEF OutputIInv
<1>7. ASSUME NEW p \in Protocols, state[p] \in {"new", "in"}
      PROVE  Ordered(handed'[p], outputBuffer'[p].msgs, pool_written'[p])
  <2> DEFINE h == handed[p]
             m == outputBuffer[p].msgs
             n == pool_written[p]
  <2>1. Ordered(h, m, n) /\ h \in Seq(Nat) /\ m \in Seq(Nat) /\ n \in Nat
    BY <1>5, <1>7 DEF OutputIInv
  <2>2. CASE p \in full
    <3>1. handed'[p] = h \o m /\ outputBuffer'[p].msgs = <<>> /\ pool_written'[p] = n
      BY <1>1, <1>3, <1>7, <2>2 DEF O!Sent
    <3>2. h \o m = [i \in 1 .. n |-> i]
      BY <2>1, OrderedIsAll
    <3> DEFINE u == h \o m
    <3>0. Len(h) + Len(m) = n
      BY <2>1 DEF Ordered
    <3>3. Len(u) = n /\ \A i \in 1 .. n : u[i] = i
      <4> HIDE DEF h, m, n
      <4>1. Len(u) = Len(h) + Len(m)
        BY <2>1
      <4>2. u = [i \in 1 .. n |-> i]
        BY <3>2
      <4>3. \A i \in 1 .. n : u[i] = i
        <5> HIDE DEF u
        <5> QED BY <4>2
      <4> QED BY <3>0, <4>1, <4>3
    <3> HIDE DEF u
    <3>4. Len(<<>>) = 0
      OBVIOUS
    <3>5. Ordered(u, <<>>, n)
      BY <2>1, <3>3, <3>4 DEF Ordered
    <3> QED BY <3>1, <3>5, Zenon DEF u
  <2>3. CASE p \notin full
    BY <1>1, <2>1, <2>3
  <2> QED BY <2>2, <2>3
<1>8. \A b \in odd' : LoneGreatest(b)
  BY <1>1, <1>2, UnpaddedIsGreatest DEF OutputIInv
<1>9. O!Served'
  BY <1>1 DEF OutputIInv, O!Served
<1>10. pool_events' \in Nat /\ pool_events' <= pool_events
  BY <1>1 DEF OutputIInv
<1>11. Cardinality(Begun) \in Nat /\ Begun' = Begun
  <2>1. IsFiniteSet(Begun)
    BY FS_Subset DEF Begun, OutputConstants
  <2> QED BY <1>1, <2>1, FS_CardinalityType DEF Begun
<1>12. pool_events' <= Cardinality(Begun')
  <2>1. pool_events \in Nat /\ pool_events <= Cardinality(Begun)
    BY DEF OutputIInv, Begun
  <2>2. Cardinality(Begun') = Cardinality(Begun)
    BY <1>11
  <2> QED BY <1>10, <1>11, <2>1, <2>2
<1> QED BY <1>1, <1>4, <1>6, <1>7, <1>8, <1>9, <1>10, <1>12 DEF OutputIInv, Begun

LEMMA OutputInitIInv ==
  ASSUME OutputConstants, O!Init
  PROVE  OutputIInv
<1>1. /\ bufferedProtocols = {} /\ pool_events = 0 /\ odd = {}
      /\ outputBuffer = [p \in Protocols |-> O!NoBuffer]
      /\ state = [p \in Protocols |-> "new"]
      /\ pool_written = [p \in Protocols |-> 0]
      /\ handed = [p \in Protocols |-> <<>>]
  BY DEF O!Init
<1>2. <<>> \in Seq(Nat) /\ Len(<<>>) = 0
  OBVIOUS
<1>3. O!NoBuffer \in Buffers /\ Buffered(O!NoBuffer) /\ O!NoBuffer.msgs = <<>>
  BY <1>2 DEF O!NoBuffer, Buffers, Buffered, O!MaxBodyLength, O!BufferSize, O!InitialPosition
<1>4. Ordered(<<>>, <<>>, 0)
  BY <1>2 DEF Ordered
<1>5. {p \in Protocols : state[p] # "new"} = {}
  BY <1>1
<1>6. pool_events \in Nat /\ pool_events <= Cardinality({p \in Protocols : state[p] # "new"})
  BY <1>1, <1>5, FS_EmptySet
<1>7. handed \in [Protocols -> Seq(Nat)] /\ outputBuffer \in [Protocols -> Buffers]
      /\ pool_written \in [Protocols -> 0 .. MaxMessages]
      /\ state \in [Protocols -> {"new", "in", "closed", "released"}]
  BY <1>1, <1>2, <1>3 DEF OutputConstants
<1>8. \A p \in Protocols :
       /\ Buffered(outputBuffer[p])
       /\ Ordered(handed[p], outputBuffer[p].msgs, pool_written[p])
       /\ pool_written[p] = 0
  BY <1>1, <1>3, <1>4
<1> QED BY <1>1, <1>6, <1>7, <1>8 DEF OutputIInv, O!Served

LEMMA OutputStepIInv ==
  ASSUME OutputConstants, OutputIInv, [O!Next]_(O!vars)
  PROVE  OutputIInv'
<1>1. CASE O!Next
  BY <1>1, LoginOIInv, TellOIInv, CloseOIInv, SendAllOIInv DEF O!Next
<1>2. CASE UNCHANGED O!vars
  BY <1>2 DEF O!vars, OutputIInv, O!Served
<1> QED BY <1>1, <1>2

-----------------------------------------------------------------------------
(* Start and end, and the ports.                                           *)
(*                                                                         *)
(* PortServed is not inductive: an accept that fails must find the port    *)
(* with no start pending, or nothing would open it again; a retry that is  *)
(* due must find the other threads running, or its task would be dropped;  *)
(* and a task that opens a port must be the only one.                      *)

LifeTasks ==
  {<<"loader", 0>>, <<"signal", 0>>, <<"shutdown", 0>>} \cup {<<"open", p>> : p \in Ports}

\* The tasks q of a dispatcher, with a loader in the state ld and a game in the state gs.
Fits(q, ld, gs) ==
  /\ q \in Seq(LifeTasks)
  /\ \A i \in 1 .. Len(q) :
       /\ q[i][1] = "loader" => i = 1 /\ ld = "queued"
       /\ q[i][1] = "shutdown" => gs = "shutdown"
       /\ q[i][1] = "open" => ld = "loaded"
  /\ ld = "queued" => Len(q) > 0 /\ q[1][1] = "loader"

Waits(q, p) == \E i \in 1 .. Len(q) : q[i] = <<"open", p>>
Once(q, p) == \A i, j \in 1 .. Len(q) : q[i] = <<"open", p>> /\ q[j] = <<"open", p>> => i = j

\* How a port is served, or will be.
OneWay(p) ==
  /\ accept[p] # "none" => p \notin retries \cup pendingStart /\ ~Waits(queue, p) /\ accept[p] # "aborted"
  /\ p \in retries => ~Waits(queue, p)
  /\ accept[p] # "none" \/ p \in retries \/ Waits(queue, p)
  /\ Once(queue, p)

LifeIInv ==
  /\ L!LifeTypeOK /\ L!EndsLast /\ L!StaysShut
  /\ stopPosted \subseteq Ports /\ shut \subseteq Ports
  /\ Fits(queue, loader, gameState)
  /\ thread[Dispatcher] = "running" => \A t \in Threads : thread[t] = "running"
  /\ loader # "loaded" => /\ acceptors = {} /\ isOpen = {} /\ retries = {} /\ pendingStart = {}
                          /\ gameState # "normal" /\ \A p \in Ports : accept[p] = "none"
  /\ gameState = "normal" => acceptors = Ports
  /\ stopPosted \cup shut # {} => acceptors = {} /\ loader = "loaded"
  /\ gameState = "normal" /\ thread[Dispatcher] = "running" => \A p \in Ports : OneWay(p)

LEMMA TaskKinds ==
  ASSUME NEW x \in LifeTasks
  PROVE  /\ x[1] \in {"loader", "signal", "shutdown", "open"}
         /\ x[1] = "open" => x[2] \in Ports /\ x = <<"open", x[2]>>
         /\ \A p : x = <<"open", p>> => x[1] = "open" /\ x[2] = p
BY DEF LifeTasks

LEMMA FitsAppended ==
  ASSUME NEW ld, NEW gs, NEW q, Fits(q, ld, gs), NEW x \in LifeTasks,
         \/ x[1] = "signal"
         \/ x[1] = "shutdown" /\ gs = "shutdown"
         \/ x[1] = "open" /\ ld = "loaded"
  PROVE  LET t == Append(q, x)
         IN  /\ Fits(t, ld, gs)
             /\ \A p \in Ports :
                  /\ x # <<"open", p>> => (Waits(t, p) <=> Waits(q, p)) /\ (Once(q, p) => Once(t, p))
                  /\ x = <<"open", p>> /\ ~Waits(q, p) => Once(t, p)
                  /\ x = <<"open", p>> => Waits(t, p)
<1> DEFINE t == Append(q, x)
<1>1. q \in Seq(LifeTasks)
  BY DEF Fits
<1>2. /\ t \in Seq(LifeTasks) /\ Len(q) \in Nat /\ Len(t) = Len(q) + 1 /\ t[Len(t)] = x
      /\ \A i \in 1 .. Len(q) : t[i] = q[i]
  BY <1>1
<1> HIDE DEF t
<1>3. /\ \A i \in 1 .. Len(t) : i \in 1 .. Len(q) \/ i = Len(t)
      /\ \A i \in 1 .. Len(q) : i \in 1 .. Len(t)
      /\ Len(t) \in 1 .. Len(t) /\ Len(t) \notin 1 .. Len(q)
  BY <1>2
<1>4. Fits(t, ld, gs)
  <2>1. ASSUME NEW i \in 1 .. Len(t)
        PROVE  /\ t[i][1] = "loader" => i = 1 /\ ld = "queued"
               /\ t[i][1] = "shutdown" => gs = "shutdown"
               /\ t[i][1] = "open" => ld = "loaded"
    <3>1. CASE i \in 1 .. Len(q)
      BY <1>2, <3>1 DEF Fits
    <3>2. CASE i = Len(t)
      <4>1. t[i] = x
        BY <1>2, <3>2
      <4> QED BY <4>1
    <3> QED BY <1>3, <3>1, <3>2
  <2>2. ld = "queued" => Len(t) > 0 /\ t[1][1] = "loader"
    <3> SUFFICES ASSUME ld = "queued" PROVE Len(t) > 0 /\ t[1][1] = "loader"
      OBVIOUS
    <3>1. 1 \in 1 .. Len(q) /\ q[1][1] = "loader"
      BY <1>2 DEF Fits
    <3> QED BY <1>2, <3>1
  <2> QED BY <1>2, <2>1, <2>2 DEF Fits
<1>5. ASSUME NEW p \in Ports
      PROVE  /\ x # <<"open", p>> => (Waits(t, p) <=> Waits(q, p)) /\ (Once(q, p) => Once(t, p))
             /\ x = <<"open", p>> /\ ~Waits(q, p) => Once(t, p)
             /\ x = <<"open", p>> => Waits(t, p)
  <2> DEFINE o == <<"open", p>>
  <2> HIDE DEF o
  <2>1. x # o => ((\E i \in 1 .. Len(t) : t[i] = o) <=> \E i \in 1 .. Len(q) : q[i] = o)
    BY <1>2, <1>3
  <2>2. x # o /\ (\A i, j \in 1 .. Len(q) : q[i] = o /\ q[j] = o => i = j)
          => \A i, j \in 1 .. Len(t) : t[i] = o /\ t[j] = o => i = j
    BY <1>2, <1>3
  <2>3. x = o /\ ~(\E i \in 1 .. Len(q) : q[i] = o)
          => \A i, j \in 1 .. Len(t) : t[i] = o /\ t[j] = o => i = j
    BY <1>2, <1>3
  <2>4. x = o => \E i \in 1 .. Len(t) : t[i] = o
    BY <1>2, <1>3
  <2> QED BY <2>1, <2>2, <2>3, <2>4 DEF Waits, Once, o
<1> QED BY <1>4, <1>5 DEF t

LEMMA FitsTail ==
  ASSUME NEW ld, NEW gs, NEW q, Fits(q, ld, gs), q # <<>>
  PROVE  LET h == Head(q)  t == Tail(q)
         IN  /\ h \in LifeTasks
             /\ h[1] = "loader" => ld = "queued" /\ Fits(t, "loading", gs)
             /\ h[1] # "loader" => ld # "queued" /\ Fits(t, ld, gs)
             /\ h[1] = "shutdown" => gs = "shutdown"
             /\ h[1] = "open" => ld = "loaded"
             /\ \A p \in Ports :
                  /\ Waits(q, p) <=> Waits(t, p) \/ h = <<"open", p>>
                  /\ Once(q, p) => Once(t, p)
                  /\ Once(q, p) /\ h = <<"open", p>> => ~Waits(t, p)
<1> DEFINE h == Head(q)  t == Tail(q)
<1>1. q \in Seq(LifeTasks)
  BY DEF Fits
<1>2. /\ t \in Seq(LifeTasks) /\ Len(q) \in Nat \ {0} /\ Len(t) = Len(q) - 1 /\ h = q[1] /\ h \in LifeTasks
      /\ \A i \in 1 .. Len(t) : t[i] = q[i + 1]
  BY <1>1
<1> HIDE DEF t, h
<1>3. /\ \A i \in 1 .. Len(t) : i + 1 \in 1 .. Len(q) /\ i + 1 # 1
      /\ \A i \in 1 .. Len(q) : i = 1 \/ (i - 1 \in 1 .. Len(t) /\ q[i] = t[i - 1])
      /\ 1 \in 1 .. Len(q)
  BY <1>2
<1>4. /\ h[1] = "loader" => ld = "queued"
      /\ h[1] # "loader" => ld # "queued"
      /\ h[1] = "shutdown" => gs = "shutdown"
      /\ h[1] = "open" => ld = "loaded"
  BY <1>2, <1>3 DEF Fits
<1>5. ASSUME NEW i \in 1 .. Len(t)
      PROVE  /\ t[i][1] # "loader"
             /\ t[i][1] = "shutdown" => gs = "shutdown"
             /\ t[i][1] = "open" => ld = "loaded"
  BY <1>2, <1>3 DEF Fits
<1>6. h[1] = "loader" => Fits(t, "loading", gs)
  BY <1>2, <1>4, <1>5 DEF Fits
<1>7. h[1] # "loader" => Fits(t, ld, gs)
  BY <1>2, <1>4, <1>5 DEF Fits
<1>8. ASSUME NEW p \in Ports
      PROVE  /\ Waits(q, p) <=> Waits(t, p) \/ h = <<"open", p>>
             /\ Once(q, p) => Once(t, p)
             /\ Once(q, p) /\ h = <<"open", p>> => ~Waits(t, p)
  <2> DEFINE o == <<"open", p>>
  <2> HIDE DEF o
  <2>1. (\E i \in 1 .. Len(q) : q[i] = o) => (\E i \in 1 .. Len(t) : t[i] = o) \/ h = o
    BY <1>2, <1>3
  <2>2. (\E i \in 1 .. Len(t) : t[i] = o) \/ h = o => \E i \in 1 .. Len(q) : q[i] = o
    BY <1>2, <1>3
  <2>3. ASSUME \A i, j \in 1 .. Len(q) : q[i] = o /\ q[j] = o => i = j
        PROVE  /\ \A i, j \in 1 .. Len(t) : t[i] = o /\ t[j] = o => i = j
               /\ h = o => ~ \E i \in 1 .. Len(t) : t[i] = o
    <3>1. ASSUME NEW i \in 1 .. Len(t), NEW j \in 1 .. Len(t), t[i] = o, t[j] = o PROVE i = j
      <4>1. i + 1 = j + 1
        BY <1>2, <1>3, <2>3, <3>1
      <4> QED BY <4>1
    <3>2. ASSUME NEW i \in 1 .. Len(t), t[i] = o, h = o PROVE FALSE
      BY <1>2, <1>3, <2>3, <3>2
    <3> QED BY <3>1, <3>2
  <2> QED BY <2>1, <2>2, <2>3 DEF Waits, Once, o
<1> QED BY <1>2, <1>4, <1>6, <1>7, <1>8 DEF t, h

LEMMA LifeInitIInv ==
  ASSUME L!LifeAssumption, L!Init
  PROVE  LifeIInv
<1>1. /\ main = "starting" /\ loader = "queued" /\ gameState = "startup"
      /\ thread = [t \in Threads |-> "running"] /\ queue = <<<<"loader", 0>>>>
      /\ acceptors = {} /\ isOpen = {} /\ accept = [p \in Ports |-> "none"]
      /\ pendingStart = {} /\ retries = {} /\ stopPosted = {} /\ shut = {}
  BY DEF L!Init
<1>2. Fits(queue, loader, gameState)
  <2>1. <<"loader", 0>> \in LifeTasks
    BY DEF LifeTasks
  <2>2. queue \in Seq(LifeTasks) /\ Len(queue) = 1 /\ queue[1] = <<"loader", 0>>
    BY <1>1, <2>1
  <2> QED BY <1>1, <2>2 DEF Fits
<1>3. L!LifeTypeOK
  BY <1>1 DEF L!LifeTypeOK
<1> QED BY <1>1, <1>2, <1>3 DEF LifeIInv, L!EndsLast, L!StaysShut

\* A port that is served in one way is served in exactly one.
LEMMA LifeIInvImpliesInv ==
  ASSUME LifeIInv
  PROVE  L!LifeInv
<1>1. \A p : L!Queued(p) <=> Waits(queue, p)
  BY DEF L!Queued, Waits
<1>2. ASSUME NEW p \in Ports, OneWay(p)
      PROVE  L!Cardinality({i \in 1 .. 3 : CASE i = 1 -> accept[p] # "none"
                                             [] i = 2 -> p \in retries
                                             [] i = 3 -> L!Queued(p)}) = 1
  <2> DEFINE Ways == {i \in 1 .. 3 : CASE i = 1 -> accept[p] # "none"
                                       [] i = 2 -> p \in retries
                                       [] i = 3 -> L!Queued(p)}
  <2>1. \E i \in 1 .. 3 : Ways = {i}
    <3>1. /\ 1 \in Ways <=> accept[p] # "none"
          /\ 2 \in Ways <=> p \in retries
          /\ 3 \in Ways <=> Waits(queue, p)
      BY <1>1
    <3>2. Ways \subseteq {1, 2, 3}
      <4>1. Ways \subseteq 1 .. 3
        BY Zenon
      <4>2. 1 .. 3 = {1, 2, 3}
        <5> HIDE DEF Ways
        <5> QED OBVIOUS
      <4> QED BY <4>1, <4>2, Zenon
    <3> HIDE DEF Ways
    <3>3. Ways = {1} \/ Ways = {2} \/ Ways = {3}
      <4>1. CASE accept[p] # "none"
        BY <1>2, <3>1, <3>2, <4>1 DEF OneWay
      <4>2. CASE accept[p] = "none" /\ p \in retries
        BY <1>2, <3>1, <3>2, <4>2 DEF OneWay
      <4>3. CASE accept[p] = "none" /\ p \notin retries
        BY <1>2, <3>1, <3>2, <4>3 DEF OneWay
      <4> QED BY <4>1, <4>2, <4>3
    <3> QED BY <3>3
  <2> HIDE DEF Ways
  <2>2. Cardinality(Ways) = 1
    BY <2>1, FS_Singleton
  <2>3. L!Cardinality(Ways) = Cardinality(Ways)
    BY DEF L!Cardinality, Cardinality
  <2> QED BY <2>2, <2>3 DEF Ways
<1>3. L!PortServed
  BY <1>2 DEF L!PortServed, LifeIInv
<1> QED BY <1>3 DEF LifeIInv, L!LifeInv

States == {"running", "closing", "terminated", "ended"}

\* The steps of threads, and those that add a task which opens no port.
LEMMA KeptIInv ==
  ASSUME L!LifeAssumption, LifeIInv,
         UNCHANGED <<isOpen, accept, pendingStart, retries, acceptors, stopPosted, shut, loader, gameState>>,
         Fits(queue', loader, gameState),
         \A p \in Ports : (Waits(queue', p) <=> Waits(queue, p)) /\ (Once(queue, p) => Once(queue', p)),
         thread' \in [Threads -> States], thread'[Dispatcher] = "running" => thread' = thread,
         main' \in {"starting", "waiting", "online", "serving", "joining", "ended"},
         main' = "ended" => \A t \in Threads : thread'[t] = "ended"
  PROVE  LifeIInv'
<1>1. L!LifeTypeOK' /\ L!EndsLast' /\ L!StaysShut'
  BY DEF LifeIInv, L!LifeTypeOK, L!EndsLast, L!StaysShut, States
<1>2. thread'[Dispatcher] = "running" => \A t \in Threads : thread'[t] = "running"
  BY DEF LifeIInv
<1>3. ASSUME gameState' = "normal", thread'[Dispatcher] = "running", NEW p \in Ports
      PROVE  OneWay(p)'
  BY <1>3 DEF LifeIInv, OneWay
<1> QED BY <1>1, <1>2, <1>3 DEF LifeIInv

\* What ends a thread, or tells it to end.
LEMMA TerminateKeeps ==
  ASSUME L!LifeAssumption, LifeIInv, L!Terminate(Threads)
  PROVE  /\ thread' \in [Threads -> States] /\ thread'[Dispatcher] # "running"
         /\ \A t \in Threads : thread[t] = "ended" => thread'[t] = "ended"
BY DEF L!LifeAssumption, L!Terminate, LifeIInv, L!LifeTypeOK, States

LEMMA MainIInv ==
  ASSUME L!LifeAssumption, LifeIInv,
         L!Wait \/ (\E alone \in BOOLEAN : L!Wake(alone)) \/ L!Run \/ L!End \/ L!Die \/ L!Signal
         \/ (\E t \in Threads : L!ThreadEnds(t)) \/ UNCHANGED L!vars
  PROVE  LifeIInv'
<1>1. UNCHANGED <<isOpen, accept, pendingStart, retries, acceptors, stopPosted, shut, loader, gameState, queue>>
  BY DEF L!Wait, L!Wake, L!Run, L!End, L!Die, L!Signal, L!ThreadEnds, L!vars, L!game, L!port, L!services
<1>2. Fits(queue', loader, gameState)
      /\ \A p \in Ports : (Waits(queue', p) <=> Waits(queue, p)) /\ (Once(queue, p) => Once(queue', p))
  BY <1>1 DEF LifeIInv
<1>3. main' \in {"starting", "waiting", "online", "serving", "joining", "ended"}
  BY DEF L!Wait, L!Wake, L!Run, L!End, L!Die, L!Signal, L!ThreadEnds, L!vars, LifeIInv, L!LifeTypeOK
<1>4. \/ thread' = thread
      \/ L!Terminate(Threads)
      \/ \E t \in Threads : thread[t] = "terminated" /\ thread' = [thread EXCEPT ![t] = "ended"]
  BY DEF L!Wait, L!Wake, L!Run, L!End, L!Die, L!Signal, L!ThreadEnds, L!vars, L!game, L!WithoutServices
<1>5. /\ thread' \in [Threads -> States] /\ (thread'[Dispatcher] = "running" => thread' = thread)
      /\ \A t \in Threads : thread[t] = "ended" => thread'[t] = "ended"
  <2>1. CASE thread' = thread
    BY <2>1 DEF LifeIInv, L!LifeTypeOK, States
  <2>2. CASE L!Terminate(Threads)
    BY <2>2, TerminateKeeps
  <2>3. ASSUME NEW t \in Threads, thread[t] = "terminated", thread' = [thread EXCEPT ![t] = "ended"]
        PROVE  /\ thread' \in [Threads -> States] /\ thread'[Dispatcher] # "running"
               /\ \A u \in Threads : thread[u] = "ended" => thread'[u] = "ended"
    <3>1. thread[Dispatcher] # "running"
      BY <2>3 DEF LifeIInv
    <3> QED BY <2>3, <3>1 DEF LifeIInv, L!LifeTypeOK, States, L!LifeAssumption
  <2> QED BY <1>4, <2>1, <2>2, <2>3
<1>6. main' = "ended" => \A t \in Threads : thread[t] = "ended"
  BY DEF L!Wait, L!Wake, L!Run, L!End, L!Die, L!Signal, L!ThreadEnds, L!vars, LifeIInv, L!EndsLast
<1> QED BY <1>1, <1>2, <1>3, <1>5, <1>6, KeptIInv

LEMMA HandleSignalIInv ==
  ASSUME L!LifeAssumption, LifeIInv, L!HandleSignal
  PROVE  LifeIInv'
<1> DEFINE x == <<"signal", 0>>
<1>1. /\ queue' \in {queue, Append(queue, x)}
      /\ UNCHANGED <<main, loader, gameState, thread, isOpen, accept, pendingStart, retries, acceptors,
                     stopPosted, shut>>
  BY DEF L!HandleSignal, L!Added, L!port, L!services
<1>2. x \in LifeTasks /\ x[1] = "signal" /\ \A p : x # <<"open", p>>
  BY DEF LifeTasks
<1> HIDE DEF x
<1>3. Fits(queue, loader, gameState)
  BY DEF LifeIInv
<1>4. Fits(queue', loader, gameState)
      /\ \A p \in Ports : (Waits(queue', p) <=> Waits(queue, p)) /\ (Once(queue, p) => Once(queue', p))
  <2>1. CASE queue' = queue
    BY <1>3, <2>1
  <2>2. CASE queue' = Append(queue, x)
    BY <1>2, <1>3, <2>2, FitsAppended
  <2> QED BY <1>1, <2>1, <2>2
<1>5. /\ thread' \in [Threads -> States] /\ thread' = thread
      /\ main' \in {"starting", "waiting", "online", "serving", "joining", "ended"}
      /\ main' = "ended" => \A t \in Threads : thread'[t] = "ended"
  BY <1>1 DEF LifeIInv, L!LifeTypeOK, L!EndsLast, States
<1> QED BY <1>1, <1>4, <1>5, KeptIInv

\* An accept that completes, is looked at or is aborted.
LEMMA AcceptIInv ==
  ASSUME L!LifeAssumption, LifeIInv, NEW p \in Ports, L!Complete(p) \/ L!OnAccept(p) \/ L!OnStopServer(p)
  PROVE  LifeIInv'
<1>1. /\ UNCHANGED <<main, loader, gameState, thread, queue, acceptors>>
      /\ accept' \in [Ports -> {"none", "pending", "ok", "error", "aborted"}]
      /\ isOpen' \subseteq isOpen /\ retries' \subseteq Ports /\ pendingStart' \subseteq Ports
      /\ stopPosted' \cup shut' = stopPosted \cup shut
      /\ stopPosted' \subseteq Ports /\ shut' \subseteq Ports
      /\ shut' \cap isOpen' = {}
  BY DEF L!Complete, L!OnAccept, L!OnStopServer, L!game, L!services, L!Accepts, L!Closed, L!Aborted,
         LifeIInv, L!LifeTypeOK, L!StaysShut
<1>2. L!LifeTypeOK' /\ L!EndsLast' /\ L!StaysShut'
  BY <1>1 DEF LifeIInv, L!LifeTypeOK, L!EndsLast, L!StaysShut
<1>3. ASSUME loader # "loaded"
      PROVE  /\ isOpen' = {} /\ retries' = {} /\ pendingStart' = {}
             /\ \A q \in Ports : accept'[q] = "none"
  <2>1. accept[p] = "none" /\ p \notin stopPosted
    BY <1>3 DEF LifeIInv
  <2> QED BY <2>1 DEF L!Complete, L!OnAccept, L!OnStopServer
<1>4. ASSUME gameState = "normal", thread[Dispatcher] = "running", NEW q \in Ports
      PROVE  OneWay(q)'
  <2>1. OneWay(q) /\ OneWay(p) /\ p \notin stopPosted
    BY <1>4 DEF LifeIInv, L!LifeTypeOK
  <2>2. ~ L!OnStopServer(p)
    BY <2>1 DEF L!OnStopServer
  <2>3. accept \in [Ports -> {"none", "pending", "ok", "error", "aborted"}]
    BY DEF LifeIInv, L!LifeTypeOK
  <2>4. CASE q # p
    <3>1. accept'[q] = accept[q] /\ (q \in retries' <=> q \in retries)
          /\ (q \in pendingStart' <=> q \in pendingStart)
      BY <2>2, <2>3, <2>4 DEF L!Complete, L!OnAccept, L!Accepts, L!port
    <3> QED BY <1>1, <2>1, <3>1 DEF OneWay
  <2>5. CASE q = p
    <3>1. accept[p] # "none"
      BY <2>2 DEF L!Complete, L!OnAccept
    <3>2. p \notin retries \cup pendingStart /\ ~Waits(queue, p) /\ accept[p] # "aborted" /\ Once(queue, p)
      BY <2>1, <3>1 DEF OneWay
    <3>3. \/ accept'[p] \in {"pending", "ok", "error"} /\ p \notin retries' \cup pendingStart'
          \/ accept'[p] = "none" /\ p \in retries'
      BY <2>2, <2>3, <3>1, <3>2 DEF L!Complete, L!OnAccept, L!Accepts
    <3>4. accept'[p] # "none" => p \notin retries' \cup pendingStart' /\ accept'[p] # "aborted"
      BY <3>3
    <3> QED BY <1>1, <2>5, <3>2, <3>3, <3>4 DEF OneWay
  <2> QED BY <2>4, <2>5
<1> QED BY <1>1, <1>2, <1>3, <1>4 DEF LifeIInv

LEMMA RetryDueIInv ==
  ASSUME L!LifeAssumption, LifeIInv, NEW p \in Ports, L!RetryDue(p)
  PROVE  LifeIInv'
<1> DEFINE x == <<"open", p>>
<1>1. /\ p \in retries /\ retries' = retries \ {p}
      /\ queue' \in {queue, Append(queue, x)}
      /\ UNCHANGED <<main, loader, gameState, thread, isOpen, accept, pendingStart, acceptors, stopPosted, shut>>
  BY DEF L!RetryDue, L!Added, L!services
<1>2. x \in LifeTasks /\ x[1] = "open" /\ \A q : q # p => x # <<"open", q>>
  BY DEF LifeTasks
<1>3. loader = "loaded" /\ Fits(queue, loader, gameState)
  BY <1>1 DEF LifeIInv
<1>4. LET t == Append(queue, x)
      IN  /\ Fits(t, loader, gameState)
          /\ \A q \in Ports :
               /\ x # <<"open", q>> => (Waits(t, q) <=> Waits(queue, q)) /\ (Once(queue, q) => Once(t, q))
               /\ x = <<"open", q>> /\ ~Waits(queue, q) => Once(t, q)
               /\ x = <<"open", q>> => Waits(t, q)
  BY <1>2, <1>3, FitsAppended
<1>5. Fits(queue', loader', gameState')
  <2>1. CASE queue' = queue
    BY <1>1, <1>3, <2>1
  <2>2. CASE queue' = Append(queue, x)
    BY <1>1, <1>4, <2>2
  <2> QED BY <1>1, <2>1, <2>2
<1>6. L!LifeTypeOK' /\ L!EndsLast' /\ L!StaysShut'
  BY <1>1 DEF LifeIInv, L!LifeTypeOK, L!EndsLast, L!StaysShut
<1>7. ASSUME gameState = "normal", thread[Dispatcher] = "running", NEW q \in Ports
      PROVE  OneWay(q)'
  <2>1. OneWay(q) /\ OneWay(p)
    BY <1>7 DEF LifeIInv
  <2>2. \A t \in Threads : thread[t] = "running"
    BY <1>7 DEF LifeIInv
  <2>3. queue' = Append(queue, x)
    BY <1>7, <2>2 DEF L!RetryDue, L!Added
  <2>4. CASE q # p
    <3>1. (Waits(queue', q) <=> Waits(queue, q)) /\ (Once(queue, q) => Once(queue', q))
      BY <1>2, <1>4, <2>3, <2>4
    <3> QED BY <1>1, <2>1, <2>4, <3>1 DEF OneWay
  <2>5. CASE q = p
    <3>1. ~Waits(queue, p) /\ accept[p] = "none"
      BY <1>1, <2>1 DEF OneWay
    <3>2. Waits(queue', p) /\ Once(queue', p)
      BY <1>4, <2>3, <3>1
    <3> QED BY <1>1, <2>5, <3>1, <3>2 DEF OneWay
  <2> QED BY <2>4, <2>5
<1> QED BY <1>1, <1>3, <1>5, <1>6, <1>7 DEF LifeIInv

-----------------------------------------------------------------------------

LEMMA LoadIInv ==
  ASSUME L!LifeAssumption, LifeIInv, L!Load
  PROVE  LifeIInv'
<1>1. /\ queue # <<>> /\ Head(queue)[1] = "loader" /\ queue' = Tail(queue) /\ loader' = "loading"
      /\ UNCHANGED <<main, gameState, thread, isOpen, accept, pendingStart, retries, acceptors, stopPosted, shut>>
  BY DEF L!Load, L!Task, L!port, L!services
<1>2. Fits(queue, loader, gameState)
  BY DEF LifeIInv
<1>3. loader = "queued" /\ Fits(queue', "loading", gameState)
  BY <1>1, <1>2, FitsTail
<1>4. L!LifeTypeOK' /\ L!EndsLast' /\ L!StaysShut'
  BY <1>1 DEF LifeIInv, L!LifeTypeOK, L!EndsLast, L!StaysShut
<1>5. gameState # "normal" /\ stopPosted \cup shut = {}
  BY <1>3 DEF LifeIInv
<1> QED BY <1>1, <1>3, <1>4, <1>5 DEF LifeIInv

LEMMA LoadFailsIInv ==
  ASSUME L!LifeAssumption, LifeIInv, L!LoadFails
  PROVE  LifeIInv'
<1>1. /\ loader = "loading" /\ loader' = "failed"
      /\ UNCHANGED <<main, gameState, thread, queue, isOpen, accept, pendingStart, retries, acceptors,
                     stopPosted, shut>>
  BY DEF L!LoadFails, L!port, L!services
<1>2. Fits(queue', loader', gameState')
  BY <1>1 DEF LifeIInv, Fits
<1>3. L!LifeTypeOK' /\ L!EndsLast' /\ L!StaysShut'
  BY <1>1 DEF LifeIInv, L!LifeTypeOK, L!EndsLast, L!StaysShut
<1>4. gameState # "normal" /\ stopPosted \cup shut = {}
  BY <1>1 DEF LifeIInv
<1> QED BY <1>1, <1>2, <1>3, <1>4 DEF LifeIInv

LEMMA LoadEndsIInv ==
  ASSUME L!LifeAssumption, LifeIInv, L!LoadEnds
  PROVE  LifeIInv'
<1>1. PICK refused \in SUBSET Ports :
        /\ loader = "loading" /\ loader' = "loaded" /\ acceptors' = Ports
        /\ isOpen' = Ports \ refused
        /\ accept' = [p \in Ports |-> IF p \in refused THEN "none" ELSE "pending"]
        /\ pendingStart' = refused /\ retries' = refused
        /\ gameState' = (IF gameState = "shutdown" THEN "shutdown" ELSE "normal")
        /\ UNCHANGED <<main, thread, queue, stopPosted, shut>>
  BY DEF L!LoadEnds
<1>2. Fits(queue, loader, gameState) /\ stopPosted \cup shut = {}
  BY <1>1 DEF LifeIInv
<1>3. Fits(queue', loader', gameState')
  BY <1>1, <1>2 DEF Fits
<1>4. L!LifeTypeOK' /\ L!EndsLast' /\ L!StaysShut'
  BY <1>1, <1>2 DEF LifeIInv, L!LifeTypeOK, L!EndsLast, L!StaysShut
<1>5. ASSUME NEW p \in Ports PROVE OneWay(p)'
  <2>1. ~Waits(queue, p) /\ Once(queue, p)
    BY <1>1, <1>2 DEF Fits, Waits, Once
  <2>2. accept'[p] = IF p \in refused THEN "none" ELSE "pending"
    BY <1>1
  <2> QED BY <1>1, <2>1, <2>2 DEF OneWay
<1> QED BY <1>1, <1>2, <1>3, <1>4, <1>5 DEF LifeIInv

LEMMA OpenIInv ==
  ASSUME L!LifeAssumption, LifeIInv, L!Open
  PROVE  LifeIInv'
<1> DEFINE h == Head(queue)
           p == Head(queue)[2]
<1>1. /\ queue # <<>> /\ h[1] = "open" /\ queue' = Tail(queue)
      /\ UNCHANGED <<main, loader, gameState, thread, acceptors, stopPosted, shut>>
  BY DEF L!Open, L!Task, L!services
<1>2. \/ UNCHANGED <<isOpen, accept, pendingStart, retries>> /\ p \notin acceptors
      \/ /\ isOpen' = isOpen \cup {p} /\ accept' = [accept EXCEPT ![p] = "pending"] /\ p \in acceptors
         /\ pendingStart' = pendingStart \ {p} /\ UNCHANGED retries
      \/ /\ isOpen' = isOpen \ {p} /\ p \in acceptors
         /\ accept' = [accept EXCEPT ![p] = IF @ = "pending" THEN "aborted" ELSE @]
         /\ pendingStart' = pendingStart \cup {p} /\ retries' = retries \cup {p}
  BY DEF L!Open, L!port, L!NotPending, L!Closed, L!Aborted
<1>3. Fits(queue, loader, gameState)
  BY DEF LifeIInv
<1>4. /\ h \in LifeTasks /\ loader = "loaded" /\ Fits(queue', loader, gameState)
      /\ \A q \in Ports :
           /\ Waits(queue, q) <=> Waits(queue', q) \/ h = <<"open", q>>
           /\ Once(queue, q) => Once(queue', q)
           /\ Once(queue, q) /\ h = <<"open", q>> => ~Waits(queue', q)
  BY <1>1, <1>3, FitsTail
<1>5. p \in Ports /\ h = <<"open", p>>
  BY <1>1, <1>4, TaskKinds
<1> HIDE DEF h, p
<1>6. accept \in [Ports -> {"none", "pending", "ok", "error", "aborted"}]
  BY DEF LifeIInv, L!LifeTypeOK
<1>7. L!LifeTypeOK' /\ L!EndsLast'
  <2>1. accept' \in [Ports -> {"none", "pending", "ok", "error", "aborted"}]
    BY <1>2, <1>5, <1>6
  <2>2. isOpen' \subseteq Ports /\ pendingStart' \subseteq Ports /\ retries' \subseteq Ports
    BY <1>2, <1>5 DEF LifeIInv, L!LifeTypeOK
  <2> QED BY <1>1, <2>1, <2>2 DEF LifeIInv, L!LifeTypeOK, L!EndsLast
<1>8. L!StaysShut'
  BY <1>1, <1>2 DEF LifeIInv, L!StaysShut
<1>9. ASSUME gameState = "normal", thread[Dispatcher] = "running", NEW q \in Ports
      PROVE  OneWay(q)'
  <2>1. OneWay(q) /\ OneWay(p) /\ acceptors = Ports
    BY <1>5, <1>9 DEF LifeIInv
  <2>2. CASE q # p
    <3>1. h # <<"open", q>>
      BY <1>5, <2>2
    <3>2. (Waits(queue', q) <=> Waits(queue, q)) /\ (Once(queue, q) => Once(queue', q))
      BY <1>4, <3>1
    <3>3. accept'[q] = accept[q] /\ (q \in retries' <=> q \in retries)
          /\ (q \in pendingStart' <=> q \in pendingStart)
      BY <1>2, <1>6, <2>2
    <3> QED BY <2>1, <3>2, <3>3 DEF OneWay
  <2>3. CASE q = p
    <3>1. Waits(queue, p) /\ Once(queue, p)
      BY <1>4, <1>5, <2>1 DEF OneWay
    <3>2. ~Waits(queue', p) /\ Once(queue', p)
      BY <1>4, <1>5, <3>1
    <3>3. accept[p] = "none" /\ p \notin retries
      BY <2>1, <3>1 DEF OneWay
    <3>4. \/ accept'[p] = "pending" /\ p \notin retries' \cup pendingStart'
          \/ accept'[p] = "none" /\ p \in retries'
      BY <1>2, <1>5, <1>6, <2>1, <3>3
    <3> QED BY <2>3, <3>2, <3>4 DEF OneWay
  <2> QED BY <2>2, <2>3
<1> QED BY <1>1, <1>4, <1>7, <1>8, <1>9 DEF LifeIInv

\* The game is shut down, while the tasks are what jobs says.
LEMMA DownIInv ==
  ASSUME L!LifeAssumption, LifeIInv, NEW jobs, Fits(jobs, loader, gameState), L!ShutDown(jobs),
         UNCHANGED <<main, loader, isOpen, accept, pendingStart, retries, acceptors, stopPosted, shut>>
  PROVE  LifeIInv'
<1> DEFINE x == <<"shutdown", 0>>
<1>1. gameState' = "shutdown" /\ queue' \in {jobs, Append(jobs, x)}
  BY DEF L!ShutDown
<1>2. x \in LifeTasks /\ x[1] = "shutdown"
  BY DEF LifeTasks
<1> HIDE DEF x
<1>3. Fits(jobs, loader, "shutdown")
  BY DEF Fits
<1>4. Fits(queue', loader', gameState')
  <2>1. CASE queue' = jobs
    BY <1>1, <1>3, <2>1
  <2>2. CASE queue' = Append(jobs, x)
    BY <1>1, <1>2, <1>3, <2>2, FitsAppended
  <2> QED BY <1>1, <2>1, <2>2
<1>5. /\ thread' \in [Threads -> States]
      /\ thread'[Dispatcher] = "running" => thread' = thread
      /\ \A t \in Threads : thread[t] = "ended" => thread'[t] = "ended"
  BY DEF L!ShutDown, LifeIInv, L!LifeTypeOK, States, L!LifeAssumption
<1>6. L!LifeTypeOK' /\ L!EndsLast' /\ L!StaysShut'
  BY <1>1, <1>5 DEF LifeIInv, L!LifeTypeOK, L!EndsLast, L!StaysShut, States
<1>7. thread'[Dispatcher] = "running" => \A t \in Threads : thread'[t] = "running"
  BY <1>5 DEF LifeIInv
<1> QED BY <1>1, <1>4, <1>6, <1>7 DEF LifeIInv

LEMMA ScriptIInv ==
  ASSUME L!LifeAssumption, LifeIInv, L!StartupScript \/ L!Script \/ L!RunSignal
  PROVE  LifeIInv'
<1>1. UNCHANGED <<main, loader, isOpen, accept, pendingStart, retries, acceptors, stopPosted, shut>>
  BY DEF L!StartupScript, L!Script, L!RunSignal, L!port, L!services
<1>2. Fits(queue, loader, gameState)
  BY DEF LifeIInv
<1>3. CASE L!StartupScript \/ L!Script
  BY <1>1, <1>2, <1>3, DownIInv DEF L!StartupScript, L!Script
<1>4. CASE L!RunSignal
  <2>1. queue # <<>> /\ Head(queue)[1] = "signal" /\ L!ShutDown(Tail(queue))
    BY <1>4 DEF L!RunSignal, L!Task
  <2>2. Fits(Tail(queue), loader, gameState)
    BY <1>2, <2>1, FitsTail
  <2> QED BY <1>1, <2>1, <2>2, DownIInv
<1> QED BY <1>3, <1>4

LEMMA GameShutdownIInv ==
  ASSUME L!LifeAssumption, LifeIInv, L!GameShutdown
  PROVE  LifeIInv'
<1>1. /\ queue # <<>> /\ Head(queue)[1] = "shutdown" /\ queue' = Tail(queue) /\ L!Terminate(Threads)
      /\ UNCHANGED <<main, loader, gameState, isOpen, accept, pendingStart, retries, shut>>
      /\ \/ stopPosted' = stopPosted \cup acceptors /\ acceptors' = {}
         \/ UNCHANGED <<acceptors, stopPosted>>
  BY DEF L!GameShutdown, L!Task, L!port
<1>2. Fits(queue, loader, gameState)
  BY DEF LifeIInv
<1>3. Fits(queue', loader, gameState) /\ gameState = "shutdown"
  <2>1. queue # <<>> /\ Head(queue)[1] = "shutdown"
    BY <1>1
  <2>2. Fits(Tail(queue), loader, gameState) /\ gameState = "shutdown"
    BY <1>2, <2>1, FitsTail
  <2> QED BY <1>1, <2>2
<1>4. /\ thread' \in [Threads -> States] /\ thread'[Dispatcher] # "running"
      /\ \A t \in Threads : thread[t] = "ended" => thread'[t] = "ended"
  BY <1>1, TerminateKeeps
<1>5. acceptors' \subseteq Ports /\ stopPosted' \subseteq Ports
  BY <1>1 DEF LifeIInv, L!LifeTypeOK
<1>6. L!LifeTypeOK' /\ L!EndsLast' /\ L!StaysShut'
  BY <1>1, <1>4, <1>5 DEF LifeIInv, L!LifeTypeOK, L!EndsLast, L!StaysShut, States
<1>7. loader # "loaded" => acceptors' = {}
  BY <1>1 DEF LifeIInv
<1>8. stopPosted' \cup shut' # {} => acceptors' = {} /\ loader' = "loaded"
  BY <1>1 DEF LifeIInv
<1> QED BY <1>1, <1>3, <1>4, <1>5, <1>6, <1>7, <1>8 DEF LifeIInv

LEMMA LifeStepIInv ==
  ASSUME L!LifeAssumption, LifeIInv, [L!Next]_(L!vars)
  PROVE  LifeIInv'
<1>1. CASE L!Next
  <2>1. TRUE \in BOOLEAN /\ FALSE \in BOOLEAN
    OBVIOUS
  <2>2. CASE L!Wait \/ L!Wake(FALSE) \/ L!Wake(TRUE) \/ L!Run \/ L!End \/ L!Die \/ L!Signal
             \/ \E t \in Threads : L!ThreadEnds(t)
    <3>1. L!Wait \/ (\E alone \in BOOLEAN : L!Wake(alone)) \/ L!Run \/ L!End \/ L!Die \/ L!Signal
          \/ \E t \in Threads : L!ThreadEnds(t)
      BY <2>1, <2>2, Zenon
    <3> QED BY <3>1, MainIInv
  <2>3. CASE L!HandleSignal
    BY <2>3, HandleSignalIInv
  <2>4. CASE L!DispatcherThread \/ L!StartupScript \/ L!Script
    BY <2>4, LoadIInv, LoadFailsIInv, LoadEndsIInv, OpenIInv, ScriptIInv, GameShutdownIInv DEF L!DispatcherThread
  <2>5. CASE \E p \in Ports : L!Complete(p) \/ L!OnAccept(p) \/ L!OnStopServer(p) \/ L!RetryDue(p)
    BY <2>5, AcceptIInv, RetryDueIInv
  <2> QED BY <1>1, <2>2, <2>3, <2>4, <2>5 DEF L!Next, L!MainThread
<1>2. CASE UNCHANGED L!vars
  BY <1>2, MainIInv
<1> QED BY <1>1, <1>2

-----------------------------------------------------------------------------
(* The saving of players.                                                  *)
(*                                                                         *)
(* StoredWhole is not inductive: a commit stores what the session sees, so *)
(* the invariant follows the tables through the script: while a            *)
(* transaction is open of which no statement ran outside, the tables the   *)
(* save has finished with hold its version.                                *)

\* The tables a save has finished with, at each of its steps.
Finished(s) ==
  {t \in S!Tables : \/ t = "players" /\ s > 4
                    \/ t = "player_spells" /\ s > 6
                    \/ t = "player_storage" /\ s > 10}

SaveIInv ==
  /\ databaseLock \in [owner : Clients \cup {Game, None}, count : 0 .. 1]
  /\ step \in 0 .. 11 /\ tries \in 0 .. 3 /\ (step > 0 => tries > 0)
  /\ version \in 1 .. MaxSaves + 1 /\ success \in 1 .. version /\ file \in 0 .. MaxSaves + 1
  /\ query \in [Clients -> {"none", "locking", "running", "done"}]
  /\ up \in BOOLEAN /\ open \in BOOLEAN /\ inTrans \in BOOLEAN /\ outside \in BOOLEAN
  /\ losses \in 0 .. MaxLosses
  /\ work \in [S!Tables -> 0 .. MaxSaves + 1] /\ stored \in [S!Tables -> 0 .. MaxSaves + 1]
  /\ databaseLock.count = 0 <=> databaseLock.owner = None
  /\ databaseLock.owner = Game <=> step > 3
  /\ \A c \in Clients : query[c] = "running" <=> databaseLock.owner = c
  /\ open => up /\ step > 2
  /\ work # stored => open /\ step > 4
  /\ S!StoredWhole
  /\ ~outside =>
       /\ step > 4 => inTrans /\ (open \/ ~up)
       /\ open => \A t \in Finished(step) : work[t] = version

LEMMA ScriptSteps ==
  ASSUME step \in 0 .. 11
  PROVE  /\ Len(S!Script) = 11
         /\ S!Call(<<"select">>) => step = 1
         /\ S!Call(<<"begin">>) => step = 2
         /\ S!Call(<<"lock">>) => step = 3
         /\ S!Call(<<"truncate">>) => step = 7
         /\ S!Call(<<"file">>) => step = 8
         /\ S!Call(<<"commit">>) => step = 11
         /\ \A t \in S!Tables :
              /\ S!Call(<<"write", t>>) => \/ t = "players" /\ step = 4
                                           \/ t = "player_spells" /\ step = 6
                                           \/ t = "player_storage" /\ step = 10
              /\ S!Call(<<"delete", t>>) => \/ t = "player_spells" /\ step = 5
                                            \/ t = "player_storage" /\ step = 9
BY DEF S!Call, S!Script, S!Tables

LEMMA SaveInitIInv ==
  ASSUME S!SaveAssumption, S!Init
  PROVE  SaveIInv
<1>1. /\ databaseLock = [owner |-> None, count |-> 0] /\ step = 0 /\ tries = 0 /\ version = 1
      /\ success = 1 /\ query = [c \in Clients |-> "none"] /\ up = TRUE /\ open = FALSE /\ inTrans = FALSE
      /\ work = [t \in S!Tables |-> 1] /\ stored = work /\ file = 1 /\ losses = 0 /\ outside = FALSE
  BY DEF S!Init, S!Free
<1>2. S!StoredWhole
  <2>1. 1 \in success .. version /\ \A t \in S!Tables : stored[t] = 1
    BY <1>1
  <2> QED BY <2>1 DEF S!StoredWhole
<1>3. MaxSaves \in Nat /\ MaxLosses \in Nat /\ Game # None /\ None \notin Clients
  BY DEF S!SaveAssumption
<1>4. databaseLock \in [owner : Clients \cup {Game, None}, count : 0 .. 1]
  BY <1>1
<1>5. work \in [S!Tables -> 0 .. MaxSaves + 1] /\ stored \in [S!Tables -> 0 .. MaxSaves + 1]
  BY <1>1, <1>3
<1>6. /\ step \in 0 .. 11 /\ tries \in 0 .. 3 /\ ~(step > 0)
      /\ version \in 1 .. MaxSaves + 1 /\ success \in 1 .. version /\ file \in 0 .. MaxSaves + 1
      /\ losses \in 0 .. MaxLosses /\ ~(step > 2) /\ ~(step > 3) /\ ~(step > 4)
  BY <1>1, <1>3
<1>7. /\ query \in [Clients -> {"none", "locking", "running", "done"}]
      /\ \A c \in Clients : query[c] # "running" /\ databaseLock.owner # c
      /\ databaseLock.count = 0 /\ databaseLock.owner = None /\ databaseLock.owner # Game
  BY <1>1, <1>3
<1>8. up \in BOOLEAN /\ inTrans \in BOOLEAN /\ outside \in BOOLEAN /\ work = stored /\ open = FALSE
  BY <1>1
<1> QED BY <1>2, <1>4, <1>5, <1>6, <1>7, <1>8 DEF SaveIInv

LEMMA SaveIInvImpliesInv ==
  ASSUME S!SaveAssumption, SaveIInv
  PROVE  S!Inv
<1>1. Len(S!Script) = 11
  BY ScriptSteps DEF SaveIInv
<1>2. S!TypeOK
  BY <1>1 DEF SaveIInv, S!TypeOK, S!Versions, S!SaveAssumption
<1>3. step > 3 => databaseLock = [owner |-> Game, count |-> 1]
  <2>1. databaseLock.owner = Game => databaseLock.count = 1
    BY DEF SaveIInv, S!SaveAssumption
  <2>2. databaseLock = [owner |-> databaseLock.owner, count |-> databaseLock.count]
    BY DEF SaveIInv
  <2> QED BY <2>1, <2>2 DEF SaveIInv
<1>4. work # stored => \A c \in Clients : query[c] # "running"
  BY DEF SaveIInv, S!SaveAssumption
<1> QED BY <1>2, <1>3, <1>4 DEF SaveIInv, S!Inv, S!WritesAlone

\* The lock as a save finds it: free or held by itself, depending on the step.
LEMMA LockFacts ==
  ASSUME S!SaveAssumption, SaveIInv
  PROVE  /\ step > 3 => S!Unlocked = [owner |-> None, count |-> 0]
         /\ \A c \in Clients : databaseLock.owner = c => S!Unlocked = [owner |-> None, count |-> 0]
         /\ databaseLock.owner = None => databaseLock.count = 0
BY DEF SaveIInv, S!SaveAssumption, S!Unlocked, S!Free

LEMMA SaveBeginsIInv ==
  ASSUME S!SaveAssumption, SaveIInv, NEW n \in {1, 3}, S!Save(n)
  PROVE  SaveIInv'
<1>1. /\ step = 0 /\ version <= MaxSaves /\ version' = version + 1 /\ tries' = n /\ step' = 1
      /\ UNCHANGED <<databaseLock, success, query, up, open, inTrans, work, stored, file, losses, outside>>
  BY DEF S!Save
<1>2. version' \in 1 .. MaxSaves + 1 /\ success' \in 1 .. version' /\ success .. version \subseteq success' .. version'
  BY <1>1 DEF SaveIInv, S!SaveAssumption
<1>3. S!StoredWhole'
  BY <1>1, <1>2 DEF SaveIInv, S!StoredWhole
<1>4. step' \in 0 .. 11 /\ tries' \in 0 .. 3 /\ tries' > 0
  BY <1>1
<1>5. ~open' /\ work' = stored'
  BY <1>1 DEF SaveIInv
<1> QED BY <1>1, <1>2, <1>3, <1>4, <1>5 DEF SaveIInv

LEMMA SelectIInv ==
  ASSUME S!SaveAssumption, SaveIInv, S!Select
  PROVE  SaveIInv'
<1>1. /\ step = 1 /\ up' = TRUE /\ inTrans' = open /\ work' = work /\ open' = open
      /\ stored' = IF open THEN stored ELSE work
      /\ \/ step' = 2 /\ UNCHANGED <<tries, version, success>>
         \/ tries' = tries - 1 /\ step' = (IF tries > 1 THEN 1 ELSE 0) /\ UNCHANGED <<version, success>>
      /\ UNCHANGED <<databaseLock, query, file, losses, outside>>
  BY ScriptSteps DEF S!Select, S!Execute, S!Advance, S!GiveUp, SaveIInv
<1>2. ~open /\ open \in BOOLEAN /\ work = stored
  BY <1>1 DEF SaveIInv
<1>3. /\ step' \in 0 .. 11 /\ tries' \in 0 .. 3 /\ (step' > 0 => tries' > 0)
      /\ ~(step > 2) /\ ~(step' > 2) /\ ~(step > 3) /\ ~(step' > 3) /\ ~(step > 4) /\ ~(step' > 4)
  BY <1>1 DEF SaveIInv
<1>4. /\ work' = work /\ stored' = stored
      /\ UNCHANGED <<databaseLock, version, success, query, file, losses, outside>>
  BY <1>1, <1>2
<1>5. up' \in BOOLEAN /\ inTrans' \in BOOLEAN /\ open' \in BOOLEAN /\ ~open'
  BY <1>1, <1>2
<1>6. S!StoredWhole'
  BY <1>4 DEF SaveIInv, S!StoredWhole
<1> QED BY <1>2, <1>3, <1>4, <1>5, <1>6 DEF SaveIInv

LEMMA BeginIInv ==
  ASSUME S!SaveAssumption, SaveIInv, S!Begin
  PROVE  SaveIInv'
<1>1. /\ step = 2 /\ step' = 3 /\ up' = TRUE /\ open' = TRUE /\ inTrans' = TRUE
      /\ UNCHANGED <<databaseLock, tries, version, success, query, work, stored, file, losses, outside>>
  BY ScriptSteps DEF S!Begin, S!Advance, SaveIInv
<1>2. Finished(step') = {}
  BY <1>1 DEF Finished
<1>3. S!StoredWhole'
  BY <1>1 DEF SaveIInv, S!StoredWhole
<1> QED BY <1>1, <1>2, <1>3 DEF SaveIInv

LEMMA LockTransactionIInv ==
  ASSUME S!SaveAssumption, SaveIInv, S!LockTransaction
  PROVE  SaveIInv'
<1>1. /\ step = 3 /\ step' = 4 /\ databaseLock.owner \in {Game, None}
      /\ databaseLock' = [owner |-> Game, count |-> databaseLock.count + 1]
      /\ UNCHANGED <<up, open, inTrans, tries, version, success, query, work, stored, file, losses, outside>>
  BY ScriptSteps DEF S!LockTransaction, S!Advance, SaveIInv, S!Lock, S!MayLock
<1>2. databaseLock.owner = None /\ databaseLock.count = 0
  BY <1>1 DEF SaveIInv
<1>3. databaseLock' \in [owner : Clients \cup {Game, None}, count : 0 .. 1]
      /\ databaseLock'.owner = Game /\ databaseLock'.count = 1
  BY <1>1, <1>2
<1>4. Finished(step') = {}
  BY <1>1 DEF Finished
<1>5. S!StoredWhole'
  BY <1>1 DEF SaveIInv, S!StoredWhole
<1>6. \A c \in Clients : query'[c] = "running" <=> databaseLock'.owner = c
  BY <1>1, <1>2, <1>3 DEF SaveIInv, S!SaveAssumption
<1> QED BY <1>1, <1>3, <1>4, <1>5, <1>6 DEF SaveIInv, S!SaveAssumption

LEMMA StatementIInv ==
  ASSUME S!SaveAssumption, SaveIInv, NEW t \in S!Tables, S!Statement(t)
  PROVE  SaveIInv'
<1>1. PICK v \in {version, 0} :
        /\ \/ v = version /\ \/ t = "players" /\ step = 4
                             \/ t = "player_spells" /\ step = 6
                             \/ t = "player_storage" /\ step = 10
           \/ v = 0 /\ \/ t = "player_spells" /\ step = 5
                       \/ t = "player_storage" /\ step = 9
        /\ S!Execute([work EXCEPT ![t] = v])
  BY ScriptSteps DEF S!Statement, S!Gone, SaveIInv
<1>2. /\ work' = [work EXCEPT ![t] = v] /\ stored' = IF open THEN stored ELSE work'
      /\ up' = TRUE /\ inTrans' = open /\ open' = open
      /\ step' = step + 1 /\ outside' = (outside \/ ~open)
      /\ UNCHANGED <<databaseLock, tries, version, success, query, file, losses>>
  BY <1>1 DEF S!Statement, S!Advance, S!Execute
<1>3. step \in 4 .. 10 /\ step' \in 5 .. 11
  BY <1>1, <1>2
<1>4. work' \in [S!Tables -> 0 .. MaxSaves + 1] /\ stored' \in [S!Tables -> 0 .. MaxSaves + 1]
  BY <1>1, <1>2 DEF SaveIInv, S!SaveAssumption
<1>5. work' # stored' => open'
  BY <1>2
<1>6. S!StoredWhole'
  <2>1. CASE open
    BY <1>2, <2>1 DEF SaveIInv, S!StoredWhole
  <2>2. CASE ~open
    BY <1>2, <2>2 DEF S!StoredWhole
  <2> QED BY <2>1, <2>2 DEF SaveIInv
<1>7. ASSUME ~outside', open', NEW u \in Finished(step') PROVE work'[u] = version'
  <2>1. ~outside /\ open /\ \A w \in Finished(step) : work[w] = version
    BY <1>2, <1>7 DEF SaveIInv
  <2>2. u \in S!Tables
    BY DEF Finished
  <2>3. CASE u = t
    BY <1>1, <1>2, <1>7, <2>3 DEF Finished, SaveIInv
  <2>4. CASE u # t
    <3>1. u \in Finished(step)
      BY <1>1, <1>2, <1>7, <2>4 DEF Finished, S!Tables
    <3> QED BY <1>2, <2>1, <2>2, <2>4, <3>1 DEF SaveIInv
  <2> QED BY <2>3, <2>4
<1>8. ~outside' => inTrans' /\ open'
  BY <1>2
<1>9. outside' \in BOOLEAN /\ inTrans' \in BOOLEAN /\ open' \in BOOLEAN /\ up'
  BY <1>2 DEF SaveIInv
<1>10. /\ databaseLock'.owner = Game <=> step' > 3
       /\ tries' > 0 /\ step' > 4
  BY <1>2, <1>3 DEF SaveIInv
<1>11. UNCHANGED <<databaseLock, tries, version, success, query, file, losses>>
  BY <1>2
<1> QED BY <1>3, <1>4, <1>5, <1>6, <1>7, <1>8, <1>9, <1>10, <1>11 DEF SaveIInv

LEMMA WriteFileIInv ==
  ASSUME S!SaveAssumption, SaveIInv, S!WriteFile
  PROVE  SaveIInv'
<1>1. /\ step \in {7, 8} /\ step' = step + 1 /\ file' \in {0, version}
      /\ UNCHANGED <<databaseLock, tries, version, success, query, up, open, inTrans, work, stored, losses, outside>>
  BY ScriptSteps DEF S!WriteFile, S!Advance, S!Gone, SaveIInv
<1>2. file' \in 0 .. MaxSaves + 1
  BY <1>1 DEF SaveIInv, S!SaveAssumption
<1>3. Finished(step') = Finished(step)
  BY <1>1 DEF Finished
<1>4. S!StoredWhole'
  BY <1>1 DEF SaveIInv, S!StoredWhole
<1> QED BY <1>1, <1>2, <1>3, <1>4 DEF SaveIInv

\* A save that gives up, of whichever reason, with nothing open.
LEMMA GivenUpIInv ==
  ASSUME S!SaveAssumption, SaveIInv, step > 3, S!GiveUp, databaseLock' = S!Unlocked,
         ~open', work' = stored', S!StoredWhole',
         stored' \in [S!Tables -> 0 .. MaxSaves + 1], up' \in BOOLEAN, open' \in BOOLEAN, inTrans' = FALSE,
         losses' \in 0 .. MaxLosses, UNCHANGED <<query, file, outside>>
  PROVE  SaveIInv'
<1>1. /\ tries' = tries - 1 /\ step' = IF tries > 1 THEN 1 ELSE 0
      /\ UNCHANGED <<version, success>>
  BY DEF S!GiveUp
<1>2. step' \in 0 .. 11 /\ ~(step' > 3) /\ tries' \in 0 .. 3 /\ (step' > 0 => tries' > 0)
  BY <1>1 DEF SaveIInv
<1>3. databaseLock' = [owner |-> None, count |-> 0]
  BY LockFacts
<1>4. databaseLock' \in [owner : Clients \cup {Game, None}, count : 0 .. 1]
      /\ databaseLock'.owner = None /\ databaseLock'.count = 0
  BY <1>3
<1>5. \A c \in Clients : query'[c] # "running" /\ databaseLock'.owner # c
  BY <1>4 DEF SaveIInv, S!SaveAssumption
<1>6. databaseLock'.owner # Game
  BY <1>4 DEF S!SaveAssumption
<1>7. work' \in [S!Tables -> 0 .. MaxSaves + 1]
  OBVIOUS
<1>8. version' \in 1 .. MaxSaves + 1 /\ success' \in 1 .. version' /\ file' \in 0 .. MaxSaves + 1
      /\ query' \in [Clients -> {"none", "locking", "running", "done"}] /\ outside' \in BOOLEAN
  BY <1>1 DEF SaveIInv
<1>9. ~(step' > 4)
  BY <1>2
<1>10. inTrans' \in BOOLEAN
  BY Zenon
<1> QED BY <1>2, <1>4, <1>5, <1>6, <1>7, <1>8, <1>9, <1>10 DEF SaveIInv

LEMMA RollbackIInv ==
  ASSUME S!SaveAssumption, SaveIInv, S!Rollback
  PROVE  SaveIInv'
<1>1. /\ step > 3 /\ S!GiveUp /\ databaseLock' = S!Unlocked /\ open' = FALSE /\ inTrans' = FALSE
      /\ work' = stored /\ UNCHANGED <<query, up, stored, file, losses, outside>>
      /\ UNCHANGED <<version, success>>
  BY DEF S!Rollback, S!GiveUp, SaveIInv
<1>2. S!StoredWhole'
  BY <1>1 DEF SaveIInv, S!StoredWhole
<1>3. stored' \in [S!Tables -> 0 .. MaxSaves + 1] /\ up' \in BOOLEAN /\ losses' \in 0 .. MaxLosses
  BY <1>1 DEF SaveIInv
<1> QED BY <1>1, <1>2, <1>3, GivenUpIInv

\* What a save of which no statement ran outside has made of the tables by its commit.
LEMMA Complete ==
  ASSUME S!SaveAssumption, SaveIInv, step = 11, ~outside, up \/ ~inTrans
  PROVE  \A t \in S!Tables : work[t] = version
<1>1. open
  BY DEF SaveIInv
<1>2. Finished(step) = S!Tables
  BY DEF Finished, S!Tables
<1> QED BY <1>1, <1>2 DEF SaveIInv

LEMMA CommitIInv ==
  ASSUME S!SaveAssumption, SaveIInv, S!Commit
  PROVE  SaveIInv'
<1>1. /\ step = 11 /\ (up \/ ~inTrans) /\ up' = TRUE /\ stored' = work /\ open' = FALSE /\ inTrans' = FALSE
      /\ databaseLock' = S!Unlocked /\ step' = 0 /\ success' = version /\ tries' = 0
      /\ UNCHANGED <<version, query, work, file, losses, outside>>
  BY ScriptSteps DEF S!Commit, SaveIInv
<1>2. databaseLock' = [owner |-> None, count |-> 0]
  BY <1>1, LockFacts
<1>3. databaseLock' \in [owner : Clients \cup {Game, None}, count : 0 .. 1]
      /\ databaseLock'.owner = None /\ databaseLock'.count = 0
  BY <1>2
<1>4. \A c \in Clients : query'[c] # "running" /\ databaseLock'.owner # c
  BY <1>1, <1>3 DEF SaveIInv, S!SaveAssumption
<1>5. S!StoredWhole'
  <2> SUFFICES ASSUME ~outside PROVE \A t \in S!Tables : work[t] = version
    BY <1>1 DEF S!StoredWhole, SaveIInv
  <2> QED BY <1>1, Complete
<1>6. success' \in 1 .. version'
  BY <1>1 DEF SaveIInv
<1>7. /\ step' \in 0 .. 11 /\ tries' \in 0 .. 3 /\ ~(step' > 0) /\ ~(step' > 3) /\ ~(step' > 4)
  BY <1>1
<1>10. open' = FALSE /\ work' = stored' /\ up' \in BOOLEAN /\ inTrans' \in BOOLEAN
  BY <1>1, Zenon
<1>8. databaseLock'.owner # Game
  BY <1>3 DEF S!SaveAssumption
<1>9. version' \in 1 .. MaxSaves + 1 /\ file' \in 0 .. MaxSaves + 1
      /\ query' \in [Clients -> {"none", "locking", "running", "done"}] /\ outside' \in BOOLEAN
      /\ losses' \in 0 .. MaxLosses
      /\ work' \in [S!Tables -> 0 .. MaxSaves + 1] /\ stored' \in [S!Tables -> 0 .. MaxSaves + 1]
  BY <1>1 DEF SaveIInv
<1> QED BY <1>3, <1>4, <1>5, <1>6, <1>7, <1>8, <1>9, <1>10 DEF SaveIInv

LEMMA CommitFailsIInv ==
  ASSUME S!SaveAssumption, SaveIInv, S!CommitFails
  PROVE  SaveIInv'
<1>1. /\ step = 11 /\ S!GiveUp /\ databaseLock' = S!Unlocked /\ inTrans' = FALSE
      /\ UNCHANGED <<query, work, file, outside, version, success>>
  BY ScriptSteps DEF S!CommitFails, S!GiveUp, SaveIInv
<1>2. CASE ~up /\ inTrans /\ UNCHANGED <<up, open, stored, losses>>
  <2>1. ~open /\ work' = stored' /\ UNCHANGED <<open, stored>>
    BY <1>1, <1>2 DEF SaveIInv
  <2>2. S!StoredWhole'
    BY <1>1, <1>2 DEF SaveIInv, S!StoredWhole
  <2>3. stored' \in [S!Tables -> 0 .. MaxSaves + 1] /\ up' \in BOOLEAN /\ losses' \in 0 .. MaxLosses
        /\ open' \in BOOLEAN /\ step > 3
    BY <1>1, <1>2 DEF SaveIInv
  <2> QED BY <1>1, <2>1, <2>2, <2>3, GivenUpIInv
<1>3. CASE /\ up /\ losses < MaxLosses /\ losses' = losses + 1
           /\ up' = FALSE /\ stored' = work /\ open' = FALSE
  <2>1. S!StoredWhole'
    <3> SUFFICES ASSUME ~outside PROVE \A t \in S!Tables : work[t] = version
      BY <1>1, <1>3 DEF S!StoredWhole, SaveIInv
    <3> QED BY <1>1, <1>3, Complete
  <2>2. stored' \in [S!Tables -> 0 .. MaxSaves + 1] /\ work' = stored'
    BY <1>1, <1>3 DEF SaveIInv
  <2>3. losses' \in 0 .. MaxLosses
    BY <1>3 DEF SaveIInv, S!SaveAssumption
  <2>4. ~open' /\ open' \in BOOLEAN /\ up' \in BOOLEAN
    BY <1>3
  <2>5. step > 3
    BY <1>1
  <2> QED BY <1>1, <2>1, <2>2, <2>3, <2>4, <2>5, GivenUpIInv
<1> QED BY <1>2, <1>3 DEF S!CommitFails

LEMMA LoseIInv ==
  ASSUME S!SaveAssumption, SaveIInv, S!Lose
  PROVE  SaveIInv'
<1>1. /\ losses < MaxLosses /\ up' = FALSE /\ open' = FALSE /\ work' = stored /\ losses' = losses + 1
      /\ UNCHANGED <<databaseLock, step, tries, version, success, query, inTrans, stored, file, outside>>
  BY DEF S!Lose, S!game
<1>2. S!StoredWhole'
  BY <1>1 DEF SaveIInv, S!StoredWhole
<1>3. losses' \in 0 .. MaxLosses
  BY <1>1 DEF SaveIInv, S!SaveAssumption
<1> QED BY <1>1, <1>2, <1>3 DEF SaveIInv

LEMMA QueryIInv ==
  ASSUME S!SaveAssumption, SaveIInv, NEW c \in Clients,
         S!Ask(c) \/ S!LockQuery(c) \/ S!RunQuery(c)
  PROVE  SaveIInv'
<1>1. CASE S!Ask(c)
  <2>1. /\ query[c] = "none" /\ query' = [query EXCEPT ![c] = "locking"]
        /\ UNCHANGED <<databaseLock, up, inTrans, work, stored, step, tries, version, success, open, file, losses,
                       outside>>
    BY <1>1 DEF S!Ask, S!others, S!game
  <2>2. /\ query' \in [Clients -> {"none", "locking", "running", "done"}]
        /\ \A d \in Clients : query'[d] = "running" <=> query[d] = "running"
    BY <2>1 DEF SaveIInv
  <2>3. S!StoredWhole'
    BY <2>1 DEF SaveIInv, S!StoredWhole
  <2> QED BY <2>1, <2>2, <2>3 DEF SaveIInv
<1>2. CASE S!LockQuery(c)
  <2>1. /\ query[c] = "locking" /\ query' = [query EXCEPT ![c] = "running"] /\ databaseLock.owner \in {c, None}
        /\ databaseLock' = [owner |-> c, count |-> databaseLock.count + 1]
        /\ UNCHANGED <<up, inTrans, work, stored, step, tries, version, success, open, file, losses, outside>>
    BY <1>2 DEF S!LockQuery, S!Lock, S!MayLock, S!others, S!game
  <2>2. databaseLock.owner = None /\ databaseLock.count = 0
    BY <2>1 DEF SaveIInv
  <2>3. databaseLock' \in [owner : Clients \cup {Game, None}, count : 0 .. 1]
        /\ databaseLock'.owner = c /\ databaseLock'.count = 1
    BY <2>1, <2>2
  <2>4. query' \in [Clients -> {"none", "locking", "running", "done"}]
    BY <2>1 DEF SaveIInv
  <2>5. ASSUME NEW d \in Clients PROVE query'[d] = "running" <=> databaseLock'.owner = d
    <3>1. query[d] # "running"
      BY <2>2 DEF SaveIInv, S!SaveAssumption
    <3> QED BY <2>1, <2>3, <3>1 DEF SaveIInv
  <2>6. S!StoredWhole'
    BY <2>1 DEF SaveIInv, S!StoredWhole
  <2>7. c # Game /\ c # None /\ Game # None
    BY DEF S!SaveAssumption
  <2>8. ~(step > 3)
    BY <2>2, <2>7 DEF SaveIInv
  <2> QED BY <2>1, <2>3, <2>4, <2>5, <2>6, <2>7, <2>8 DEF SaveIInv
<1>3. CASE S!RunQuery(c)
  <2>1. /\ query[c] = "running" /\ query' = [query EXCEPT ![c] = "done"] /\ databaseLock' = S!Unlocked
        /\ up' = TRUE /\ inTrans' = open /\ work' = work /\ stored' = IF open THEN stored ELSE work
        /\ UNCHANGED <<step, tries, version, success, open, file, losses, outside>>
    BY <1>3 DEF S!RunQuery, S!Execute, S!game
  <2>2. databaseLock.owner = c /\ c # Game /\ c # None /\ Game # None
    BY <2>1 DEF SaveIInv, S!SaveAssumption
  <2>3. ~(step > 3) /\ stored' = stored
    BY <2>1, <2>2 DEF SaveIInv
  <2>4. databaseLock' = [owner |-> None, count |-> 0]
    BY <2>1, <2>2, LockFacts
  <2>5. databaseLock' \in [owner : Clients \cup {Game, None}, count : 0 .. 1]
        /\ databaseLock'.owner = None /\ databaseLock'.count = 0
    BY <2>4
  <2>6. query' \in [Clients -> {"none", "locking", "running", "done"}]
    BY <2>1 DEF SaveIInv
  <2>7. ASSUME NEW d \in Clients PROVE query'[d] = "running" <=> databaseLock'.owner = d
    <3>1. d # c => query[d] # "running"
      BY <2>2 DEF SaveIInv
    <3> QED BY <2>1, <2>5, <3>1 DEF SaveIInv, S!SaveAssumption
  <2>8. S!StoredWhole'
    BY <2>1, <2>3 DEF SaveIInv, S!StoredWhole
  <2> QED BY <2>1, <2>2, <2>3, <2>5, <2>6, <2>7, <2>8 DEF SaveIInv
<1> QED BY <1>1, <1>2, <1>3

LEMMA SaveStepIInv ==
  ASSUME S!SaveAssumption, SaveIInv, [S!Next]_(S!vars)
  PROVE  SaveIInv'
<1>1. CASE S!Next
  BY <1>1, SaveBeginsIInv, SelectIInv, BeginIInv, LockTransactionIInv, StatementIInv, WriteFileIInv, RollbackIInv,
     CommitIInv, CommitFailsIInv, LoseIInv, QueryIInv
  DEF S!Next, S!Saving, S!Asking
<1>2. CASE UNCHANGED S!vars
  BY <1>2 DEF S!vars, S!game, SaveIInv, S!StoredWhole
<1> QED BY <1>1, <1>2

-----------------------------------------------------------------------------
(* The queries another thread executes.                                    *)
(*                                                                         *)
(* Of the two executors each takes the oldest query, so what is queued is  *)
(* younger than all that is done or in a hand; from this the order of the  *)
(* answers and that at most one query is overtaken follow.                 *)

Queued(ts) == {ts[i] : i \in 1 .. Len(ts)}

Increasing(s) == \A i, j \in 1 .. Len(s) : i < j => s[i] < s[j]

\* The queries of s are younger than all of X.
Younger(s, X) == \A i \in 1 .. Len(s) : \A x \in X : x < s[i]

Hands == {hand[Worker], hand[Disp]}

TasksIInv ==
  /\ D!TypeOK
  /\ Queued(tasks) \cup Hands \cup done \cup {0} = 0 .. db_accepted
  /\ Increasing(tasks) /\ Younger(tasks, Hands \cup done \cup {0})
  /\ Hands \cap done = {}
  /\ hand[Worker] # 0 => hand[Worker] # hand[Disp]
  /\ hand[Worker] # 0 <=> wpc = "run"
  /\ hand[Disp] # 0 => dpc \in {"flush", "lastflush"}
  /\ saves = 0 => /\ dpc = "idle" /\ Increasing(answers)
                  /\ hand[Worker] # 0 => \A i \in 1 .. Len(answers) : answers[i] < hand[Worker]
  /\ dpc = "flushed" => 1 .. mark \ done \subseteq {hand[Worker]}

LEMMA TasksInitIInv ==
  ASSUME D!DatabaseTasksAssumption, D!Init
  PROVE  TasksIInv
<1>1. tasks \in Seq(1 .. db_accepted) /\ Len(tasks) = 0 /\ answers \in Seq(done \cap Callbacks) /\ Len(answers) = 0
  BY DEF D!Init
<1>2. hand \in [D!Executors -> 0 .. db_accepted] /\ hand[Worker] = 0 /\ hand[Disp] = 0
  BY DEF D!Init, D!Executors, D!NoQuery
<1>3. D!TypeOK
  BY <1>1, <1>2 DEF D!Init, D!TypeOK, D!DatabaseTasksAssumption
<1> QED BY <1>1, <1>2, <1>3 DEF D!Init, TasksIInv, Queued, Hands, Increasing, Younger

LEMMA TasksIInvImpliesInv ==
  ASSUME D!DatabaseTasksAssumption, TasksIInv
  PROVE  D!Inv
<1>1. Hands = {hand[e] : e \in D!Executors}
  BY DEF Hands, D!Executors
<1>2. D!InHand = Hands \ {0}
  BY <1>1 DEF D!InHand, D!NoQuery
<1>3. /\ tasks \in Seq(1 .. db_accepted) /\ db_accepted \in Nat /\ done \subseteq 1 .. db_accepted
      /\ Hands \subseteq 0 .. db_accepted
  BY DEF TasksIInv, D!TypeOK, D!DatabaseTasksAssumption, Hands, D!Executors
<1>4. Queued(tasks) \subseteq 1 .. db_accepted
  BY <1>3 DEF Queued
<1>5. Queued(tasks) \cap Hands = {} /\ Queued(tasks) \cap done = {}
  BY <1>3, <1>4 DEF TasksIInv, Younger, Queued
<1>6. D!OncePerQuery
  <2>1. Queued(tasks) \cup D!InHand \cup done = 1 .. db_accepted
    BY <1>2, <1>3, <1>4 DEF TasksIInv
  <2> QED BY <1>2, <1>5, <2>1 DEF D!OncePerQuery, D!NoQuery, TasksIInv, Increasing, Queued
<1>7. D!AtMostOneOvertaken
  <2> SUFFICES ASSUME NEW q \in done, NEW p \in 1 .. q, p \notin done
               PROVE  p \in D!InHand
    BY DEF D!AtMostOneOvertaken
  <2>1. p \in 1 .. db_accepted
    BY <1>3
  <2>2. p \notin Queued(tasks)
    BY <1>3 DEF TasksIInv, Younger, Queued
  <2> QED BY <1>2, <1>3, <2>1, <2>2 DEF TasksIInv
<1> QED BY <1>6, <1>7 DEF TasksIInv, D!Inv, D!AnswersInOrder, D!FlushLeavesOne, Increasing

LEMMA QueuedAppended ==
  ASSUME NEW n \in Nat, NEW s \in Seq(1 .. n), Increasing(s), NEW X \in SUBSET (0 .. n),
         Younger(s, X)
  PROVE  LET t == Append(s, n + 1)
         IN  /\ t \in Seq(1 .. n + 1) /\ Increasing(t) /\ Younger(t, X)
             /\ Queued(t) = Queued(s) \cup {n + 1}
<1> DEFINE t == Append(s, n + 1)
<1>1. /\ t \in Seq(1 .. n + 1) /\ Len(t) = Len(s) + 1 /\ t[Len(t)] = n + 1
      /\ \A i \in 1 .. Len(s) : t[i] = s[i] /\ s[i] \in 1 .. n
      /\ Len(s) \in Nat
  <2>1. s \in Seq(1 .. n + 1)
    OBVIOUS
  <2> QED BY <2>1
<1> HIDE DEF t
<1>2. Queued(t) = Queued(s) \cup {n + 1}
  <2>1. \A i \in 1 .. Len(t) : i = Len(t) \/ i \in 1 .. Len(s)
    BY <1>1
  <2>2. \A i \in 1 .. Len(s) : i \in 1 .. Len(t)
    BY <1>1
  <2>3. Len(t) \in 1 .. Len(t)
    BY <1>1
  <2> QED BY <1>1, <2>1, <2>2, <2>3 DEF Queued
<1>3. ASSUME NEW i \in 1 .. Len(t), NEW j \in 1 .. Len(t), i < j PROVE t[i] < t[j]
  <2>1. i \in 1 .. Len(s)
    BY <1>1, <1>3
  <2>2. CASE j = Len(t)
    <3>1. t[j] = n + 1
      BY <1>1, <2>2
    <3>2. t[i] \in 1 .. n
      BY <1>1, <2>1
    <3> QED BY <3>1, <3>2
  <2>3. CASE j # Len(t)
    <3>1. j \in 1 .. Len(s)
      BY <1>1, <2>3
    <3> QED BY <1>1, <1>3, <2>1, <3>1 DEF Increasing
  <2> QED BY <2>2, <2>3
<1>4. ASSUME NEW i \in 1 .. Len(t), NEW x \in X PROVE x < t[i]
  <2>1. CASE i = Len(t)
    BY <1>1, <2>1
  <2>2. CASE i # Len(t)
    <3>1. i \in 1 .. Len(s)
      BY <1>1, <2>2
    <3> QED BY <1>1, <3>1 DEF Younger
  <2> QED BY <2>1, <2>2
<1> QED BY <1>1, <1>2, <1>3, <1>4 DEF t, Increasing, Younger

LEMMA QueuedTail ==
  ASSUME NEW n \in Nat, NEW s \in Seq(1 .. n), Increasing(s), NEW X \in SUBSET (0 .. n),
         Younger(s, X), s # <<>>
  PROVE  LET h == Head(s)  t == Tail(s)
         IN  /\ t \in Seq(1 .. n) /\ Increasing(t) /\ Younger(t, X \cup {h})
             /\ Queued(s) = Queued(t) \cup {h} /\ h \in 1 .. n
             /\ \A x \in X : x < h
<1> DEFINE h == Head(s)  t == Tail(s)
<1>1. /\ t \in Seq(1 .. n) /\ Len(t) = Len(s) - 1 /\ Len(s) \in Nat \ {0} /\ h = s[1]
      /\ \A i \in 1 .. Len(t) : t[i] = s[i + 1] /\ i + 1 \in 1 .. Len(s)
      /\ \A i \in 1 .. Len(s) : s[i] \in 1 .. n
  OBVIOUS
<1> HIDE DEF t, h
<1>2. Queued(s) = Queued(t) \cup {h}
  <2>1. \A i \in 1 .. Len(s) : i = 1 \/ (i - 1 \in 1 .. Len(t) /\ s[i] = t[i - 1])
    BY <1>1
  <2>2. 1 \in 1 .. Len(s)
    BY <1>1
  <2>3. ASSUME NEW i \in 1 .. Len(s) PROVE s[i] \in Queued(t) \cup {h}
    <3>1. CASE i = 1
      BY <1>1, <3>1
    <3>2. CASE i # 1
      BY <2>1, <3>2 DEF Queued
    <3> QED BY <3>1, <3>2
  <2>4. Queued(t) \cup {h} \subseteq Queued(s)
    BY <1>1, <2>2 DEF Queued
  <2> QED BY <2>3, <2>4 DEF Queued
<1>3. ASSUME NEW i \in 1 .. Len(t), NEW j \in 1 .. Len(t), i < j PROVE t[i] < t[j]
  <2>1. i + 1 \in 1 .. Len(s) /\ j + 1 \in 1 .. Len(s) /\ i + 1 < j + 1
    BY <1>1, <1>3
  <2> QED BY <1>1, <2>1 DEF Increasing
<1>4. ASSUME NEW i \in 1 .. Len(t), NEW x \in X \cup {h} PROVE x < t[i]
  <2>1. i + 1 \in 1 .. Len(s) /\ 1 \in 1 .. Len(s) /\ 1 < i + 1 /\ t[i] = s[i + 1]
    BY <1>1
  <2>2. CASE x \in X
    BY <2>1, <2>2 DEF Younger
  <2>3. CASE x = h
    BY <1>1, <2>1, <2>3 DEF Increasing
  <2> QED BY <2>2, <2>3
<1>5. \A x \in X : x < h
  BY <1>1 DEF Younger
<1> QED BY <1>1, <1>2, <1>3, <1>4, <1>5 DEF t, h, Increasing, Younger

\* The types, in the form the steps need them.
LEMMA TasksFacts ==
  ASSUME D!DatabaseTasksAssumption, TasksIInv
  PROVE  /\ tasks \in Seq(1 .. db_accepted) /\ db_accepted \in Nat /\ done \subseteq 1 .. db_accepted
         /\ hand[Worker] \in 0 .. db_accepted /\ hand[Disp] \in 0 .. db_accepted
         /\ Hands \cup done \cup {0} \in SUBSET (0 .. db_accepted)
         /\ Queued(tasks) \subseteq 1 .. db_accepted /\ mark \in Nat
<1>1. /\ tasks \in Seq(1 .. db_accepted) /\ db_accepted \in Nat /\ done \subseteq 1 .. db_accepted
      /\ hand[Worker] \in 0 .. db_accepted /\ hand[Disp] \in 0 .. db_accepted /\ mark \in Nat
  BY DEF TasksIInv, D!TypeOK, D!DatabaseTasksAssumption, D!Executors
<1>2. Hands \cup done \cup {0} \in SUBSET (0 .. db_accepted)
  <2> SUFFICES ASSUME NEW q \in Hands \cup done \cup {0} PROVE q \in 0 .. db_accepted
    OBVIOUS
  <2>1. CASE q \in done
    BY <1>1, <2>1
  <2>2. CASE q \notin done
    <3>1. q \in {hand[Worker], hand[Disp], 0}
      BY <2>2 DEF Hands
    <3> QED BY <1>1, <3>1
  <2> QED BY <2>1, <2>2
<1>3. Queued(tasks) \subseteq 1 .. db_accepted
  BY <1>1 DEF Queued
<1> QED BY <1>1, <1>2, <1>3

LEMMA AddTaskIInv ==
  ASSUME D!DatabaseTasksAssumption, TasksIInv, NEW p \in Askers \cup {Disp}, D!AddTask(p)
  PROVE  TasksIInv'
<1> DEFINE n == db_accepted
           t == Append(tasks, n + 1)
<1>1. /\ n < MaxQueries /\ db_accepted' = n + 1 /\ tasks' = t
      /\ signalling' \subseteq Askers \cup {Disp}
      /\ UNCHANGED <<threadState, hand, wpc, done, answers, dpc, db_dispatching, mark, saves>>
  BY DEF D!AddTask, D!dispatcher, TasksIInv, D!TypeOK
<1>2. /\ tasks \in Seq(1 .. n) /\ n \in Nat
      /\ Hands \cup done \cup {0} \in SUBSET (0 .. n) /\ Queued(tasks) \subseteq 1 .. n
  BY TasksFacts
<1>3. Increasing(tasks) /\ Younger(tasks, Hands \cup done \cup {0})
  BY DEF TasksIInv
<1>4. /\ t \in Seq(1 .. n + 1) /\ Increasing(t) /\ Younger(t, Hands \cup done \cup {0})
      /\ Queued(t) = Queued(tasks) \cup {n + 1}
  BY <1>2, <1>3, QueuedAppended
<1> HIDE DEF t
<1>5. Queued(t) \cup Hands \cup done \cup {0} = 0 .. n + 1
  <2>1. Queued(tasks) \cup Hands \cup done \cup {0} = 0 .. n
    BY DEF TasksIInv
  <2>2. (0 .. n) \cup {n + 1} = 0 .. n + 1
    BY <1>2
  <2> QED BY <1>4, <2>1, <2>2
<1>6. D!TypeOK'
  <2>1. D!TypeOK
    BY DEF TasksIInv
  <2>2. n + 1 \in 0 .. MaxQueries /\ 0 .. n \subseteq 0 .. n + 1 /\ 1 .. n \subseteq 1 .. n + 1
    BY <1>1, <1>2 DEF D!DatabaseTasksAssumption
  <2>3. hand' \in [D!Executors -> 0 .. n + 1]
    BY <1>1, <2>1, <2>2 DEF D!TypeOK
  <2> QED BY <1>1, <1>4, <2>1, <2>2, <2>3 DEF D!TypeOK
<1> QED BY <1>1, <1>4, <1>5, <1>6 DEF TasksIInv, Hands

\* Of an executor that has nothing in hand and takes the oldest query, the other one
\* being o.
LEMMA Popped ==
  ASSUME D!DatabaseTasksAssumption, TasksIInv, NEW e \in {Worker, Disp}, NEW o \in {Worker, Disp}, o # e,
         hand[e] = 0, tasks # <<>>, D!Pop(e), UNCHANGED <<db_accepted, done>>
  PROVE  /\ tasks' \in Seq(1 .. db_accepted) /\ hand' \in [D!Executors -> 0 .. db_accepted]
         /\ Queued(tasks)' \cup Hands' \cup done \cup {0} = 0 .. db_accepted
         /\ Increasing(tasks)' /\ Younger(tasks', Hands' \cup done \cup {0})
         /\ Hands' \cap done = {}
         /\ hand'[e] \in 1 .. db_accepted /\ hand'[o] = hand[o] /\ hand'[e] # hand[o]
         /\ \A q \in done : q < hand'[e]
<1> DEFINE n == db_accepted
           h == Head(tasks)
           t == Tail(tasks)
           X == Hands \cup done \cup {0}
<1>1. /\ tasks \in Seq(1 .. n) /\ n \in Nat /\ X \in SUBSET (0 .. n)
  BY TasksFacts
<1>2. Increasing(tasks) /\ Younger(tasks, X)
  BY DEF TasksIInv
<1>3. /\ t \in Seq(1 .. n) /\ Increasing(t) /\ Younger(t, X \cup {h})
      /\ Queued(tasks) = Queued(t) \cup {h} /\ h \in 1 .. n
      /\ \A x \in X : x < h
  BY <1>1, <1>2, QueuedTail
<1>4. tasks' = t /\ hand' = [hand EXCEPT ![e] = h]
  BY DEF D!Pop
<1> HIDE DEF h, t
<1>5. hand \in [D!Executors -> 0 .. n] /\ D!Executors = {Worker, Disp}
  BY DEF TasksIInv, D!TypeOK, D!Executors
<1>6. hand' \in [D!Executors -> 0 .. n] /\ hand'[e] = h /\ hand'[o] = hand[o]
  BY <1>1, <1>3, <1>4, <1>5
<1>7. Hands = {0, hand[o]} /\ Hands' = {h, hand[o]}
  BY <1>6 DEF Hands
<1>8. Younger(t, Hands' \cup done \cup {0})
  BY <1>3, <1>7 DEF Younger
<1>9. Queued(t) \cup Hands' \cup done \cup {0} = 0 .. n
  BY <1>3, <1>7 DEF TasksIInv
<1>10. h \notin done /\ h # hand[o]
  BY <1>1, <1>3, <1>7
<1> QED BY <1>3, <1>4, <1>6, <1>7, <1>8, <1>9, <1>10 DEF TasksIInv

\* Of an executor that has executed the query in its hand.
LEMMA Executed ==
  ASSUME D!DatabaseTasksAssumption, TasksIInv, NEW e \in {Worker, Disp}, NEW o \in {Worker, Disp}, o # e,
         hand[e] # 0, D!RunTask(e), UNCHANGED <<tasks, db_accepted>>
  PROVE  /\ hand' \in [D!Executors -> 0 .. db_accepted] /\ hand'[e] = 0 /\ hand'[o] = hand[o]
         /\ Queued(tasks) \cup Hands' \cup done' \cup {0} = 0 .. db_accepted
         /\ Younger(tasks, Hands' \cup done' \cup {0}) /\ Hands' \cap done' = {}
         /\ done' = done \cup {hand[e]} /\ done' \subseteq 1 .. db_accepted
         /\ answers' \in Seq(done' \cap Callbacks)
         /\ answers' \in {answers, Append(answers, hand[e])}
<1> DEFINE n == db_accepted
           q == hand[e]
<1>1. done' = done \cup {q} /\ answers' = D!Answer(q) /\ hand' = [hand EXCEPT ![e] = 0]
  BY DEF D!RunTask, D!NoQuery
<1>2. hand \in [D!Executors -> 0 .. n] /\ D!Executors = {Worker, Disp} /\ n \in Nat
      /\ done \subseteq 1 .. n
  BY TasksFacts DEF TasksIInv, D!TypeOK, D!Executors
<1>3. hand' \in [D!Executors -> 0 .. n] /\ hand'[e] = 0 /\ hand'[o] = hand[o]
  BY <1>1, <1>2
<1>4. q \in 1 .. n
  BY <1>2
<1>5. Hands = {q, hand[o]} /\ Hands' = {0, hand[o]}
  BY <1>3 DEF Hands
<1>6. q # hand[o]
  BY DEF TasksIInv
<1>7. answers' \in Seq(done' \cap Callbacks) /\ answers' \in {answers, Append(answers, q)}
  <2>1. answers \in Seq(done \cap Callbacks)
    BY DEF TasksIInv, D!TypeOK
  <2>2. answers \in Seq(done' \cap Callbacks)
    BY <1>1, <2>1
  <2> QED BY <1>1, <2>2 DEF D!Answer
<1>8. Queued(tasks) \cup Hands \cup done \cup {0} = 0 .. n /\ Hands \cap done = {}
      /\ Younger(tasks, Hands \cup done \cup {0})
  BY DEF TasksIInv
<1>9. Younger(tasks, Hands' \cup done' \cup {0})
  BY <1>1, <1>5, <1>8 DEF Younger
<1>10. Hands' \cap done' = {}
  BY <1>1, <1>2, <1>4, <1>5, <1>6, <1>8
<1> QED BY <1>1, <1>2, <1>3, <1>4, <1>5, <1>7, <1>8, <1>9, <1>10

LEMMA TakeTaskIInv ==
  ASSUME D!DatabaseTasksAssumption, TasksIInv, D!TakeTask
  PROVE  TasksIInv'
<1>1. /\ D!Pop(Worker) /\ tasks # <<>> /\ wpc # "run" /\ wpc' = "run"
      /\ UNCHANGED <<threadState, db_accepted, signalling, done, answers, dpc, db_dispatching, mark, saves>>
  BY DEF D!TakeTask, D!dispatcher
<1>2. hand[Worker] = 0 /\ Disp # Worker
  BY <1>1 DEF TasksIInv, D!DatabaseTasksAssumption
<1>3. /\ tasks' \in Seq(1 .. db_accepted) /\ hand' \in [D!Executors -> 0 .. db_accepted]
      /\ Queued(tasks)' \cup Hands' \cup done \cup {0} = 0 .. db_accepted
      /\ Increasing(tasks)' /\ Younger(tasks', Hands' \cup done \cup {0})
      /\ Hands' \cap done = {}
      /\ hand'[Worker] \in 1 .. db_accepted /\ hand'[Disp] = hand[Disp] /\ hand'[Worker] # hand[Disp]
      /\ \A q \in done : q < hand'[Worker]
  BY <1>1, <1>2, Popped
<1>4. D!TypeOK'
  BY <1>1, <1>3 DEF TasksIInv, D!TypeOK
<1>5. saves = 0 => \A i \in 1 .. Len(answers) : answers[i] < hand'[Worker]
  <2>1. answers \in Seq(done \cap Callbacks)
    BY DEF TasksIInv, D!TypeOK
  <2>2. \A i \in 1 .. Len(answers) : answers[i] \in done
    BY <2>1
  <2> QED BY <1>3, <2>2
<1>6. dpc' = "flushed" => 1 .. mark' \ done' \subseteq {hand'[Worker]}
  <2>1. dpc = "flushed" => 1 .. mark \ done \subseteq {0}
    BY <1>2 DEF TasksIInv
  <2> QED BY <1>1, <2>1, TasksFacts
<1>7. hand'[Worker] # 0 /\ hand'[Worker] # hand'[Disp]
  BY <1>3
<1>8. hand'[Disp] # 0 => dpc' \in {"flush", "lastflush"}
  BY <1>1, <1>3 DEF TasksIInv
<1>9. Queued(tasks)' \cup Hands' \cup done' \cup {0} = 0 .. db_accepted'
  BY <1>1, <1>3
<1>10. Younger(tasks, Hands \cup done \cup {0})' /\ Hands' \cap done' = {}
  BY <1>1, <1>3
<1>11. saves' = 0 => /\ dpc' = "idle" /\ Increasing(answers')
                     /\ \A i \in 1 .. Len(answers') : answers'[i] < hand'[Worker]
  BY <1>1, <1>5 DEF TasksIInv
<1> QED BY <1>1, <1>3, <1>4, <1>6, <1>7, <1>8, <1>9, <1>10, <1>11 DEF TasksIInv

LEMMA FlushTakeIInv ==
  ASSUME D!DatabaseTasksAssumption, TasksIInv, D!FlushTake
  PROVE  TasksIInv'
<1>1. /\ D!Pop(Disp) /\ tasks # <<>> /\ hand[Disp] = 0 /\ dpc \in {"flush", "lastflush"}
      /\ UNCHANGED <<threadState, db_accepted, wpc, signalling, done, answers, dpc, db_dispatching, mark, saves>>
  BY DEF D!FlushTake, D!dispatcher, D!NoQuery
<1>2. Disp # Worker
  BY DEF D!DatabaseTasksAssumption
<1>3. /\ tasks' \in Seq(1 .. db_accepted) /\ hand' \in [D!Executors -> 0 .. db_accepted]
      /\ Queued(tasks)' \cup Hands' \cup done \cup {0} = 0 .. db_accepted
      /\ Increasing(tasks)' /\ Younger(tasks', Hands' \cup done \cup {0})
      /\ Hands' \cap done = {}
      /\ hand'[Disp] \in 1 .. db_accepted /\ hand'[Worker] = hand[Worker] /\ hand'[Disp] # hand[Worker]
      /\ \A q \in done : q < hand'[Disp]
  BY <1>1, <1>2, Popped
<1>4. D!TypeOK'
  BY <1>1, <1>3 DEF TasksIInv, D!TypeOK
<1>5. Queued(tasks)' \cup Hands' \cup done' \cup {0} = 0 .. db_accepted'
  BY <1>1, <1>3
<1>6. Younger(tasks, Hands \cup done \cup {0})' /\ Hands' \cap done' = {}
  BY <1>1, <1>3
<1>7. hand'[Worker] # 0 <=> wpc' = "run"
  BY <1>1, <1>3 DEF TasksIInv
<1>8. saves' # 0 /\ dpc' # "flushed"
  BY <1>1 DEF TasksIInv
<1> QED BY <1>1, <1>3, <1>4, <1>5, <1>6, <1>7, <1>8 DEF TasksIInv

\* What an execution leaves of the invariant, whoever executes.
LEMMA IncreasingAppended ==
  ASSUME NEW X \in SUBSET Nat, NEW s \in Seq(X), Increasing(s), NEW q \in Nat,
         \A i \in 1 .. Len(s) : s[i] < q
  PROVE  Increasing(Append(s, q))
<1> DEFINE t == Append(s, q)
<1>1. /\ Len(t) = Len(s) + 1 /\ t[Len(t)] = q /\ Len(s) \in Nat
      /\ \A i \in 1 .. Len(s) : t[i] = s[i] /\ s[i] \in Nat
  <2>1. s \in Seq(X \cup {q})
    OBVIOUS
  <2>2. Append(s, q) \in Seq(X \cup {q}) /\ Len(s) \in Nat /\ \A i \in 1 .. Len(s) : s[i] \in X
    BY <2>1
  <2>3. /\ Len(t) = Len(s) + 1 /\ t[Len(t)] = q
        /\ \A i \in 1 .. Len(s) : t[i] = s[i]
    BY <2>2
  <2> QED BY <2>2, <2>3
<1> HIDE DEF t
<1> SUFFICES ASSUME NEW i \in 1 .. Len(t), NEW j \in 1 .. Len(t), i < j PROVE t[i] < t[j]
  BY DEF Increasing, t
<1>2. i \in 1 .. Len(s)
  BY <1>1
<1>3. CASE j = Len(t)
  <2>1. t[j] = q /\ t[i] < q
    BY <1>1, <1>2, <1>3
  <2> QED BY <2>1
<1>4. CASE j # Len(t)
  <2>1. j \in 1 .. Len(s)
    BY <1>1, <1>4
  <2> QED BY <1>1, <1>2, <2>1 DEF Increasing
<1> QED BY <1>3, <1>4

LEMMA WorkerRunsIInv ==
  ASSUME D!DatabaseTasksAssumption, TasksIInv, D!WorkerRuns
  PROVE  TasksIInv'
<1> DEFINE q == hand[Worker]
<1>1. /\ D!RunTask(Worker) /\ wpc = "run" /\ wpc' = "loop"
      /\ UNCHANGED <<threadState, tasks, db_accepted, signalling, dpc, db_dispatching, mark, saves>>
  BY DEF D!WorkerRuns, D!dispatcher
<1>2. q # 0 /\ Disp # Worker
  BY <1>1 DEF TasksIInv, D!DatabaseTasksAssumption
<1>3. /\ hand' \in [D!Executors -> 0 .. db_accepted] /\ hand'[Worker] = 0 /\ hand'[Disp] = hand[Disp]
      /\ Queued(tasks) \cup Hands' \cup done' \cup {0} = 0 .. db_accepted
      /\ Younger(tasks, Hands' \cup done' \cup {0}) /\ Hands' \cap done' = {}
      /\ done' = done \cup {q} /\ done' \subseteq 1 .. db_accepted
      /\ answers' \in Seq(done' \cap Callbacks)
      /\ answers' \in {answers, Append(answers, q)}
  BY <1>1, <1>2, Executed
<1>4. D!TypeOK'
  BY <1>1, <1>3 DEF TasksIInv, D!TypeOK
<1>5. Queued(tasks)' \cup Hands' \cup done' \cup {0} = 0 .. db_accepted'
  BY <1>1, <1>3
<1>6. Younger(tasks, Hands \cup done \cup {0})' /\ Increasing(tasks')
  BY <1>1, <1>3 DEF TasksIInv
<1>7. ASSUME saves = 0 PROVE dpc' = "idle" /\ Increasing(answers')
  <2>1. dpc = "idle" /\ Increasing(answers) /\ \A i \in 1 .. Len(answers) : answers[i] < q
    BY <1>2, <1>7 DEF TasksIInv
  <2>2. answers \in Seq(done \cap Callbacks) /\ done \cap Callbacks \in SUBSET Nat
    BY TasksFacts DEF TasksIInv, D!TypeOK
  <2>3. q \in Nat
    BY TasksFacts
  <2>4. Increasing(Append(answers, q))
    BY <2>1, <2>2, <2>3, IncreasingAppended
  <2>5. CASE answers' = answers
    BY <1>1, <2>1, <2>5
  <2>6. CASE answers' = Append(answers, q)
    BY <1>1, <2>1, <2>4, <2>6, Zenon
  <2> QED BY <1>3, <2>5, <2>6
<1>8. dpc' = "flushed" => 1 .. mark' \ done' \subseteq {hand'[Worker]}
  BY <1>1, <1>3 DEF TasksIInv
<1>9. hand'[Disp] # 0 => dpc' \in {"flush", "lastflush"}
  BY <1>1, <1>3 DEF TasksIInv
<1> QED BY <1>1, <1>3, <1>4, <1>5, <1>6, <1>7, <1>8, <1>9 DEF TasksIInv

LEMMA FlushRunsIInv ==
  ASSUME D!DatabaseTasksAssumption, TasksIInv, D!FlushRuns
  PROVE  TasksIInv'
<1>1. /\ D!RunTask(Disp) /\ hand[Disp] # 0
      /\ UNCHANGED <<threadState, tasks, db_accepted, wpc, signalling, dpc, db_dispatching, mark, saves>>
  BY DEF D!FlushRuns, D!dispatcher, D!NoQuery
<1>2. Disp # Worker
  BY DEF D!DatabaseTasksAssumption
<1>3. /\ hand' \in [D!Executors -> 0 .. db_accepted] /\ hand'[Disp] = 0 /\ hand'[Worker] = hand[Worker]
      /\ Queued(tasks) \cup Hands' \cup done' \cup {0} = 0 .. db_accepted
      /\ Younger(tasks, Hands' \cup done' \cup {0}) /\ Hands' \cap done' = {}
      /\ done' = done \cup {hand[Disp]} /\ done' \subseteq 1 .. db_accepted
      /\ answers' \in Seq(done' \cap Callbacks)
      /\ answers' \in {answers, Append(answers, hand[Disp])}
  BY <1>1, <1>2, Executed
<1>4. D!TypeOK'
  BY <1>1, <1>3 DEF TasksIInv, D!TypeOK
<1>5. Queued(tasks)' \cup Hands' \cup done' \cup {0} = 0 .. db_accepted'
  BY <1>1, <1>3
<1>6. Younger(tasks, Hands \cup done \cup {0})' /\ Increasing(tasks')
  BY <1>1, <1>3 DEF TasksIInv
<1>7. dpc \in {"flush", "lastflush"}
  BY <1>1 DEF TasksIInv
<1>8. saves' # 0 /\ dpc' # "flushed"
  BY <1>1, <1>7 DEF TasksIInv
<1>9. hand'[Worker] # 0 <=> wpc' = "run"
  BY <1>1, <1>3 DEF TasksIInv
<1> QED BY <1>1, <1>3, <1>4, <1>5, <1>6, <1>8, <1>9 DEF TasksIInv

LEMMA SaveEndsIInv ==
  ASSUME D!DatabaseTasksAssumption, TasksIInv, D!SaveEnds
  PROVE  TasksIInv'
<1>1. /\ dpc = "flush" /\ hand[Disp] = 0 /\ tasks = <<>> /\ dpc' = "flushed"
      /\ UNCHANGED <<threadState, tasks, db_accepted, hand, wpc, signalling, done, answers,
                     db_dispatching, mark, saves>>
  BY DEF D!SaveEnds, D!FlushEnds, D!NoQuery
<1>2. Queued(tasks) = {}
  BY <1>1 DEF Queued
<1>3. mark \in 0 .. db_accepted /\ db_accepted \in Nat
  BY TasksFacts DEF TasksIInv, D!TypeOK
<1>4. 1 .. mark \subseteq 0 .. db_accepted
  BY <1>3
<1>5. 1 .. mark \ done \subseteq {hand[Worker]}
  BY <1>1, <1>2, <1>4 DEF TasksIInv, Hands
<1>6. D!TypeOK'
  BY <1>1 DEF TasksIInv, D!TypeOK
<1>7. saves # 0
  BY <1>1 DEF TasksIInv
<1>8. hand[Disp] = 0
  BY <1>1
<1>9. UNCHANGED <<tasks, db_accepted, hand, wpc, done, answers, mark, saves>> /\ dpc' = "flushed"
  BY <1>1
<1> QED BY <1>5, <1>6, <1>7, <1>8, <1>9 DEF TasksIInv, Hands, Queued

\* The steps that leave queries, hands and answers alone.
LEMMA ElseTasksIInv ==
  ASSUME D!DatabaseTasksAssumption, TasksIInv,
         \/ \E p \in Askers \cup {Disp} : D!NotifyOne(p)
         \/ D!TestState \/ D!Wait \/ D!NothingToTake \/ D!SpuriousWakeup
         \/ D!SaveGameState \/ D!SaveReturns \/ D!StopTasks \/ D!StopDispatcher
         \/ D!ShutdownSetsState \/ D!ShutdownNotifies
  PROVE  TasksIInv'
<1>1. /\ UNCHANGED <<tasks, db_accepted, hand, done, answers>>
      /\ wpc' = "run" <=> wpc = "run"
      /\ wpc' \in {"loop", "acquire", "waiting", "woken", "run", "end"}
  BY DEF D!NotifyOne, D!TestState, D!Wait, D!NothingToTake, D!SpuriousWakeup, D!SaveGameState,
         D!SaveReturns, D!StopTasks, D!StopDispatcher, D!ShutdownSetsState, D!ShutdownNotifies,
         D!Wake, TasksIInv, D!TypeOK
<1>2. /\ threadState' \in {"RUNNING", "CLOSING", "TERMINATED"} /\ db_dispatching' \in BOOLEAN
      /\ signalling' \subseteq Askers \cup {Disp}
      /\ dpc' \in {"idle", "flush", "flushed", "stopped", "lastflush", "down"}
  BY DEF D!NotifyOne, D!TestState, D!Wait, D!NothingToTake, D!SpuriousWakeup, D!SaveGameState,
         D!SaveReturns, D!StopTasks, D!StopDispatcher, D!ShutdownSetsState, D!ShutdownNotifies,
         D!dispatcher, TasksIInv, D!TypeOK
<1>3. \/ UNCHANGED <<dpc, saves, mark>>
      \/ /\ saves < MaxFlushes
         /\ saves' = saves + 1 /\ mark' = db_accepted /\ dpc' = "flush" /\ dpc = "idle"
      \/ UNCHANGED <<saves, mark>> /\ hand[Disp] = 0 /\ dpc # "idle" /\ dpc' # "flushed"
  BY DEF D!NotifyOne, D!TestState, D!Wait, D!NothingToTake, D!SpuriousWakeup, D!SaveGameState,
         D!SaveReturns, D!StopTasks, D!StopDispatcher, D!ShutdownSetsState, D!ShutdownNotifies,
         D!dispatcher, D!NoQuery, TasksIInv
<1>4. saves' \in 0 .. MaxFlushes /\ mark' \in 0 .. db_accepted
      /\ (saves' = 0 => saves = 0 /\ dpc' = "idle")
  <2>1. saves \in 0 .. MaxFlushes /\ mark \in 0 .. db_accepted /\ db_accepted \in Nat
    BY TasksFacts DEF TasksIInv, D!TypeOK
  <2>2. saves = 0 => dpc = "idle"
    BY DEF TasksIInv
  <2> QED BY <1>3, <2>1, <2>2 DEF D!DatabaseTasksAssumption
<1>5. D!TypeOK'
  BY <1>1, <1>2, <1>4 DEF TasksIInv, D!TypeOK
<1>6. hand'[Disp] # 0 => dpc' \in {"flush", "lastflush"}
  BY <1>1, <1>3 DEF TasksIInv
<1>7. dpc' = "flushed" => 1 .. mark' \ done' \subseteq {hand'[Worker]}
  BY <1>1, <1>3 DEF TasksIInv
<1>8. saves' = 0 => /\ dpc' = "idle" /\ Increasing(answers')
                    /\ hand'[Worker] # 0 => \A i \in 1 .. Len(answers') : answers'[i] < hand'[Worker]
  BY <1>1, <1>4 DEF TasksIInv
<1>9. hand'[Worker] # 0 <=> wpc' = "run"
  BY <1>1 DEF TasksIInv
<1>10. Hands' = Hands
  BY <1>1 DEF Hands
<1> QED BY <1>1, <1>5, <1>6, <1>7, <1>8, <1>9, <1>10 DEF TasksIInv

LEMMA TasksStepIInv ==
  ASSUME D!DatabaseTasksAssumption, TasksIInv, [D!Next]_(D!vars)
  PROVE  TasksIInv'
<1>1. CASE D!Next
  BY <1>1, AddTaskIInv, TakeTaskIInv, FlushTakeIInv, WorkerRunsIInv, FlushRunsIInv, SaveEndsIInv,
     ElseTasksIInv
  DEF D!Next, D!ThreadMain, D!DispatcherSteps
<1>2. CASE UNCHANGED D!vars
  BY <1>2 DEF D!vars, TasksIInv, D!TypeOK, Hands, Queued, Increasing, Younger
<1> QED BY <1>1, <1>2

-----------------------------------------------------------------------------
(* The parts side by side.                                                 *)

\* A step of one part leaves the others, and which part it is, alone.
LEMMA StepOfOne ==
  ASSUME [MCNext]_all
  PROVE  /\ part' = part
         /\ [N!Next]_(N!vars) /\ [L!Next]_(L!vars) /\ [O!Next]_(O!vars)
         /\ [S!Next]_(S!vars) /\ [D!Next]_(D!vars)
<1> DEFINE same == /\ UNCHANGED conn_vars => UNCHANGED N!vars
                   /\ UNCHANGED life_vars => UNCHANGED L!vars
                   /\ UNCHANGED pool_vars => UNCHANGED O!vars
                   /\ UNCHANGED save_vars => UNCHANGED S!vars
                   /\ UNCHANGED db_vars => UNCHANGED D!vars
<1>1. same
  BY DEF conn_vars, N!vars, life_vars, L!vars, L!game, L!port, L!services, pool_vars, O!vars,
         save_vars, S!vars, S!game, db_vars, D!vars
<1> HIDE DEF same
<1>2. CASE UNCHANGED all
  BY <1>1, <1>2 DEF all, same
<1>3. CASE MCNext
  BY <1>1, <1>3 DEF MCNext, same, todo_step, conn_step, life_step, pool_step, save_step, db_step
<1> QED BY <1>2, <1>3

LEMMA ServicesAssumed ==
  /\ MaxQueued \in Nat /\ L!LifeAssumption /\ OutputConstants
  /\ S!SaveAssumption /\ D!DatabaseTasksAssumption
<1>1. /\ N!ConnectionAssumption /\ L!LifeAssumption /\ O!OutputAssumption
      /\ S!SaveAssumption /\ D!DatabaseTasksAssumption
  BY ServicesAssumption
<1>2. O!IsFiniteSet(Protocols) => IsFiniteSet(Protocols)
  BY DEF O!IsFiniteSet, IsFiniteSet
<1> QED BY <1>1, <1>2 DEF N!ConnectionAssumption, O!OutputAssumption, OutputConstants

\* A connection is released once and writes what it is sent in order; buffers reach it in
\* order and padded, however the threads interleave (connection.cpp, outputmessage.cpp).
THEOREM NetworkKeepsOrder == MCSpec => []NetworkInv
<1>1. MCInit => ConnIInv /\ OutputIInv
  BY ServicesAssumed, ConnInitIInv, OutputInitIInv DEF MCInit
<1>2. ConnIInv /\ OutputIInv /\ [MCNext]_all => (ConnIInv /\ OutputIInv)'
  BY ServicesAssumed, StepOfOne, ConnStepIInv, OutputStepIInv
<1>3. ConnIInv /\ OutputIInv => NetworkInv
  BY ServicesAssumed, ConnIInvImpliesInv, OutputIInvImpliesInv DEF NetworkInv
<1> QED BY <1>1, <1>2, <1>3, PTL DEF MCSpec

\* Each port is served, or will be, in exactly one way until the shutdown, none is opened
\* after it was shut, and main joins all threads (server.cpp, otserv.cpp).
THEOREM PortsAreServed == MCSpec => []LifeInv
<1>1. MCInit => LifeIInv
  BY ServicesAssumed, LifeInitIInv DEF MCInit
<1>2. LifeIInv /\ [MCNext]_all => LifeIInv'
  BY ServicesAssumed, StepOfOne, LifeStepIInv
<1>3. LifeIInv => LifeInv
  BY LifeIInvImpliesInv DEF LifeInv
<1> QED BY <1>1, <1>2, <1>3, PTL DEF MCSpec

\* Saves keep others off their session and store whole versions, none older than the last
\* that succeeded, as long as no statement ran outside its transaction; and two threads
\* execute each asynchronous query once, in order but for one (iologindata.cpp,
\* database.cpp, databasetasks.cpp).
THEOREM StorageIsConsistent == MCSpec => []StorageInv
<1>1. MCInit => SaveIInv /\ TasksIInv
  BY ServicesAssumed, SaveInitIInv, TasksInitIInv DEF MCInit
<1>2. SaveIInv /\ TasksIInv /\ [MCNext]_all => (SaveIInv /\ TasksIInv)'
  BY ServicesAssumed, StepOfOne, SaveStepIInv, TasksStepIInv
<1>3. SaveIInv /\ TasksIInv => StorageInv
  BY ServicesAssumed, SaveIInvImpliesInv, TasksIInvImpliesInv DEF StorageInv
<1> QED BY <1>1, <1>2, <1>3, PTL DEF MCSpec
=============================================================================
