--------------------------- MODULE SchedulerProofs ---------------------------
(***************************************************************************)
(* The scheduler knows each timer and completes each event once, neither   *)
(* early nor, but for one task, after its shutdown: for any number of      *)
(* events, any delays and any number of ids.                               *)
(*                                                                         *)
(* Inv is not inductive.  It does not say that the handler of addEvent     *)
(* runs once, on which it rests that nothing is armed twice; that a timer  *)
(* is due only after the delay; and that nobody is handed on any more once *)
(* one task was late.                                                      *)
(***************************************************************************)
EXTENDS Scheduler, FiniteSetTheorems, TLAPS

\* The queue s holds the handler h once, and not at all.
Once(s, h) == \E i \in 1 .. Len(s) : s[i] = h /\ \A j \in 1 .. Len(s) : s[j] = h => j = i
None(s, h) == \A i \in 1 .. Len(s) : s[i] # h

\* addEvent posts one handler, and the event is armed when it runs.
AddsOnce ==
  \A e \in Events : IF status[e] = "posted" THEN Once(ready, <<"add", e>>)
                                            ELSE None(ready, <<"add", e>>)

\* OneCompletion, without counting.
FiresOnce ==
  \A e \in Events : IF status[e] \in {"expired", "aborted"} THEN Once(ready, <<"fire", e>>)
                                                            ELSE None(ready, <<"fire", e>>)

InTime ==
  \A e \in Events :
    /\ asked[e] <= now
    /\ status[e] \in {"waiting", "expired"} => due[e] >= asked[e] + Delay[e]
    /\ status[e] = "expired" => due[e] <= now

OneFiring == \A e, f \in Events : status[e] = "firing" /\ status[f] = "firing" => e = f

LateIsLast ==
  late # {} => threadState = "TERMINATED" /\ Idle /\ \E e \in Events : late = {e}

IInv ==
  /\ TypeOK /\ WaitingIsKnown /\ NeverEarly
  /\ AddsOnce /\ FiresOnce /\ InTime /\ OneFiring /\ LateIsLast

-----------------------------------------------------------------------------
(* Queues.                                                                 *)

\* Counting a handler is seeing it once or not at all.
LEMMA CountsOnce ==
  ASSUME NEW s \in Seq(Handlers), NEW h
  PROVE  /\ Once(s, h) => Cardinality({i \in 1 .. Len(s) : s[i] = h}) = 1
         /\ None(s, h) => Cardinality({i \in 1 .. Len(s) : s[i] = h}) = 0
<1>1. ASSUME Once(s, h) PROVE \E i : {k \in 1 .. Len(s) : s[k] = h} = {i}
  BY <1>1 DEF Once
<1>2. ASSUME None(s, h) PROVE {k \in 1 .. Len(s) : s[k] = h} = {}
  BY <1>2 DEF None
<1> QED BY <1>1, <1>2, FS_Singleton, FS_EmptySet

LEMMA AfterAppend ==
  ASSUME NEW s \in Seq(Handlers), NEW g \in Handlers, NEW h
  PROVE  /\ Append(s, g) \in Seq(Handlers)
         /\ g # h /\ Once(s, h) => Once(Append(s, g), h)
         /\ g # h /\ None(s, h) => None(Append(s, g), h)
         /\ None(s, g) => Once(Append(s, g), g)
<1> DEFINE t == Append(s, g)
<1>1. /\ t \in Seq(Handlers) /\ Len(t) = Len(s) + 1 /\ Len(s) \in Nat
      /\ \A i \in 1 .. Len(s) : t[i] = s[i]
      /\ t[Len(s) + 1] = g
  OBVIOUS
<1> HIDE DEF t
<1>2. ASSUME g # h, Once(s, h) PROVE Once(t, h)
  <2>1. PICK i \in 1 .. Len(s) : s[i] = h /\ \A j \in 1 .. Len(s) : s[j] = h => j = i
    BY <1>2 DEF Once
  <2>2. i \in 1 .. Len(t) /\ t[i] = h
    BY <1>1, <2>1
  <2>3. \A j \in 1 .. Len(t) : t[j] = h => j = i
    BY <1>1, <1>2, <2>1
  <2> QED BY <2>2, <2>3 DEF Once
<1>3. ASSUME g # h, None(s, h) PROVE None(t, h)
  BY <1>1, <1>3 DEF None
<1>4. ASSUME None(s, g) PROVE Once(t, g)
  <2>1. Len(s) + 1 \in 1 .. Len(t)
    BY <1>1
  <2>2. \A j \in 1 .. Len(t) : t[j] = g => j = Len(s) + 1
    BY <1>1, <1>4 DEF None
  <2> QED BY <1>1, <2>1, <2>2 DEF Once
<1> QED BY <1>1, <1>2, <1>3, <1>4 DEF t

LEMMA AfterTail ==
  ASSUME NEW s \in Seq(Handlers), s # <<>>, NEW h
  PROVE  /\ Tail(s) \in Seq(Handlers)
         /\ h # Head(s) /\ Once(s, h) => Once(Tail(s), h)
         /\ None(s, h) => None(Tail(s), h)
         /\ Once(s, Head(s)) => None(Tail(s), Head(s))
<1> DEFINE t == Tail(s)
<1>1. /\ t \in Seq(Handlers) /\ Len(t) = Len(s) - 1 /\ Len(s) \in Nat \ {0}
      /\ \A i \in 1 .. Len(t) : t[i] = s[i + 1]
      /\ s[1] = Head(s)
  OBVIOUS
<1> HIDE DEF t
<1>2. ASSUME h # Head(s), Once(s, h) PROVE Once(t, h)
  <2>1. PICK i \in 1 .. Len(s) : s[i] = h /\ \A j \in 1 .. Len(s) : s[j] = h => j = i
    BY <1>2 DEF Once
  <2>2. i - 1 \in 1 .. Len(t) /\ t[i - 1] = h
    BY <1>1, <1>2, <2>1
  <2>3. \A j \in 1 .. Len(t) : t[j] = h => j = i - 1
    BY <1>1, <2>1
  <2> QED BY <2>2, <2>3 DEF Once
<1>3. ASSUME None(s, h) PROVE None(t, h)
  BY <1>1, <1>3 DEF None
<1>4. ASSUME Once(s, Head(s)) PROVE None(t, Head(s))
  <2>1. PICK i \in 1 .. Len(s) : \A j \in 1 .. Len(s) : s[j] = Head(s) => j = i
    BY <1>4 DEF Once
  <2>2. i = 1
    BY <1>1, <2>1
  <2> QED BY <1>1, <2>1, <2>2 DEF None
<1> QED BY <1>1, <1>2, <1>3, <1>4 DEF t

LEMMA AfterConcat ==
  ASSUME NEW s \in Seq(Handlers), NEW t \in Seq(Handlers), NEW h
  PROVE  /\ s \o t \in Seq(Handlers)
         /\ Once(s, h) /\ None(t, h) => Once(s \o t, h)
         /\ None(s, h) /\ Once(t, h) => Once(s \o t, h)
         /\ None(s, h) /\ None(t, h) => None(s \o t, h)
<1> DEFINE u == s \o t
<1>1. /\ u \in Seq(Handlers) /\ Len(u) = Len(s) + Len(t) /\ Len(s) \in Nat /\ Len(t) \in Nat
      /\ \A i \in 1 .. Len(s) : u[i] = s[i]
      /\ \A i \in 1 .. Len(t) : u[Len(s) + i] = t[i]
  OBVIOUS
<1> HIDE DEF u
<1>a. \A i \in 1 .. Len(u) :
        i \in 1 .. Len(s) \/ (i - Len(s) \in 1 .. Len(t) /\ u[i] = t[i - Len(s)])
  <2> TAKE i \in 1 .. Len(u)
  <2> SUFFICES ASSUME i \notin 1 .. Len(s) PROVE i - Len(s) \in 1 .. Len(t) /\ u[i] = t[i - Len(s)]
    OBVIOUS
  <2>1. i - Len(s) \in 1 .. Len(t)
    BY <1>1
  <2>2. Len(s) + (i - Len(s)) = i
    BY <1>1
  <2> QED BY <1>1, <2>1, <2>2
<1>2. ASSUME Once(s, h), None(t, h) PROVE Once(u, h)
  <2>1. PICK i \in 1 .. Len(s) : s[i] = h /\ \A j \in 1 .. Len(s) : s[j] = h => j = i
    BY <1>2 DEF Once
  <2>2. i \in 1 .. Len(u) /\ u[i] = h
    BY <1>1, <2>1
  <2>3. ASSUME NEW j \in 1 .. Len(u), u[j] = h PROVE j = i
    <3>1. j \in 1 .. Len(s)
      BY <1>a, <1>2, <2>3 DEF None
    <3> QED BY <1>1, <2>1, <2>3, <3>1
  <2> QED BY <2>2, <2>3 DEF Once
<1>3. ASSUME None(s, h), Once(t, h) PROVE Once(u, h)
  <2>1. PICK i \in 1 .. Len(t) : t[i] = h /\ \A j \in 1 .. Len(t) : t[j] = h => j = i
    BY <1>3 DEF Once
  <2>2. Len(s) + i \in 1 .. Len(u) /\ u[Len(s) + i] = h
    BY <1>1, <2>1
  <2>3. ASSUME NEW j \in 1 .. Len(u), u[j] = h PROVE j = Len(s) + i
    <3>1. j \notin 1 .. Len(s)
      BY <1>1, <1>3, <2>3 DEF None
    <3>2. j - Len(s) \in 1 .. Len(t) /\ t[j - Len(s)] = h
      BY <1>a, <2>3, <3>1
    <3>3. j - Len(s) = i
      BY <2>1, <3>2
    <3> QED BY <1>1, <3>3
  <2> QED BY <2>2, <2>3 DEF Once
<1>4. ASSUME None(s, h), None(t, h) PROVE None(u, h)
  BY <1>1, <1>a, <1>4 DEF None
<1> QED BY <1>1, <1>2, <1>3, <1>4 DEF u

\* Cancelling posts the completion of each wait it aborts, once.
LEMMA FiresEach ==
  ASSUME SchedulerAssumption, NEW es \in SUBSET Events
  PROVE  /\ Fires(es) \in Seq(Handlers)
         /\ \A e \in es : Once(Fires(es), <<"fire", e>>)
         /\ \A h : h \notin {"fire"} \X es => None(Fires(es), h)
<1> DEFINE n == Cardinality(es)
           Whole(s) == {s[i][2] : i \in DOMAIN s} = es
<1>1. IsFiniteSet(es) /\ n \in Nat /\ ExistsBijection(1 .. n, es)
  BY FS_Subset, FS_CardinalityType DEF SchedulerAssumption
<1>2. PICK f \in [1 .. n -> es] : \A e \in es : \E i \in 1 .. n : f[i] = e
  BY <1>1 DEF ExistsBijection, Bijection, Surjection
<1>3. \E s \in [1 .. n -> {"fire"} \X es] : Whole(s)
  <2> DEFINE w == [i \in 1 .. n |-> <<"fire", f[i]>>]
  <2>1. w \in [1 .. n -> {"fire"} \X es] /\ DOMAIN w = 1 .. n
    OBVIOUS
  <2>2. \A i \in 1 .. n : w[i][2] = f[i]
    OBVIOUS
  <2> HIDE DEF w
  <2>3. Whole(w)
    BY <1>2, <2>1, <2>2
  <2> QED BY <2>1, <2>3
<1> DEFINE s == Fires(es)
<1>0. s = CHOOSE q \in [1 .. n -> {"fire"} \X es] : Whole(q)
  BY DEF Fires
<1> HIDE DEF s, Whole
<1>4. s \in [1 .. n -> {"fire"} \X es] /\ Whole(s)
  BY <1>0, <1>3, Zenon
<1> USE DEF Whole
<1> HIDE DEF n
<1>5. s \in Seq({"fire"} \X es) /\ Len(s) = n /\ DOMAIN s = 1 .. n
  BY <1>1, <1>4
<1>6. s \in Seq(Handlers)
  BY <1>5 DEF Handlers
<1> DEFINE g == [i \in 1 .. n |-> s[i][2]]
<1>7. g \in Surjection(1 .. n, es)
  <2>1. g \in [1 .. n -> es]
    BY <1>4
  <2>2. ASSUME NEW e \in es PROVE \E i \in 1 .. n : g[i] = e
    <3>1. e \in {s[i][2] : i \in DOMAIN s}
      BY <1>4
    <3> QED BY <1>5, <3>1
  <2> QED BY <2>1, <2>2 DEF Surjection
<1>8. IsFiniteSet(1 .. n) /\ Cardinality(1 .. n) = n
  BY <1>1, FS_Interval
<1>9. g \in Injection(1 .. n, es)
  BY <1>7, <1>8, FS_SurjSameCardinalityImpliesInj DEF n
<1>10. \A i, j \in 1 .. n : s[i][2] = s[j][2] => i = j
  BY <1>9 DEF Injection, IsInjective
<1>11. ASSUME NEW e \in es PROVE Once(s, <<"fire", e>>)
  <2>1. PICK i \in 1 .. n : g[i] = e
    BY <1>7 DEF Surjection
  <2>2. s[i] = <<"fire", e>>
    BY <1>4, <2>1
  <2>3. \A j \in 1 .. n : s[j] = <<"fire", e>> => j = i
    BY <1>10, <2>2
  <2> QED BY <1>5, <2>2, <2>3 DEF Once
<1>12. ASSUME NEW h, h \notin {"fire"} \X es PROVE None(s, h)
  BY <1>4, <1>5, <1>12 DEF None
<1> QED BY <1>6, <1>11, <1>12 DEF s

\* What the queue holds after a handler that cancelled the waits of es.
LEMMA AfterHandler ==
  ASSUME SchedulerAssumption, NEW s \in Seq(Handlers), s # <<>>, NEW es \in SUBSET Events
  PROVE  /\ Tail(s) \o Fires(es) \in Seq(Handlers)
         /\ \A e \in es : None(s, <<"fire", e>>) => Once(Tail(s) \o Fires(es), <<"fire", e>>)
         /\ \A h : /\ h \notin {"fire"} \X es
                   => /\ None(s, h) => None(Tail(s) \o Fires(es), h)
                      /\ h # Head(s) /\ Once(s, h) => Once(Tail(s) \o Fires(es), h)
                      /\ h = Head(s) /\ Once(s, h) => None(Tail(s) \o Fires(es), h)
<1>1. /\ Fires(es) \in Seq(Handlers)
      /\ \A e \in es : Once(Fires(es), <<"fire", e>>)
      /\ \A h : h \notin {"fire"} \X es => None(Fires(es), h)
  BY FiresEach
<1>2. Tail(s) \in Seq(Handlers)
  BY AfterTail
<1>3. ASSUME NEW e \in es, None(s, <<"fire", e>>)
      PROVE  Once(Tail(s) \o Fires(es), <<"fire", e>>)
  <2>1. None(Tail(s), <<"fire", e>>)
    BY <1>3, AfterTail
  <2> QED BY <1>1, <1>2, <2>1, AfterConcat
<1>4. ASSUME NEW h, h \notin {"fire"} \X es
      PROVE  /\ None(s, h) => None(Tail(s) \o Fires(es), h)
             /\ h # Head(s) /\ Once(s, h) => Once(Tail(s) \o Fires(es), h)
             /\ h = Head(s) /\ Once(s, h) => None(Tail(s) \o Fires(es), h)
  <2>1. None(Fires(es), h)
    BY <1>1, <1>4
  <2>2. ASSUME None(s, h) PROVE None(Tail(s) \o Fires(es), h)
    <3>1. None(Tail(s), h)
      BY <2>2, AfterTail
    <3> QED BY <1>1, <1>2, <2>1, <3>1, AfterConcat
  <2>3. ASSUME h # Head(s), Once(s, h) PROVE Once(Tail(s) \o Fires(es), h)
    <3>1. Once(Tail(s), h)
      BY <2>3, AfterTail
    <3> QED BY <1>1, <1>2, <2>1, <3>1, AfterConcat
  <2>4. ASSUME h = Head(s), Once(s, h) PROVE None(Tail(s) \o Fires(es), h)
    <3>1. None(Tail(s), h)
      BY <2>4, AfterTail
    <3> QED BY <1>1, <1>2, <2>1, <3>1, AfterConcat
  <2> QED BY <2>2, <2>3, <2>4
<1>5. Tail(s) \o Fires(es) \in Seq(Handlers)
  BY <1>1, <1>2, AfterConcat
<1> QED BY <1>3, <1>4, <1>5

-----------------------------------------------------------------------------
(* Inv follows from IInv.                                                  *)

LEMMA IInvImpliesInv ==
  ASSUME SchedulerAssumption, IInv
  PROVE  Inv
<1>1. OneCompletion
  <2> SUFFICES ASSUME NEW e \in Events
               PROVE  Cardinality({i \in 1 .. Len(ready) : ready[i] = <<"fire", e>>})
                        = IF status[e] \in {"expired", "aborted"} THEN 1 ELSE 0
    BY DEF OneCompletion
  <2>1. ready \in Seq(Handlers)
    BY DEF IInv, TypeOK
  <2>2. IF status[e] \in {"expired", "aborted"} THEN Once(ready, <<"fire", e>>)
                                               ELSE None(ready, <<"fire", e>>)
    BY DEF IInv, FiresOnce
  <2> QED BY <2>1, <2>2, CountsOnce
<1>2. AtMostOneLate
  <2>1. CASE late = {}
    BY <2>1, FS_EmptySet DEF AtMostOneLate
  <2>2. CASE late # {}
    <3>1. PICK e \in Events : late = {e}
      BY <2>2 DEF IInv, LateIsLast
    <3>2. Cardinality(late) = 1
      BY <3>1, FS_Singleton
    <3> QED BY <3>2 DEF AtMostOneLate
  <2> QED BY <2>1, <2>2
<1> QED BY <1>1, <1>2 DEF IInv, Inv

-----------------------------------------------------------------------------
(* Each step preserves IInv.                                               *)

LEMMA InitIInv ==
  ASSUME SchedulerAssumption, Init
  PROVE  IInv
<1>1. TypeOK
  <2>1. ready \in Seq(Handlers)
    BY DEF Init
  <2>2. DOMAIN timerOf = {}
    BY DEF Init
  <2>3. lastEventId \in Ids /\ eventId \in [Events -> Ids]
    BY DEF SchedulerAssumption, Init, Ids
  <2>4. due \in [Events -> Nat] /\ asked \in [Events -> 0 .. MaxTime] /\ now \in 0 .. MaxTime
    BY DEF SchedulerAssumption, Init
  <2>5. status \in [Events -> Status]
    BY DEF Init, Status
  <2> QED BY <2>1, <2>2, <2>3, <2>4, <2>5 DEF Init, TypeOK
<1>2. AddsOnce /\ FiresOnce
  BY DEF Init, AddsOnce, FiresOnce, None
<1> QED BY <1>1, <1>2 DEF SchedulerAssumption, Init, IInv, WaitingIsKnown, NeverEarly, InTime,
             OneFiring, LateIsLast

LEMMA AddEventIInv ==
  ASSUME SchedulerAssumption, IInv, NEW e \in Events, AddEvent(e)
  PROVE  IInv'
<1> USE DEF IInv
<1>1. ready \in Seq(Handlers) /\ <<"add", e>> \in Handlers /\ ready' = Append(ready, <<"add", e>>)
  BY DEF AddEvent, TypeOK, Handlers
<1>2. /\ status' \in [Events -> Status] /\ status'[e] = "posted" /\ status[e] = "new"
      /\ \A x \in Events \ {e} : status'[x] = status[x]
  BY DEF AddEvent, TypeOK, Status
<1>3. ready' \in Seq(Handlers)
  BY <1>1, AfterAppend
<1>4. eventId' \in [Events -> Ids] /\ lastEventId' \in Ids
      /\ \A x \in Events \ {e} : eventId'[x] = eventId[x]
  BY DEF AddEvent, TypeOK, Ids, NextId, SchedulerAssumption
<1>5. asked' \in [Events -> 0 .. MaxTime] /\ asked'[e] = now
      /\ \A x \in Events \ {e} : asked'[x] = asked[x]
  BY DEF AddEvent, TypeOK
<1>6. TypeOK'
  BY <1>2, <1>3, <1>4, <1>5 DEF AddEvent, TypeOK
<1>7. AddsOnce'
  <2> SUFFICES ASSUME NEW x \in Events
               PROVE  IF status'[x] = "posted" THEN Once(ready', <<"add", x>>)
                                               ELSE None(ready', <<"add", x>>)
    BY DEF AddsOnce
  <2>1. CASE x = e
    BY <1>1, <1>2, <2>1, AfterAppend DEF AddsOnce
  <2>2. CASE x # e
    <3>1. <<"add", e>> # <<"add", x>>
      BY <2>2
    <3> QED BY <1>1, <1>2, <2>2, <3>1, AfterAppend DEF AddsOnce
  <2> QED BY <2>1, <2>2
<1>8. FiresOnce'
  <2> SUFFICES ASSUME NEW x \in Events
               PROVE  IF status'[x] \in {"expired", "aborted"}
                      THEN Once(ready', <<"fire", x>>) ELSE None(ready', <<"fire", x>>)
    BY DEF FiresOnce
  <2>1. <<"add", e>> # <<"fire", x>>
    OBVIOUS
  <2>2. status'[x] \in {"expired", "aborted"} <=> status[x] \in {"expired", "aborted"}
    BY <1>2
  <2> QED BY <1>1, <2>1, <2>2, AfterAppend DEF FiresOnce
<1>9. WaitingIsKnown' /\ NeverEarly' /\ InTime'
  BY <1>2, <1>4, <1>5 DEF AddEvent, TypeOK, WaitingIsKnown, NeverEarly, InTime
<1>10. OneFiring' /\ LateIsLast'
  BY <1>2 DEF AddEvent, OneFiring, LateIsLast, Idle
<1> QED BY <1>6, <1>7, <1>8, <1>9, <1>10

\* A handler that is neither that of addEvent nor a completion joins the queue.
LEMMA PostedOther ==
  ASSUME SchedulerAssumption, IInv, NEW h \in Handlers, h[1] \notin {"add", "fire"},
         ready' = Append(ready, h), status' = status
  PROVE  ready' \in Seq(Handlers) /\ AddsOnce' /\ FiresOnce'
<1>1. ready \in Seq(Handlers)
  BY DEF IInv, TypeOK
<1>2. \A x \in Events : h # <<"add", x>> /\ h # <<"fire", x>>
  OBVIOUS
<1>3. AddsOnce'
  BY <1>1, <1>2, AfterAppend DEF IInv, AddsOnce
<1>4. FiresOnce'
  BY <1>1, <1>2, AfterAppend DEF IInv, FiresOnce
<1> QED BY <1>1, <1>3, <1>4, AfterAppend

LEMMA StopEventIInv ==
  ASSUME SchedulerAssumption, IInv, NEW e \in Events, StopEvent(e)
  PROVE  IInv'
<1>1. status' = status
  BY DEF StopEvent
<1>2. ready' \in Seq(Handlers) /\ AddsOnce' /\ FiresOnce'
  <2>1. CASE eventId[e] = 0
    BY <2>1 DEF StopEvent, IInv, TypeOK, AddsOnce, FiresOnce
  <2>2. CASE eventId[e] # 0
    <3> DEFINE h == <<"stop", eventId[e]>>
    <3>1. h \in Handlers /\ h[1] \notin {"add", "fire"}
      BY DEF IInv, TypeOK, Handlers
    <3>2. ready' = Append(ready, h)
      BY <2>2 DEF StopEvent
    <3> QED BY <1>1, <3>1, <3>2, PostedOther
  <2> QED BY <2>1, <2>2
<1>3. TypeOK'
  BY <1>2 DEF StopEvent, clock, IInv, TypeOK
<1> QED BY <1>2, <1>3 DEF StopEvent, clock, IInv, WaitingIsKnown, NeverEarly, InTime, OneFiring,
          LateIsLast, Idle

LEMMA ShutdownIInv ==
  ASSUME SchedulerAssumption, IInv, Shutdown
  PROVE  IInv'
<1>1. <<"down", 0>> \in Handlers
  BY DEF Handlers
<1>2. ready' = Append(ready, <<"down", 0>>) /\ status' = status
  BY DEF Shutdown
<1>3. ready' \in Seq(Handlers) /\ AddsOnce' /\ FiresOnce'
  BY <1>1, <1>2, PostedOther
<1>4. TypeOK'
  BY <1>3 DEF Shutdown, clock, IInv, TypeOK
<1> QED BY <1>3, <1>4 DEF Shutdown, clock, IInv, WaitingIsKnown, NeverEarly, InTime, OneFiring,
          LateIsLast, Idle

LEMMA TickIInv ==
  ASSUME SchedulerAssumption, IInv, Tick
  PROVE  IInv'
<1>1. TypeOK'
  BY DEF Tick, SchedulerAssumption, IInv, TypeOK
<1>2. NeverEarly' /\ InTime'
  BY DEF Tick, SchedulerAssumption, IInv, TypeOK, NeverEarly, InTime
<1> QED BY <1>1, <1>2 DEF Tick, IInv, WaitingIsKnown, AddsOnce, FiresOnce, OneFiring, LateIsLast, Idle

LEMMA ExpireIInv ==
  ASSUME SchedulerAssumption, IInv, NEW e \in Events, Expire(e)
  PROVE  IInv'
<1> USE DEF IInv
<1>1. ready \in Seq(Handlers) /\ <<"fire", e>> \in Handlers /\ ready' = Append(ready, <<"fire", e>>)
  BY DEF Expire, TypeOK, Handlers
<1>2. /\ status' \in [Events -> Status] /\ status'[e] = "expired" /\ status[e] = "waiting"
      /\ \A x \in Events \ {e} : status'[x] = status[x]
  BY DEF Expire, TypeOK, Status
<1>3. ready' \in Seq(Handlers)
  BY <1>1, AfterAppend
<1>4. TypeOK'
  BY <1>2, <1>3 DEF Expire, clock, TypeOK
<1>5. AddsOnce'
  <2> SUFFICES ASSUME NEW x \in Events
               PROVE  IF status'[x] = "posted" THEN Once(ready', <<"add", x>>)
                                               ELSE None(ready', <<"add", x>>)
    BY DEF AddsOnce
  <2>1. <<"fire", e>> # <<"add", x>>
    OBVIOUS
  <2>2. status'[x] = "posted" <=> status[x] = "posted"
    BY <1>2
  <2> QED BY <1>1, <2>1, <2>2, AfterAppend DEF AddsOnce
<1>6. FiresOnce'
  <2> SUFFICES ASSUME NEW x \in Events
               PROVE  IF status'[x] \in {"expired", "aborted"}
                      THEN Once(ready', <<"fire", x>>) ELSE None(ready', <<"fire", x>>)
    BY DEF FiresOnce
  <2>1. CASE x = e
    BY <1>1, <1>2, <2>1, AfterAppend DEF FiresOnce
  <2>2. CASE x # e
    <3>1. <<"fire", e>> # <<"fire", x>>
      BY <2>2
    <3> QED BY <1>1, <1>2, <2>2, <3>1, AfterAppend DEF FiresOnce
  <2> QED BY <2>1, <2>2
<1>7. WaitingIsKnown' /\ NeverEarly' /\ InTime'
  BY <1>2 DEF Expire, clock, TypeOK, WaitingIsKnown, NeverEarly, InTime
<1>8. OneFiring' /\ LateIsLast'
  BY <1>2 DEF Expire, OneFiring, LateIsLast, Idle
<1> QED BY <1>4, <1>5, <1>6, <1>7, <1>8

LEMMA DispatchIInv ==
  ASSUME SchedulerAssumption, IInv, NEW e \in Events, Dispatch(e)
  PROVE  IInv'
<1> USE DEF IInv
<1>1. /\ status' \in [Events -> Status] /\ status'[e] = "dispatched" /\ status[e] = "firing"
      /\ \A x \in Events \ {e} : status'[x] = status[x]
  BY DEF Dispatch, TypeOK, Status
<1>2. TypeOK'
  BY <1>1 DEF Dispatch, clock, TypeOK
<1>3. AddsOnce' /\ FiresOnce'
  BY <1>1 DEF Dispatch, AddsOnce, FiresOnce
<1>4. WaitingIsKnown' /\ NeverEarly' /\ InTime'
  BY <1>1 DEF Dispatch, clock, TypeOK, WaitingIsKnown, NeverEarly, InTime
<1>5. OneFiring'
  BY <1>1 DEF OneFiring
<1>6. LateIsLast'
  <2>1. late = {}
    BY <1>1 DEF LateIsLast, Idle
  <2>2. Idle'
    BY <1>1 DEF OneFiring, Idle
  <2> QED BY <2>1, <2>2 DEF Dispatch, LateIsLast
<1> QED BY <1>2, <1>3, <1>4, <1>5, <1>6

\* What a handler does to the waits it cancels, when the event x it is about,
\* if any, leaves the queue with it.
LEMMA HandlerQueue ==
  ASSUME SchedulerAssumption, IInv, ready # <<>>, NEW es \in SUBSET Events,
         ready' = Tail(ready) \o Fires(es), NEW xs \in SUBSET Events,
         status' \in [Events -> Status],
         \A x \in Events \ xs :
           /\ Head(ready) # <<"add", x>> /\ Head(ready) # <<"fire", x>>
           /\ x \in es => status[x] = "waiting" /\ status'[x] = "aborted"
           /\ x \notin es => status'[x] = status[x],
         \A x \in xs : x \notin es
  PROVE  /\ ready' \in Seq(Handlers)
         /\ \A x \in Events \ xs :
              /\ IF status'[x] = "posted" THEN Once(ready', <<"add", x>>)
                                          ELSE None(ready', <<"add", x>>)
              /\ IF status'[x] \in {"expired", "aborted"} THEN Once(ready', <<"fire", x>>)
                                                          ELSE None(ready', <<"fire", x>>)
<1>1. ready \in Seq(Handlers)
  BY DEF IInv, TypeOK
<1>2. ready' \in Seq(Handlers)
  BY <1>1, AfterHandler
<1>3. ASSUME NEW x \in Events \ xs
      PROVE  IF status'[x] = "posted" THEN Once(ready', <<"add", x>>)
                                      ELSE None(ready', <<"add", x>>)
  <2>1. <<"add", x>> \notin {"fire"} \X es
    OBVIOUS
  <2>2. status'[x] = "posted" <=> status[x] = "posted"
    BY <1>3
  <2>3. IF status[x] = "posted" THEN Once(ready, <<"add", x>>) ELSE None(ready, <<"add", x>>)
    BY <1>3 DEF IInv, AddsOnce
  <2>4. /\ None(ready, <<"add", x>>) => None(ready', <<"add", x>>)
        /\ Once(ready, <<"add", x>>) => Once(ready', <<"add", x>>)
    BY <1>1, <1>3, <2>1, AfterHandler
  <2> QED BY <2>2, <2>3, <2>4
<1>4. ASSUME NEW x \in Events \ xs
      PROVE  IF status'[x] \in {"expired", "aborted"} THEN Once(ready', <<"fire", x>>)
                                                      ELSE None(ready', <<"fire", x>>)
  <2>1. IF status[x] \in {"expired", "aborted"} THEN Once(ready, <<"fire", x>>)
                                               ELSE None(ready, <<"fire", x>>)
    BY <1>4 DEF IInv, FiresOnce
  <2>2. CASE x \in es
    BY <1>1, <1>4, <2>1, <2>2, AfterHandler
  <2>3. CASE x \notin es
    <3>1. <<"fire", x>> \notin {"fire"} \X es
      BY <2>3
    <3>2. /\ None(ready, <<"fire", x>>) => None(ready', <<"fire", x>>)
          /\ Once(ready, <<"fire", x>>) => Once(ready', <<"fire", x>>)
      BY <1>1, <1>4, <3>1, AfterHandler
    <3> QED BY <1>4, <2>1, <2>3, <3>2
  <2> QED BY <2>2, <2>3
<1> QED BY <1>2, <1>3, <1>4

\* RunStop and RunDown only cancel.
LEMMA CancelIInv ==
  ASSUME SchedulerAssumption, IInv, ready # <<>>, Head(ready)[1] \notin {"add", "fire"}, Idle,
         NEW ids, ready' = Tail(ready) \o Fires(Waiting(ids)),
         status' = [x \in Events |-> IF x \in Waiting(ids) THEN "aborted" ELSE status[x]],
         ioStopped' \in BOOLEAN,
         UNCHANGED <<threadState, lastEventId, eventId, timerOf, clock, stopped, late>>
  PROVE  IInv'
<1> DEFINE es == Waiting(ids)
<1>1. es \in SUBSET Events /\ \A x \in es : status[x] = "waiting"
  BY DEF Waiting
<1>2. /\ status' \in [Events -> Status]
      /\ \A x \in es : status'[x] = "aborted"
      /\ \A x \in Events \ es : status'[x] = status[x]
  BY <1>1 DEF IInv, TypeOK, Status
<1> HIDE DEF es
<1>3. ready' = Tail(ready) \o Fires(es)
  BY DEF es
<1>4. /\ {} \in SUBSET Events /\ \A x \in {} : x \notin es
      /\ \A x \in Events \ {} :
           /\ Head(ready) # <<"add", x>> /\ Head(ready) # <<"fire", x>>
           /\ x \in es => status[x] = "waiting" /\ status'[x] = "aborted"
           /\ x \notin es => status'[x] = status[x]
  <2>1. \A x : Head(ready) # <<"add", x>> /\ Head(ready) # <<"fire", x>>
    OBVIOUS
  <2> QED BY <1>1, <1>2, <2>1
<1>5. /\ ready' \in Seq(Handlers)
      /\ \A x \in Events \ {} :
           /\ IF status'[x] = "posted" THEN Once(ready', <<"add", x>>)
                                       ELSE None(ready', <<"add", x>>)
           /\ IF status'[x] \in {"expired", "aborted"} THEN Once(ready', <<"fire", x>>)
                                                       ELSE None(ready', <<"fire", x>>)
  BY <1>1, <1>2, <1>3, <1>4, HandlerQueue
<1>6. AddsOnce' /\ FiresOnce'
  BY <1>5 DEF AddsOnce, FiresOnce
<1>7. TypeOK'
  BY <1>2, <1>5 DEF clock, IInv, TypeOK
<1>8. WaitingIsKnown' /\ NeverEarly' /\ InTime'
  BY <1>1, <1>2 DEF clock, IInv, TypeOK, WaitingIsKnown, NeverEarly, InTime
<1>9. OneFiring' /\ LateIsLast'
  BY <1>1, <1>2 DEF IInv, OneFiring, LateIsLast, Idle
<1> QED BY <1>6, <1>7, <1>8, <1>9 DEF IInv

LEMMA RunStopIInv ==
  ASSUME SchedulerAssumption, IInv, RunStop
  PROVE  IInv'
<1>1. ready # <<>> /\ Head(ready)[1] = "stop" /\ Idle
  BY DEF RunStop, Runs
<1>2. PICK ids : Cancels(Head(ready)[2]) = Waiting(ids)
  <2>1. Waiting({}) = {}
    BY DEF Waiting
  <2> QED BY <2>1 DEF Cancels
<1>3. /\ ready' = Tail(ready) \o Fires(Waiting(ids))
      /\ status' = [x \in Events |-> IF x \in Waiting(ids) THEN "aborted" ELSE status[x]]
  BY <1>2 DEF RunStop
<1>4. ioStopped' \in BOOLEAN
      /\ UNCHANGED <<threadState, lastEventId, eventId, timerOf, clock, stopped, late>>
  BY DEF RunStop, IInv, TypeOK
<1> QED BY <1>1, <1>3, <1>4, CancelIInv

LEMMA RunDownIInv ==
  ASSUME SchedulerAssumption, IInv, RunDown
  PROVE  IInv'
<1>1. ready # <<>> /\ Head(ready)[1] = "down" /\ Idle
  BY DEF RunDown, Runs
<1> DEFINE ids == DOMAIN timerOf
<1>3. /\ ready' = Tail(ready) \o Fires(Waiting(ids))
      /\ status' = [x \in Events |-> IF x \in Waiting(ids) THEN "aborted" ELSE status[x]]
  BY DEF RunDown
<1>4. ioStopped' \in BOOLEAN
      /\ UNCHANGED <<threadState, lastEventId, eventId, timerOf, clock, stopped, late>>
  BY DEF RunDown
<1> HIDE DEF ids
<1> QED BY <1>1, <1>3, <1>4, CancelIInv

LEMMA RunAddIInv ==
  ASSUME SchedulerAssumption, IInv, RunAdd
  PROVE  IInv'
<1> USE DEF IInv
<1>1. ready \in Seq(Handlers) /\ ready # <<>> /\ Head(ready)[1] = "add" /\ Idle
  BY DEF RunAdd, Runs, TypeOK
<1>2. PICK e \in Events : Head(ready) = <<"add", e>>
  <2>1. Head(ready) \in Handlers
    BY <1>1
  <2> QED BY <1>1, <2>1 DEF Handlers
<1>3. PICK es \in SUBSET Events : es = Older(e)
  BY DEF Older, Waiting
<1>4. status[e] = "posted"
  <2>1. ready[1] = <<"add", e>> /\ 1 \in 1 .. Len(ready)
    BY <1>1, <1>2
  <2> QED BY <2>1 DEF AddsOnce, None
<1>5. e \notin es /\ \A x \in es : status[x] = "waiting" /\ eventId[x] = eventId[e]
  BY <1>3, <1>4 DEF Older, Waiting
<1>6. \A x \in Events \ es : ~(status[x] = "waiting" /\ eventId[x] = eventId[e])
  BY <1>3 DEF Older, Waiting
<1>7. /\ status' \in [Events -> Status] /\ status'[e] = "waiting"
      /\ \A x \in es : status'[x] = "aborted"
      /\ \A x \in Events \ (es \cup {e}) : status'[x] = status[x]
  BY <1>2, <1>3, <1>5 DEF RunAdd, TypeOK, Status
<1>8. ready' = Tail(ready) \o Fires(es)
  <2>1. Head(ready)[2] = e
    BY <1>2
  <2> QED BY <1>3, <2>1, Zenon DEF RunAdd
<1>9. /\ {e} \in SUBSET Events /\ \A x \in {e} : x \notin es
      /\ \A x \in Events \ {e} :
           /\ Head(ready) # <<"add", x>> /\ Head(ready) # <<"fire", x>>
           /\ x \in es => status[x] = "waiting" /\ status'[x] = "aborted"
           /\ x \notin es => status'[x] = status[x]
  BY <1>2, <1>5, <1>7
<1>10. /\ ready' \in Seq(Handlers)
       /\ \A x \in Events \ {e} :
            /\ IF status'[x] = "posted" THEN Once(ready', <<"add", x>>)
                                        ELSE None(ready', <<"add", x>>)
            /\ IF status'[x] \in {"expired", "aborted"} THEN Once(ready', <<"fire", x>>)
                                                        ELSE None(ready', <<"fire", x>>)
  BY <1>1, <1>7, <1>8, <1>9, HandlerQueue
<1>11. None(ready', <<"add", e>>) /\ None(ready', <<"fire", e>>)
  <2>1. Once(ready, <<"add", e>>) /\ None(ready, <<"fire", e>>)
    BY <1>4 DEF AddsOnce, FiresOnce
  <2>2. <<"add", e>> \notin {"fire"} \X es /\ <<"fire", e>> \notin {"fire"} \X es
    BY <1>5
  <2> QED BY <1>1, <1>2, <1>8, <2>1, <2>2, AfterHandler
<1>12. AddsOnce' /\ FiresOnce'
  BY <1>7, <1>10, <1>11 DEF AddsOnce, FiresOnce
<1>13. /\ DOMAIN timerOf' = DOMAIN timerOf \cup {eventId[e]}
       /\ timerOf'[eventId[e]] = e
       /\ \A i \in DOMAIN timerOf \ {eventId[e]} : timerOf'[i] = timerOf[i]
  BY <1>2 DEF RunAdd
<1>14. /\ due' \in [Events -> Nat] /\ due'[e] = now + Delay[e]
       /\ \A x \in Events \ {e} : due'[x] = due[x]
  BY <1>2 DEF RunAdd, Expiry, TypeOK, SchedulerAssumption
<1>15. TypeOK'
  <2>1. eventId[e] \in Ids
    BY DEF TypeOK
  <2>2. DOMAIN timerOf' \subseteq Ids /\ \A i \in DOMAIN timerOf' : timerOf'[i] \in Events
    BY <1>13, <2>1 DEF TypeOK
  <2> QED BY <1>7, <1>10, <1>14, <2>2 DEF RunAdd, TypeOK
<1>16. WaitingIsKnown'
  <2> SUFFICES ASSUME NEW x \in Events, status'[x] = "waiting"
               PROVE  eventId[x] \in DOMAIN timerOf' /\ timerOf'[eventId[x]] = x
    BY DEF RunAdd, WaitingIsKnown
  <2>1. CASE x = e
    BY <1>13, <2>1
  <2>2. CASE x # e
    <3>1. status[x] = "waiting" /\ x \notin es
      BY <1>7, <2>2
    <3>2. eventId[x] # eventId[e]
      BY <1>6, <3>1
    <3> QED BY <1>13, <3>1, <3>2 DEF WaitingIsKnown
  <2> QED BY <2>1, <2>2
<1>17. NeverEarly'
  BY <1>7 DEF RunAdd, NeverEarly
<1>18. InTime'
  BY <1>5, <1>7, <1>14 DEF RunAdd, InTime, TypeOK, SchedulerAssumption
<1>19. OneFiring' /\ LateIsLast'
  BY <1>1, <1>5, <1>7 DEF RunAdd, OneFiring, LateIsLast, Idle
<1> QED BY <1>12, <1>15, <1>16, <1>17, <1>18, <1>19

LEMMA RunFireIInv ==
  ASSUME SchedulerAssumption, IInv, RunFire
  PROVE  IInv'
<1> USE DEF IInv
<1>1. ready \in Seq(Handlers) /\ ready # <<>> /\ Head(ready)[1] = "fire" /\ Idle
  BY DEF RunFire, Runs, TypeOK
<1>2. PICK e \in Events : Head(ready) = <<"fire", e>>
  <2>1. Head(ready) \in Handlers
    BY <1>1
  <2> QED BY <1>1, <2>1 DEF Handlers
<1>3. PICK es \in SUBSET Events : es = Waiting(Erased(e))
  BY DEF Waiting
<1>4. status[e] \in {"expired", "aborted"}
  <2>1. ready[1] = <<"fire", e>> /\ 1 \in 1 .. Len(ready)
    BY <1>1, <1>2
  <2> QED BY <2>1 DEF FiresOnce, None
<1>5. e \notin es /\ \A x \in es : status[x] = "waiting"
  BY <1>3, <1>4 DEF Waiting
<1>6. \A x \in Events \ es : ~(status[x] = "waiting" /\ eventId[x] = eventId[e])
  BY <1>3 DEF Erased, Waiting
<1>7. /\ status' \in [Events -> Status]
      /\ status'[e] = IF Deletes(e) THEN "deleted" ELSE "firing"
      /\ \A x \in es : status'[x] = "aborted"
      /\ \A x \in Events \ (es \cup {e}) : status'[x] = status[x]
  BY <1>2, <1>3, <1>5 DEF RunFire, TypeOK, Status
<1>8. ready' = Tail(ready) \o Fires(es)
  <2>1. Head(ready)[2] = e
    BY <1>2
  <2> QED BY <1>3, <2>1, Zenon DEF RunFire
<1>9. /\ {e} \in SUBSET Events /\ \A x \in {e} : x \notin es
      /\ \A x \in Events \ {e} :
           /\ Head(ready) # <<"add", x>> /\ Head(ready) # <<"fire", x>>
           /\ x \in es => status[x] = "waiting" /\ status'[x] = "aborted"
           /\ x \notin es => status'[x] = status[x]
  BY <1>2, <1>5, <1>7
<1>10. /\ ready' \in Seq(Handlers)
       /\ \A x \in Events \ {e} :
            /\ IF status'[x] = "posted" THEN Once(ready', <<"add", x>>)
                                        ELSE None(ready', <<"add", x>>)
            /\ IF status'[x] \in {"expired", "aborted"} THEN Once(ready', <<"fire", x>>)
                                                        ELSE None(ready', <<"fire", x>>)
  BY <1>1, <1>7, <1>8, <1>9, HandlerQueue
<1>11. None(ready', <<"add", e>>) /\ None(ready', <<"fire", e>>)
  <2>1. None(ready, <<"add", e>>) /\ Once(ready, <<"fire", e>>)
    BY <1>4 DEF AddsOnce, FiresOnce
  <2>2. <<"add", e>> \notin {"fire"} \X es /\ <<"fire", e>> \notin {"fire"} \X es
    BY <1>5
  <2> QED BY <1>1, <1>2, <1>8, <2>1, <2>2, AfterHandler
<1>12. AddsOnce' /\ FiresOnce'
  BY <1>7, <1>10, <1>11 DEF AddsOnce, FiresOnce
<1>13. /\ DOMAIN timerOf' = DOMAIN timerOf \ {eventId[e]}
       /\ \A i \in DOMAIN timerOf \ {eventId[e]} : timerOf'[i] = timerOf[i]
  BY <1>2 DEF RunFire, Erased
<1>14. TypeOK'
  <2>1. DOMAIN timerOf' \subseteq Ids /\ \A i \in DOMAIN timerOf' : timerOf'[i] \in Events
    BY <1>13 DEF TypeOK
  <2> QED BY <1>7, <1>10, <2>1 DEF RunFire, clock, TypeOK
<1>15. WaitingIsKnown'
  <2> SUFFICES ASSUME NEW x \in Events, status'[x] = "waiting"
               PROVE  eventId[x] \in DOMAIN timerOf' /\ timerOf'[eventId[x]] = x
    BY DEF RunFire, WaitingIsKnown
  <2>1. status[x] = "waiting" /\ x \notin es
    BY <1>7
  <2>2. eventId[x] # eventId[e]
    BY <1>6, <2>1
  <2> QED BY <1>13, <2>1, <2>2 DEF WaitingIsKnown
<1>16. NeverEarly'
  <2> SUFFICES ASSUME NEW x \in Events, status'[x] \in {"firing", "dispatched"}
               PROVE  now >= asked[x] + Delay[x]
    BY DEF RunFire, clock, NeverEarly
  <2>1. CASE x = e
    <3>1. status[e] = "expired"
      BY <1>4, <1>7, <2>1 DEF Deletes
    <3> QED BY <2>1, <3>1 DEF InTime, TypeOK, SchedulerAssumption
  <2>2. CASE x # e
    BY <1>7, <2>2 DEF NeverEarly
  <2> QED BY <2>1, <2>2
<1>17. InTime'
  BY <1>5, <1>7 DEF RunFire, clock, InTime
<1>18. OneFiring'
  BY <1>1, <1>7 DEF OneFiring, Idle
<1>19. LateIsLast'
  <2> SUFFICES ASSUME late # {} PROVE LateIsLast'
    BY DEF RunFire, LateIsLast
  <2>1. Deletes(e)
    BY DEF LateIsLast, Deletes
  <2> QED BY <1>1, <1>7, <2>1 DEF RunFire, LateIsLast, Idle
<1> QED BY <1>12, <1>14, <1>15, <1>16, <1>17, <1>18, <1>19

LEMMA StepIInv ==
  ASSUME SchedulerAssumption, IInv, [Next]_vars
  PROVE  IInv'
<1>1. ASSUME NEW e \in Events, AddEvent(e) PROVE IInv'
  BY <1>1, AddEventIInv
<1>2. ASSUME NEW e \in Events, StopEvent(e) PROVE IInv'
  BY <1>2, StopEventIInv
<1>3. ASSUME NEW e \in Events, Expire(e) PROVE IInv'
  BY <1>3, ExpireIInv
<1>4. CASE Shutdown
  BY <1>4, ShutdownIInv
<1>5. CASE Tick
  BY <1>5, TickIInv
<1>6. CASE ThreadMain
  BY <1>6, RunAddIInv, RunStopIInv, RunFireIInv, RunDownIInv, DispatchIInv DEF ThreadMain
<1>7. CASE UNCHANGED vars
  BY <1>7 DEF vars, IInv, TypeOK, WaitingIsKnown, NeverEarly, AddsOnce, FiresOnce, InTime, OneFiring,
       LateIsLast, Idle
<1> QED BY <1>1, <1>2, <1>3, <1>4, <1>5, <1>6, <1>7 DEF Next

-----------------------------------------------------------------------------
LEMMA SchedulerAssumed == SchedulerAssumption
BY SchedulerAssumption

\* The scheduler knows every timer that waits, completes every event once,
\* hands no task on before its delay has passed, and at most one after its
\* shutdown (Scheduler::addEvent, stopEvent and shutdown).
THEOREM TimersAreServedOnce == Spec => []Inv
<1>1. Init => IInv
  BY InitIInv, SchedulerAssumed
<1>2. IInv /\ [Next]_vars => IInv'
  BY StepIInv, SchedulerAssumed
<1>3. IInv => Inv
  BY IInvImpliesInv, SchedulerAssumed
<1> QED BY <1>1, <1>2, <1>3, PTL DEF Spec
=============================================================================
