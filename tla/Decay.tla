------------------------------- MODULE Decay -------------------------------
(***************************************************************************)
(* Decaying items (game.cpp checkDecay, startDecay, cleanup; Item::setID). *)
(* An item that decays is entered in one of four buckets.  Every 250 ms    *)
(* one bucket is swept, so that an item is looked at once a second and     *)
(* loses a second of its duration.  What is left at the end, less than a   *)
(* second, is rounded to a bucket.                                         *)
(*                                                                         *)
(* The unit of time is 125 ms: a sweep every 2 units, a round of 8.        *)
(***************************************************************************)
EXTENDS Integers, FiniteSets

CONSTANTS Items,
          Kinds,       \* item types
          Decays,      \* the types with a decay time
          Duration,    \* decayTime of these, in units
          DecayTo,     \* the type they become, or Gone
          StopTime,    \* the types with stopTime, which keep a duration
          Gone,
          MaxEntries   \* bound on the entries of one item

\* No type that stops its time decays, and none decays to one (data/items/items.xml).
DecayAssumption ==
  /\ Duration \in [Decays -> Nat \ {0}] /\ StopTime \cap Decays = {}
  /\ DecayTo \in [Decays -> (Kinds \cup {Gone}) \ StopTime]

Interval == 2   \* EVENT_DECAYINTERVAL
Buckets == 4    \* EVENT_DECAY_BUCKETS
Round == Interval * Buckets

VARIABLES
  item,        \* per item: its type, its attributes, the lists it is in
  lastBucket,
  phase        \* time since the last sweep

vars == <<item, lastBucket, phase>>

Never == -100   \* no such number

\* An item nobody has made yet.  left and end are history: what is left of its
\* time by the clock, and how much was left when it decayed; again: it met an
\* old entry of its own.
Absent == [kind |-> Gone, dur |-> 0, flag |-> FALSE, here |-> FALSE, waiting |-> 0,
           bucket |-> [b \in 0 .. Buckets - 1 |-> 0], left |-> 0, end |-> Never, again |-> FALSE]

Init == item = [i \in Items |-> Absent] /\ lastBucket = 0 /\ phase = 0

Entries(it) == it.waiting + it.bucket[0] + it.bucket[1] + it.bucket[2] + it.bucket[3]

-----------------------------------------------------------------------------
(* Operators from an item to the item after a call.                        *)

\* Item::canDecay
CanDecay(it) == it.here /\ it.kind \in Decays

\* Into toDecayItems.
Enter(it) == [it EXCEPT !.flag = TRUE, !.waiting = @ + 1, !.left = it.dur]

\* Item::setID.  Nothing takes an item that stops to decay from its bucket
\* before that is swept: an item that decays again sooner meets its old entry.
SetID(it, k) ==
  LET plain == k \notin Decays /\ k \notin StopTime
      fresh == k \in Decays /\ (it.kind \notin StopTime \/ it.dur = 0)
      next  == [it EXCEPT !.kind = k, !.again = @ \/ (k \in Decays /\ Entries(it) > 0)]
  IN CASE plain -> [next EXCEPT !.flag = FALSE, !.dur = 0, !.left = 0]
       [] fresh -> [next EXCEPT !.flag = FALSE, !.dur = Duration[k], !.left = Duration[k]]
       [] OTHER -> next

Remove(it) == [it EXCEPT !.here = FALSE, !.left = 0]

\* startDecay of an item with a duration.
Start(it) == IF CanDecay(it) /\ ~it.flag /\ it.dur > 0 THEN Enter(it) ELSE it

\* internalDecayItem, for types that are changed in place.
DecayNow(it) ==
  LET ended == [it EXCEPT !.end = it.left]
  IN IF DecayTo[it.kind] = Gone THEN Remove(ended) ELSE Start(SetID(ended, DecayTo[it.kind]))

\* A settle that lists only what outlives a round of the buckets.
SettleLong(it, last) ==
  [it EXCEPT !.bucket[last] = IF it.dur >= Round THEN @ + it.waiting ELSE @, !.waiting = 0]

\* cleanup: from toDecayItems to the buckets.
Settle(it, last) ==
  LET b == IF it.dur >= Round THEN last ELSE (last + 1) % Buckets
  IN [it EXCEPT !.bucket[b] = @ + it.waiting, !.waiting = 0]

\* checkDecay for one entry in bucket b.
Drop(it, b) == [it EXCEPT !.bucket[b] = @ - 1]

SweepEntry(it, b) ==
  LET rest == it.dur - Round
      used == [it EXCEPT !.dur = IF rest <= 0 THEN 0 ELSE rest]
      soon == (rest + 1) \div Round   \* rounded to whole seconds
  IN CASE ~CanDecay(it) -> [Drop(it, b) EXCEPT !.flag = FALSE]
       [] CanDecay(it) /\ (rest <= 0 \/ (rest < Round /\ soon = 0)) -> DecayNow(Drop(used, b))
       [] CanDecay(it) /\ 0 < rest /\ rest < Round /\ soon > 0 ->
            [Drop(used, b) EXCEPT !.bucket[(b + soon) % Buckets] = @ + 1]
       [] OTHER -> used

SweepItem(it, b) ==
  CASE it.bucket[b] = 0 -> it
    [] it.bucket[b] = 1 -> SweepEntry(it, b)
    [] OTHER -> SweepEntry(SweepEntry(it, b), b)

-----------------------------------------------------------------------------
(* The server.                                                             *)

Becomes(i, it) == item' = [item EXCEPT ![i] = it] /\ Entries(it) <= MaxEntries

\* internalAddItem of a new item: it is entered if it has a duration.
Create(i, k) ==
  /\ item[i] = Absent
  /\ LET new == [SetID(Absent, k) EXCEPT !.here = TRUE]
     IN Becomes(i, IF new.dur > 0 THEN Enter(new) ELSE new)
  /\ UNCHANGED <<lastBucket, phase>>

\* transformItem in place; equipping, taking off and most scripts go on with
\* startDecay, some do not.
Transform(i, k) ==
  /\ item[i].here /\ k # item[i].kind
  /\ LET it == SetID(item[i], k) IN Becomes(i, Start(it)) \/ Becomes(i, it)
  /\ UNCHANGED <<lastBucket, phase>>

\* internalRemoveItem
TakeAway(i) ==
  /\ item[i].here /\ Becomes(i, Remove(item[i]))
  /\ UNCHANGED <<lastBucket, phase>>

\* cleanup is also called by other periodic events.
Cleanup ==
  /\ \E i \in Items : item[i].waiting > 0
  /\ item' = [i \in Items |-> Settle(item[i], lastBucket)]
  /\ UNCHANGED <<lastBucket, phase>>

CheckDecay ==
  /\ phase = Interval /\ phase' = 0
  /\ lastBucket' = (lastBucket + 1) % Buckets
  /\ item' = [i \in Items |-> Settle(SweepItem(item[i], lastBucket'), lastBucket')]

Running(it) == CanDecay(it) /\ it.flag

Tick ==
  /\ phase < Interval /\ phase' = phase + 1
  /\ item' = [i \in Items |-> IF Running(item[i]) /\ ~item[i].again THEN [item[i] EXCEPT !.left = @ - 1] ELSE item[i]]
  /\ UNCHANGED lastBucket

Next ==
  \/ \E i \in Items, k \in Kinds : Create(i, k) \/ Transform(i, k)
  \/ \E i \in Items : TakeAway(i)
  \/ Cleanup \/ CheckDecay \/ Tick

Spec == Init /\ [][Next]_vars

-----------------------------------------------------------------------------
(* Properties.                                                             *)

TypeOK ==
  /\ \A i \in Items :
       /\ item[i].kind \in Kinds \cup {Gone} /\ item[i].dur \in Nat
       /\ item[i].waiting \in Nat /\ \A b \in 0 .. Buckets - 1 : item[i].bucket[b] \in Nat
  /\ lastBucket \in 0 .. Buckets - 1 /\ phase \in 0 .. Interval

\* An item that decays is in some list: otherwise it would never end, and
\* since it is marked as decaying nobody could start it again.
NeverForgotten == \A i \in Items : Running(item[i]) => Entries(item[i]) > 0

\* An item decays at most a second too early and less than two intervals late (one until
\* it is in a bucket, one until that is swept), unless it began to decay again while an
\* old entry of it was listed (checkDecay, cleanup: the buckets, the rounding).
InTime ==
  \A i \in Items : ~item[i].again =>
    /\ Entries(item[i]) <= 1
    /\ item[i].end # Never => item[i].end <= Round
    /\ Running(item[i]) => item[i].left > -2 * Interval

DecayInv == TypeOK /\ NeverForgotten /\ InTime

=============================================================================
