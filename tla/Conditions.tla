----------------------------- MODULE Conditions -----------------------------
(***************************************************************************)
(* The conditions of a player (condition.cpp, creature.cpp), the ring on a *)
(* finger that works like some of them (movement.cpp), and what they leave *)
(* on the body: speed, a skill, defence, outfit, the lock on protection    *)
(* zones, and how an ordinary spectator is shown the player.  A condition  *)
(* gives when it starts, and takes back when it ends, is replaced, is      *)
(* dispelled, dies with the player or is written to the database; nothing  *)
(* recomputes the sums.                                                    *)
(***************************************************************************)
EXTENDS Integers, SequencesExt, FiniteSetsExt

CONSTANTS
  Catalog,      \* the conditions that spells, fields, food and scripts add
  Outfits,      \* what a player may choose to wear
  RingSpeed,    \* what the ring adds to the speed
  MaxConditions \* bound: how long the list is when something is added

VARIABLES
  conditions,   \* Creature::conditions
  body,         \* what they change in the player, and what a spectator sees
  own,          \* Creature::defaultOutfit
  ghost,        \* Player::ghostMode
  ring          \* the ring: in the bag, or on the finger as its worn form

vars == <<conditions, body, own, ghost, ring>>

Forever == -1

\* A condition is [type, id, sub, left, val, disables].  `left` is the time it has (0: run
\* out, not yet executed; Forever) or, of a fire, the cycles to come; `val` is what it gives:
\* speed, skill, an outfit, or the count of a fire to its next cycle; `disables` is whether
\* it lowers the guard.
ConditionsAssumption ==
  /\ RingSpeed \in Int
  /\ \A d \in Catalog :
       /\ d \in [type : {d.type}, id : {d.id}, sub : Nat, left : Int, val : {d.val}, disables : BOOLEAN]
       /\ d.left >= Forever
       /\ d.type # "outfit" => d.val \in Int

InForce(c) == c.left # 0
Key(c) == <<c.type, c.id, c.sub>>
Has(cs, type) == \E c \in ToSet(cs) : c.type = type
HasInForce(cs, type) == \E c \in ToSet(cs) : c.type = type /\ c.sub = 0 /\ InForce(c)
Speeds == {"haste", "paralyze"}
InvisibleRing ==
  [type |-> "invisible", id |-> "slot", sub |-> 0, left |-> Forever, val |-> 0, disables |-> FALSE]
InFight ==
  [type |-> "infight", id |-> "default", sub |-> 0, left |-> 2, val |-> 0, disables |-> FALSE]
FireCount == 1

\* Do, once for each condition of the list l, from its front to its end.
ForEach(l, s, Do(_, _)) ==
  LET done[n \in 0..Len(l)] == IF n = 0 THEN s ELSE Do(done[n - 1], l[n])
  IN done[Len(l)]

\* How a spectator is shown the player, `hidden` being the invisible outfit.
Looks(s) == IF ghost THEN "absent" ELSE IF Has(s.cs, "invisible") THEN "hidden" ELSE s.b.outfit

(***************************************************************************)
(* Starting and ending.  A state s is [cs, b]: the list and the body.      *)
(***************************************************************************)
ChangeOutfit(s, o) ==
  [s EXCEPT !.b.outfit = o, !.b.shown = IF ghost \/ Has(s.cs, "invisible") THEN @ ELSE o]

Apply(s, c) ==
  CASE c.type \in Speeds -> [s EXCEPT !.b.speed = @ + c.val]
    [] c.type = "attributes" -> [s EXCEPT !.b.skill = @ + c.val]
    [] c.type = "outfit" -> ChangeOutfit(s, c.val)
    [] OTHER -> s

Start(s, c) ==
  LET t == Apply(s, c) IN
  IF c.type = "attributes" THEN [t EXCEPT !.b.defends = ~c.disables]
  ELSE IF c.type = "invisible" /\ ~ghost THEN [t EXCEPT !.b.shown = "hidden"]
  ELSE t

\* Called when the condition is out of the list already; the second form looks no further.
EndAndShow(s, c) == IF ghost THEN s ELSE [s EXCEPT !.b.shown = s.b.outfit]
EndInvisible(s, c) == IF Has(s.cs, "invisible") THEN s ELSE EndAndShow(s, c)

End(s, c) ==
  CASE c.type \in Speeds -> [s EXCEPT !.b.speed = @ - c.val]
    [] c.type = "attributes" -> [s EXCEPT !.b.skill = @ - c.val, !.b.defends = @ \/ c.disables]
    [] c.type = "outfit" -> ChangeOutfit(s, own)
    [] c.type = "invisible" -> EndInvisible(s, c)
    [] c.type = "infight" -> [s EXCEPT !.b.locked = FALSE]
    [] OTHER -> s

Without(l, c) == RemoveAt(l, CHOOSE i \in DOMAIN l : l[i] = c)
Drop(s, c) == End([s EXCEPT !.cs = Without(@, c)], c)

\* Ends the conditions D, one after the other.
DropAll(s, D) == ForEach(s.cs, s, LAMBDA t, c : IF c \in D THEN Drop(t, c) ELSE t)
DropType(s, type) == DropAll(s, {c \in ToSet(s.cs) : c.type = type})

(***************************************************************************)
(* Adding.  One with the same key takes the new values, if it may.         *)
(***************************************************************************)
Replaces(c, d) ==
  CASE d.type \in Speeds -> ~(c.left = Forever /\ d.left # Forever)
    [] d.type = "fire" -> d.left >= c.left
    [] OTHER -> d.left = Forever \/ (c.left # Forever /\ c.left <= d.left)

Replace(s, c, d) ==
  LET t == IF d.type \in Speeds \cup {"attributes"} THEN End(s, c) ELSE s IN
  Apply([t EXCEPT !.cs = ReplaceAll(@, c, d)], d)

Put(s, d) ==
  IF \E c \in ToSet(s.cs) : Key(c) = Key(d)
  THEN LET c == CHOOSE x \in ToSet(s.cs) : Key(x) = Key(d) IN IF Replaces(c, d) THEN Replace(s, c, d) ELSE s
  ELSE LET t == Start(s, d) IN [t EXCEPT !.cs = Append(@, d)]

\* Haste and paralysis drive each other out; who burns is in a fight.
OnAdd(s, d) ==
  IF d.type = "paralyze" /\ HasInForce(s.cs, "haste") THEN DropType(s, "haste")
  ELSE IF d.type = "haste" /\ HasInForce(s.cs, "paralyze") THEN DropType(s, "paralyze")
  ELSE IF d.type = "fire" THEN Put(s, InFight)
  ELSE s

AddTo(s, d) == OnAdd(Put(s, d), d)

(***************************************************************************)
(* The actions.                                                            *)
(***************************************************************************)
Now == [cs |-> conditions, b |-> body]
Become(s) == conditions' = s.cs /\ body' = s.b
Room == Len(conditions) <= MaxConditions

AddCondition(d) ==
  /\ Room
  /\ Become(AddTo(Now, d))
  /\ UNCHANGED <<own, ghost, ring>>

\* A fight; who struck first is kept out of protection zones.
AddInFightTicks(pzlock) ==
  /\ Room
  /\ Become(AddTo([Now EXCEPT !.b.locked = @ \/ pzlock], InFight))
  /\ UNCHANGED <<own, ghost, ring>>

\* A spell, a rune or a script dispels a type; scripts, those of one id also.
RemoveCondition(type, ids) ==
  /\ Become(DropAll(Now, {c \in ToSet(conditions) : c.type = type /\ c.id \in ids}))
  /\ UNCHANGED <<own, ghost, ring>>

Pass ==
  /\ conditions' = [i \in DOMAIN conditions |->
       IF conditions[i].type = "fire" \/ conditions[i].left \in {0, Forever} THEN conditions[i]
       ELSE [conditions[i] EXCEPT !.left = @ - 1]]
  /\ UNCHANGED <<body, own, ghost, ring>>

\* A fire burns each time its count has run out, and loses a cycle unless the player
\* stands in one (onTickCondition).
Burn(c, inField) ==
  IF c.val > 0 THEN [c EXCEPT !.val = @ - 1]
  ELSE [c EXCEPT !.val = FireCount, !.left = IF inField THEN @ ELSE @ - 1]

Executed(s, c, inField) ==
  IF c \notin ToSet(s.cs) THEN s
  ELSE IF c.type = "fire" /\ Burn(c, inField).left > 0
  THEN [s EXCEPT !.cs = ReplaceAll(@, c, Burn(c, inField))]
  ELSE IF c.type # "fire" /\ InForce(c) THEN s
  ELSE Drop(s, c)

ExecuteAll(s, inField) == ForEach(s.cs, s, LAMBDA t, c : Executed(t, c, inField))

Execute(inField) ==
  /\ Become(ExecuteAll(Now, inField))
  /\ UNCHANGED <<own, ghost, ring>>

Persistent(c) == c.left # Forever /\ c.id \in {"default", "combat"}

Death ==
  /\ Become(DropAll(Now, {c \in ToSet(conditions) : Persistent(c)}))
  /\ UNCHANGED <<own, ghost, ring>>

\* The ring on the finger: speed, and a condition of its slot.
PutOn(s) == AddTo([s EXCEPT !.b.speed = @ + RingSpeed], InvisibleRing)
OfRing(c) == c.type = "invisible" /\ c.id = "slot"
TakeOff(s) == DropAll([s EXCEPT !.b.speed = @ - RingSpeed], {c \in ToSet(s.cs) : OfRing(c)})

EquipItem ==
  /\ ring = "bag"
  /\ Room
  /\ ring' = "worn"
  /\ Become(PutOn(Now))
  /\ UNCHANGED <<own, ghost>>

\* Taken off, or run out: then there is another one in the bag.
DeEquipItem ==
  /\ ring = "worn"
  /\ ring' = "bag"
  /\ Become(TakeOff(Now))
  /\ UNCHANGED <<own, ghost>>

PlayerChangeOutfit(o) ==
  /\ own' = o
  /\ Become(IF HasInForce(conditions, "outfit") THEN Now ELSE ChangeOutfit(Now, o))
  /\ UNCHANGED <<ghost, ring>>

SetGhostMode ==
  /\ ghost' = ~ghost
  /\ body' = [body EXCEPT !.shown = IF ~ghost THEN "absent"
                                    ELSE IF Has(conditions, "invisible") THEN "hidden" ELSE body.outfit]
  /\ UNCHANGED <<conditions, own, ring>>

(***************************************************************************)
(* Leaving and coming back.  The database keeps the conditions that        *)
(* persist, of a fire the cycles only if its count is above 0 (a fire      *)
(* without cycles does not start again).  Loading does not read the end of *)
(* a fight it skips, takes that for the end of the list, and turns the     *)
(* order around.                                                           *)
(***************************************************************************)
Loaded(c) ==
  /\ Persistent(c) /\ (c.type = "fire" => c.val > 0)
  /\ ~\E i, j \in DOMAIN conditions :
        i <= j /\ conditions[j] = c /\ conditions[i].type = "infight" /\ Persistent(conditions[i])

LoadAll(s) == ForEach(Reverse(conditions), s, LAMBDA t, c : IF Loaded(c) THEN AddTo(t, c) ELSE t)

Fresh == [speed |-> 0, skill |-> 0, defends |-> TRUE, outfit |-> own, shown |-> own, locked |-> FALSE]

\* A visit ends and the next begins (nobody is a ghost then; one who was is left out).
Relog ==
  /\ ~ghost
  /\ LET arrived == [cs |-> <<>>, b |-> Fresh]
         dressed == IF ring = "worn" THEN PutOn(arrived) ELSE arrived
     IN Become(LoadAll(dressed))
  /\ UNCHANGED <<own, ghost, ring>>

Init ==
  /\ conditions = <<>>
  /\ own \in Outfits
  /\ ghost = FALSE
  /\ ring = "bag"
  /\ body = Fresh

Next ==
  \/ \E d \in Catalog : AddCondition(d)
  \/ \E pzlock \in BOOLEAN : AddInFightTicks(pzlock)
  \/ \E d \in Catalog, ids \in {{"default"}, {"default", "combat", "slot"}} : RemoveCondition(d.type, ids)
  \/ Pass
  \/ \E inField \in BOOLEAN : Execute(inField)
  \/ Death
  \/ EquipItem
  \/ DeEquipItem
  \/ \E o \in Outfits : PlayerChangeOutfit(o)
  \/ SetGhostMode
  \/ Relog

Spec == Init /\ [][Next]_vars

-----------------------------------------------------------------------------
Looking == Outfits \cup {d.val : d \in {e \in Catalog : e.type = "outfit"}}

ConditionsTypeOK ==
  /\ \A c \in ToSet(conditions) : c.left >= Forever
  /\ own \in Outfits /\ body.outfit \in Looking
  /\ body.shown \in Looking \cup {"hidden", "absent"}
  /\ body.locked \in BOOLEAN /\ body.defends \in BOOLEAN /\ ghost \in BOOLEAN
  /\ ring \in {"bag", "worn"}

\* No two conditions have the same type, id and sub-id.
OneOfAKind == \A i, j \in 1..Len(conditions) : Key(conditions[i]) = Key(conditions[j]) => i = j

\* What is in the sums is what is in the list: nothing is given twice, and nothing stays
\* when its condition or the ring is gone.
Total(types) == MapThenSumSet(LAMBDA c : c.val, {c \in ToSet(conditions) : c.type \in types})
SumsAreRight ==
  /\ body.speed = Total(Speeds) + (IF ring = "worn" THEN RingSpeed ELSE 0)
  /\ body.skill = Total({"attributes"})

\* A spectator is shown what there is to see, whichever of two conditions ended first.
ShownAsIs == body.shown = Looks(Now)

\* A strange outfit, a lowered guard and a lock on protection zones have a condition that
\* will end them.
HasAnEnd ==
  /\ body.outfit # own => Has(conditions, "outfit")
  /\ ~body.defends => \E c \in ToSet(conditions) : c.type = "attributes" /\ c.disables
  /\ body.locked => Has(conditions, "infight")

\* Haste and paralysis are never both in force.
HasteOrParalysis == ~(HasInForce(conditions, "haste") /\ HasInForce(conditions, "paralyze"))

\* The body agrees with the list of conditions through replacement, dispelling, death, ghost
\* mode, a ring and the next login.
ConditionsInv == ConditionsTypeOK /\ OneOfAKind /\ SumsAreRight /\ ShownAsIs /\ HasAnEnd /\ HasteOrParalysis
=============================================================================
