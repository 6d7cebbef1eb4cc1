------------------------------ MODULE NpcFocus ------------------------------
(***************************************************************************)
(* Whom an npc talks to (npc.cpp, npcbehavior.cpp).  It attends one player *)
(* and queues those who address it meanwhile; when the one attended says   *)
(* good-bye, walks away, is silent too long or logs out, the next in the   *)
(* queue who still stands there is addressed after a pause, as an entry of *)
(* the npc's to-do list that names the player by pointer.                  *)
(***************************************************************************)
EXTENDS Naturals, Sequences, FiniteSets, SequencesExt

CONSTANTS
  Persons,
  None,
  MaxPending   \* bound: addresses waiting in the to-do list

VARIABLES
  place,      \* [Persons -> near, away, gone]
  focus,      \* Npc::focusCreature
  lockVanish, \* Npc::lockVanishCreatureId: who has left the conversation
  queue,      \* NpcBehavior::queueList
  pending,    \* entries of the to-do list that address the next customer
  pause,      \* reactionLockTime has not come
  silent      \* behaviorConversationTimeout has passed

vars == <<place, focus, lockVanish, queue, pending, pause, silent>>

Talk == [focus |-> focus, lock |-> lockVanish, queue |-> queue, pending |-> pending,
         pause |-> pause, silent |-> silent]
Becomes(t) ==
  /\ focus' = t.focus /\ lockVanish' = t.lock /\ queue' = t.queue
  /\ pending' = t.pending /\ pause' = t.pause /\ silent' = t.silent

Attend(t, p) == [t EXCEPT !.focus = p, !.lock = None, !.silent = FALSE]
AttendLocked(t, p) == [t EXCEPT !.focus = p, !.silent = FALSE]
AttendCustomer(t, p) == Attend(t, p)

QueueCustomer(t, p) ==
  IF \E i \in DOMAIN t.queue : t.queue[i] = p THEN t ELSE [t EXCEPT !.queue = Append(@, p)]

\* idle: the first of the queue who is near, as the players now stand, will be addressed;
\* those before him are dropped.
NpcIdle(t, at) ==
  LET near == {i \in DOMAIN t.queue : at[t.queue[i]] = "near"}
  IN IF near = {} THEN [t EXCEPT !.focus = None, !.lock = None, !.queue = <<>>]
     ELSE LET i == CHOOSE i \in near : \A j \in near : i <= j
          IN [t EXCEPT !.queue = SubSeq(@, i + 1, Len(@)), !.pause = TRUE,
                       !.pending = Append(@, t.queue[i])]

\* react is deaf to one who has left, and to everybody during the pause.
Deaf(t, p) == p = t.lock \/ t.pause

\* The answers to one who addresses the npc, to one who finds it busy, and to one who leaves.
\* What is answered to the one attended goes on with him, or ends the conversation.
ReactAddress(t, p) ==
  IF Deaf(t, p) THEN t ELSE IF place[p] # "near" THEN NpcIdle(t, place) ELSE AttendCustomer(t, p)
ReactBusy(t, p) == IF Deaf(t, p) THEN t ELSE QueueCustomer(t, p)
ReactVanish(t, p, at) ==
  IF Deaf(t, p) THEN t ELSE NpcIdle(IF t.focus = p THEN AttendCustomer(t, p) ELSE t, at)
ReactNone(t, p, bye) ==
  IF Deaf(t, p) THEN t ELSE IF bye THEN NpcIdle(AttendCustomer(t, p), place) ELSE AttendCustomer(t, p)

-----------------------------------------------------------------------------
OnCreatureSay(p, bye) ==
  /\ place[p] = "near" /\ Len(pending) < MaxPending
  /\ Becomes(CASE focus = None -> ReactAddress(Talk, p)
               [] focus = p -> ReactNone(Talk, p, bye)
               [] OTHER -> ReactBusy(Talk, p))
  /\ UNCHANGED place

\* A step: the one attended who walks away leaves the conversation, once.
OnCreatureMove(p, to) ==
  /\ place[p] \in {"near", "away"} /\ to # place[p] /\ Len(pending) < MaxPending
  /\ place' = [place EXCEPT ![p] = to]
  /\ IF p = focus /\ to = "away" /\ p # lockVanish
     THEN LET t == ReactVanish(Talk, p, place')
          IN Becomes([t EXCEPT !.lock = p])
     ELSE Becomes(Talk)

\* A player leaves the game; the npc is told while the player still stands in it.
OnRemoveCreature(p) ==
  /\ place[p] # "gone" /\ Len(pending) < MaxPending
  /\ place' = [place EXCEPT ![p] = "gone"]
  /\ Becomes(IF p = focus THEN ReactVanish(Talk, p, place) ELSE Talk)

\* The npc thinks: of one who is too far or too silent it takes leave; when there is none
\* it turns to the next.
OnThink ==
  /\ focus # None /\ Len(pending) < MaxPending
  /\ \/ place[focus] = "gone" /\ Becomes(NpcIdle(Talk, place))
     \/ /\ place[focus] = "away" \/ (place[focus] = "near" /\ silent)
        /\ Becomes(ReactVanish(Talk, focus, place))
  /\ UNCHANGED place

\* The to-do list comes to the pause's end, or to the answers before it, and addresses the
\* customer.  The pointer of one who is gone leads to freed memory: what stands there may
\* look near or far.
RunAddress ==
  /\ pending # <<>> /\ ~pause
  /\ LET p == Head(pending)
         t == [Talk EXCEPT !.pending = Tail(@)]
     IN \/ Becomes(ReactAddress(t, p))
        \/ place[p] = "gone" /\ ~Deaf(t, p) /\ Becomes(AttendCustomer(t, p))
  /\ UNCHANGED place

\* onIdleStimulus, when nothing is left to do.
OnIdleStimulus ==
  /\ focus = None /\ pending = <<>> /\ lockVanish # None
  /\ lockVanish' = None
  /\ UNCHANGED <<place, focus, queue, pending, pause, silent>>

PauseEnds ==
  /\ pause /\ pause' = FALSE
  /\ UNCHANGED <<place, focus, lockVanish, queue, pending, silent>>
FallSilent ==
  /\ focus # None /\ ~silent /\ silent' = TRUE
  /\ UNCHANGED <<place, focus, lockVanish, queue, pending, pause>>

Init ==
  /\ place = [p \in Persons |-> "near"] /\ focus = None /\ lockVanish = None
  /\ queue = <<>> /\ pending = <<>> /\ pause = FALSE /\ silent = FALSE

Next ==
  \/ \E p \in Persons :
       \/ \E bye \in BOOLEAN : OnCreatureSay(p, bye)
       \/ \E to \in {"near", "away"} : OnCreatureMove(p, to)
       \/ OnRemoveCreature(p)
  \/ OnThink \/ RunAddress \/ OnIdleStimulus \/ PauseEnds \/ FallSilent

Spec == Init /\ [][Next]_vars

-----------------------------------------------------------------------------
NpcTypeOK ==
  /\ place \in [Persons -> {"near", "away", "gone"}]
  /\ focus \in Persons \cup {None} /\ lockVanish \in Persons \cup {None}
  /\ queue \in Seq(Persons) /\ pending \in Seq(Persons) /\ pause \in BOOLEAN /\ silent \in BOOLEAN

\* The npc is deaf to nobody but the one it attended last: who is locked out of one
\* conversation is heard again when another has begun (npcbehavior.cpp:1426).
OnlyLastIsLockedOut == lockVanish # None => focus \in {None, lockVanish}

\* Nobody waits twice, and a pause is always one before somebody is addressed: without one
\* the npc would be deaf for no reason.
QueuedOnce == IsInjective(queue)
PauseForSomeone == pause => pending # <<>>

NpcInv == NpcTypeOK /\ OnlyLastIsLockedOut /\ QueuedOnce /\ PauseForSomeone
=============================================================================
