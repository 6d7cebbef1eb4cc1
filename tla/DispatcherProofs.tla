-------------------------- MODULE DispatcherProofs --------------------------
(***************************************************************************)
(* What holds of the dispatcher whatever the tasks and the threads are.    *)
(*                                                                         *)
(* The argument is about Pending, the batch followed by the list: every    *)
(* step leaves it alone, appends one task that was never in it, or removes *)
(* its first one.  Nothing is in it twice, and once the dispatcher is      *)
(* CLOSING the only task that can still be appended is TerminateTask.      *)
(***************************************************************************)
EXTENDS Dispatcher, SequenceTheorems, TLAPS

Pending == tmpTaskList \o taskList
Known == Elems(Pending) \cup {current} \cup ended
Distinct(s) == \A i, j \in 1 .. Len(s) : s[i] = s[j] => i = j

\* Where the thread is says what it holds.
PcInv ==
  /\ pc \notin {"batch", "run", "posted", "pushed"} => tmpTaskList = <<>>
  /\ current # None <=> pc \in {"run", "posted", "pushed"}
  /\ pc = "posted" => current \in CloseTasks /\ gameDown /\ threadState = "RUNNING"
  /\ pc = "pushed" => current = ShutdownTask
  /\ pc = "end" => threadState = "TERMINATED"

\* A task is in one place.
OnceInv ==
  /\ Distinct(Pending)
  /\ current \notin Elems(Pending)
  /\ ended \cap (Elems(Pending) \cup {current}) = {}
  /\ fresh \cap Known = {}

\* The two tasks of the shutdown come once, the second after the first.
PillInv ==
  /\ ~gameDown => /\ threadState = "RUNNING"
                  /\ ShutdownTask \notin Known /\ TerminateTask \notin Known
  /\ TerminateTask \in Known => /\ ShutdownTask \notin Elems(Pending)
                                /\ current = ShutdownTask => pc = "pushed"

\* While the services run, nothing comes after TerminateTask.
CloseInv ==
  online =>
    /\ threadState = "RUNNING" => /\ TerminateTask \notin Known
                                  /\ ShutdownTask \in Known => pc = "posted"
    /\ TerminateTask \in Elems(Pending) => Pending[Len(Pending)] = TerminateTask
    /\ current = TerminateTask => Pending = <<>>
    /\ threadState = "TERMINATED" => Pending = <<>> /\ current = None

-----------------------------------------------------------------------------
(* Sequences.                                                              *)

LEMMA AppendElems ==
  ASSUME NEW S, NEW s \in Seq(S), NEW e \in S
  PROVE  /\ Append(s, e) \in Seq(S)
         /\ Append(s, e) # <<>>
         /\ Elems(Append(s, e)) = Elems(s) \cup {e}
         /\ Append(s, e)[Len(Append(s, e))] = e
         /\ Distinct(s) /\ e \notin Elems(s) => Distinct(Append(s, e))
<1> DEFINE a == Append(s, e)
<1>1. /\ a \in Seq(S) /\ Len(a) = Len(s) + 1 /\ Len(s) \in Nat
      /\ a[Len(s) + 1] = e
      /\ \A i \in 1 .. Len(s) : a[i] = s[i]
  BY AppendProperties, LenProperties, SMT
<1>2. a # <<>>
  BY <1>1, EmptySeq
<1>3. Elems(a) = Elems(s) \cup {e}
  <2> HIDE DEF a
  <2>1. ASSUME NEW x \in Elems(a) PROVE x \in Elems(s) \cup {e}
    <3>1. PICK i \in 1 .. Len(a) : x = a[i]
      BY <2>1 DEF Elems
    <3>2. CASE i = Len(s) + 1
      BY <3>1, <3>2, <1>1
    <3>3. CASE i # Len(s) + 1
      BY <3>1, <3>3, <1>1 DEF Elems
    <3> QED BY <3>2, <3>3
  <2>2. ASSUME NEW x \in Elems(s) \cup {e} PROVE x \in Elems(a)
    BY <2>2, <1>1 DEF Elems
  <2> QED BY <2>1, <2>2
<1>4. ASSUME Distinct(s), e \notin Elems(s) PROVE Distinct(a)
  <2> HIDE DEF a
  <2> QED BY <1>1, <1>4 DEF Distinct, Elems
<1> QED BY <1>1, <1>2, <1>3, <1>4

LEMMA TailElems ==
  ASSUME NEW S, NEW s \in Seq(S), s # <<>>
  PROVE  /\ Head(s) \in S /\ Tail(s) \in Seq(S)
         /\ Elems(s) = Elems(Tail(s)) \cup {Head(s)}
         /\ Tail(s) # <<>> => Tail(s)[Len(Tail(s))] = s[Len(s)]
         /\ Distinct(s) => Distinct(Tail(s)) /\ Head(s) \notin Elems(Tail(s))
         /\ Distinct(s) /\ Head(s) = s[Len(s)] => Tail(s) = <<>>
<1> DEFINE t == Tail(s)
<1>1. /\ t \in Seq(S) /\ Len(t) = Len(s) - 1 /\ Len(s) \in Nat /\ Len(s) > 0
      /\ Head(s) = s[1] /\ Head(s) \in S
      /\ \A i \in 1 .. Len(t) : t[i] = s[i + 1]
  BY HeadTailProperties, LenProperties, EmptySeq
<1>2. t # <<>> => Len(t) > 0
  BY <1>1, EmptySeq
<1>3. Len(t) = 0 => t = <<>>
  BY <1>1, EmptySeq
<1> HIDE DEF t
<1>4. Elems(s) = Elems(t) \cup {Head(s)}
  <2>1. ASSUME NEW x \in Elems(s) PROVE x \in Elems(t) \cup {Head(s)}
    <3>1. PICK i \in 1 .. Len(s) : x = s[i]
      BY <2>1 DEF Elems
    <3>2. CASE i = 1
      BY <3>1, <3>2, <1>1
    <3>3. CASE i # 1
      <4>1. i - 1 \in 1 .. Len(t) /\ t[i - 1] = s[i]
        BY <3>3, <1>1
      <4> QED BY <4>1, <3>1 DEF Elems
    <3> QED BY <3>2, <3>3
  <2>2. ASSUME NEW x \in Elems(t) \cup {Head(s)} PROVE x \in Elems(s)
    BY <2>2, <1>1 DEF Elems
  <2> QED BY <2>1, <2>2
<1>5. t # <<>> => t[Len(t)] = s[Len(s)]
  BY <1>1, <1>2
<1>6. ASSUME Distinct(s) PROVE Distinct(t) /\ Head(s) \notin Elems(t)
  <2>1. Distinct(t)
    BY <1>1, <1>6 DEF Distinct
  <2>2. ASSUME NEW i \in 1 .. Len(t), t[i] = Head(s) PROVE FALSE
    BY <1>1, <1>6, <2>2 DEF Distinct
  <2> QED BY <2>1, <2>2 DEF Elems
<1>7. ASSUME Distinct(s), Head(s) = s[Len(s)] PROVE t = <<>>
  BY <1>1, <1>3, <1>7 DEF Distinct
<1> QED BY <1>1, <1>4, <1>5, <1>6, <1>7 DEF t

LEMMA ConcatSteps ==
  ASSUME NEW S, NEW s \in Seq(S), NEW t \in Seq(S)
  PROVE  /\ s \o t \in Seq(S)
         /\ \A e \in S : s \o Append(t, e) = Append(s \o t, e)
         /\ s # <<>> => /\ s \o t # <<>>
                        /\ Head(s \o t) = Head(s)
                        /\ Tail(s \o t) = Tail(s) \o t
         /\ t = <<>> => s \o t = s
         /\ s = <<>> => s \o t = t
<1>1. s \o t \in Seq(S) /\ (t = <<>> => s \o t = s) /\ (s = <<>> => s \o t = t)
  BY ConcatProperties, ConcatEmptySeq
<1>2. ASSUME NEW e \in S PROVE s \o Append(t, e) = Append(s \o t, e)
  <2>1. <<e>> \in Seq(S)
    OBVIOUS
  <2>2. Append(t, e) = t \o <<e>> /\ Append(s \o t, e) = (s \o t) \o <<e>>
    BY <1>1, AppendIsConcat
  <2>3. (s \o t) \o <<e>> = s \o (t \o <<e>>)
    BY <2>1, ConcatAssociative
  <2> QED BY <2>2, <2>3
<1>3. ASSUME s # <<>>
      PROVE  /\ s \o t # <<>> /\ Head(s \o t) = Head(s)
             /\ Tail(s \o t) = Tail(s) \o t
  <2>1. /\ Len(s) \in Nat /\ Len(s) > 0 /\ Len(t) \in Nat
        /\ Len(s \o t) = Len(s) + Len(t) /\ (s \o t)[1] = s[1]
    BY <1>3, ConcatProperties, LenProperties, EmptySeq
  <2>2. s \o t # <<>>
    BY <2>1, EmptySeq
  <2>3. Head(s \o t) = Head(s)
    BY <2>1, <2>2, <1>1, <1>3
  <2>4. /\ Tail(s) \in Seq(S) /\ Len(Tail(s)) = Len(s) - 1
        /\ \A i \in 1 .. Len(Tail(s)) : Tail(s)[i] = s[i + 1]
    BY <1>3, HeadTailProperties
  <2>5. /\ Tail(s \o t) \in Seq(S) /\ Len(Tail(s \o t)) = Len(s \o t) - 1
        /\ \A i \in 1 .. Len(Tail(s \o t)) : Tail(s \o t)[i] = (s \o t)[i + 1]
    BY <1>1, <2>2, HeadTailProperties
  <2>6. Tail(s) \o t \in Seq(S) /\ Len(Tail(s) \o t) = Len(Tail(s \o t))
    BY <2>1, <2>4, <2>5, ConcatProperties
  <2>7. ASSUME NEW i \in 1 .. Len(Tail(s \o t))
        PROVE  Tail(s \o t)[i] = (Tail(s) \o t)[i]
    BY <2>1, <2>4, <2>5, ConcatProperties
  <2> QED BY <2>2, <2>3, <2>5, <2>6, <2>7, SeqEqual
<1> QED BY <1>1, <1>2, <1>3
-----------------------------------------------------------------------------
(* The inductive invariant.                                                *)

IInv == TypeOK /\ PcInv /\ OnceInv /\ PillInv /\ CloseInv

\* What the three kinds of steps do to Pending.
LEMMA PendingType == TypeOK => Pending \in Seq(AllTasks)
  BY ConcatSteps DEF TypeOK, Pending

LEMMA PendingSwap ==
  ASSUME TypeOK, tmpTaskList = <<>>, tmpTaskList' = taskList, taskList' = tmpTaskList
  PROVE  Pending' = Pending
<1>1. taskList \o <<>> = taskList /\ <<>> \o taskList = taskList
  BY ConcatEmptySeq DEF TypeOK
<1> QED BY <1>1 DEF Pending

LEMMA PendingAppend ==
  ASSUME TypeOK, NEW t \in AllTasks,
         taskList' = Append(taskList, t), tmpTaskList' = tmpTaskList
  PROVE  /\ Pending' = Append(Pending, t) /\ Pending' # <<>>
         /\ Elems(Pending') = Elems(Pending) \cup {t}
         /\ Pending'[Len(Pending')] = t
         /\ Distinct(Pending) /\ t \notin Elems(Pending) => Distinct(Pending')
<1>1. Pending' = Append(Pending, t)
  BY ConcatSteps DEF TypeOK, Pending
<1>2. Pending \in Seq(AllTasks)
  BY PendingType
<1> QED BY <1>1, <1>2, AppendElems

LEMMA PendingTail ==
  ASSUME TypeOK, tmpTaskList # <<>>,
         tmpTaskList' = Tail(tmpTaskList), taskList' = taskList
  PROVE  /\ Pending # <<>> /\ Head(Pending) = Head(tmpTaskList)
         /\ Head(tmpTaskList) \in AllTasks
         /\ Pending' = Tail(Pending)
         /\ Elems(Pending) = Elems(Pending') \cup {Head(Pending)}
         /\ Pending' # <<>> => Pending'[Len(Pending')] = Pending[Len(Pending)]
         /\ Distinct(Pending) => /\ Distinct(Pending')
                                 /\ Head(Pending) \notin Elems(Pending')
                                 /\ Head(Pending) = Pending[Len(Pending)] => Pending' = <<>>
<1>1. /\ Pending # <<>> /\ Head(Pending) = Head(tmpTaskList)
      /\ Pending' = Tail(Pending)
  BY ConcatSteps DEF TypeOK, Pending
<1>2. Pending \in Seq(AllTasks)
  BY PendingType
<1>3. Head(tmpTaskList) \in AllTasks
  BY HeadTailProperties DEF TypeOK
<1> QED BY <1>1, <1>2, <1>3, TailElems

\* No task follows the last one of an empty list.
LEMMA NoElems == Elems(<<>>) = {} /\ Distinct(<<>>)
  BY DEF Elems, Distinct

-----------------------------------------------------------------------------
LEMMA InitIInv == Init => IInv
<1> SUFFICES ASSUME Init PROVE IInv
  OBVIOUS
<1>1. Pending = <<>>
  BY ConcatEmptySeq, EmptySeq DEF Init, Pending
<1>2. TypeOK
  BY EmptySeq, TaskAssumption DEF Init, TypeOK, ThreadState, PC, AllTasks
<1>3. PcInv
  BY DEF Init, PcInv
<1>4. OnceInv
  BY <1>1, NoElems, TaskAssumption DEF Init, OnceInv, Known
<1>5. PillInv /\ CloseInv
  BY <1>1, NoElems, TaskAssumption DEF Init, PillInv, CloseInv, Known
<1> QED BY <1>2, <1>3, <1>4, <1>5 DEF IInv

\* A step that moves no task keeps the parts about tasks, unless it moves the
\* thread out of one of the two places they mention.
LEMMA QuietStep ==
  ASSUME OnceInv, PillInv, CloseInv, Pending' = Pending,
         UNCHANGED <<threadState, online, gameDown, fresh, current, ended>>,
         pc' = pc \/ pc \notin {"posted", "pushed"}
  PROVE  OnceInv' /\ PillInv' /\ CloseInv'
<1>1. Known' = Known
  BY DEF Known
<1>2. OnceInv'
  BY <1>1 DEF OnceInv
<1>3. PillInv'
  BY <1>1 DEF PillInv
<1>4. CloseInv'
  BY <1>1 DEF CloseInv
<1> QED BY <1>2, <1>3, <1>4
-----------------------------------------------------------------------------
(* Every step preserves the invariant, one lemma for each kind of step.    *)

LEMMA AddTaskStep ==
  ASSUME IInv, NEW p \in Threads \cup {Self}, NEW t \in Tasks, AddTask(p, t)
  PROVE  IInv'
<1> USE DEF IInv
<1>1. t \in AllTasks /\ t # ShutdownTask /\ t # TerminateTask /\ t # None
  BY TaskAssumption DEF AllTasks
<1>2. TypeOK'
  BY <1>1, AppendProperties DEF AddTask, Enqueue, Accepts, SignalsIf, TypeOK
<1>3. PcInv'
  BY DEF AddTask, PcInv
<1>4. CASE threadState = "RUNNING"
  <2>1. taskList' = Append(taskList, t) /\ tmpTaskList' = tmpTaskList
    BY <1>4 DEF AddTask, Enqueue, Accepts
  <2>2. t \notin Known
    BY DEF AddTask, OnceInv
  <2>3. Known' = Known \cup {t}
    BY <1>1, <2>1, PendingAppend DEF Known, AddTask
  <2>4. OnceInv'
    <3>1. Distinct(Pending')
      BY <1>1, <2>1, <2>2, PendingAppend DEF OnceInv, Known
    <3>2. Elems(Pending') = Elems(Pending) \cup {t}
      BY <1>1, <2>1, PendingAppend
    <3> QED BY <2>2, <2>3, <3>1, <3>2 DEF OnceInv, AddTask, Known
  <2>5. PillInv'
    <3>1. Elems(Pending') = Elems(Pending) \cup {t}
      BY <1>1, <2>1, PendingAppend
    <3> QED BY <1>1, <2>3, <3>1 DEF PillInv, AddTask
  <2>6. CloseInv'
    <3>1. Elems(Pending') = Elems(Pending) \cup {t}
      BY <1>1, <2>1, PendingAppend
    <3>2. online => TerminateTask \notin Known'
      BY <1>1, <1>4, <2>3 DEF CloseInv
    <3> QED BY <1>1, <1>4, <2>3, <3>1, <3>2 DEF CloseInv, AddTask, Known
  <2> QED BY <1>2, <1>3, <2>4, <2>5, <2>6
<1>5. CASE threadState # "RUNNING"
  <2>1. Pending' = Pending /\ Known' = Known
    BY <1>5 DEF AddTask, Enqueue, Accepts, Pending, Known
  <2>2. fresh' \subseteq fresh
    BY DEF AddTask
  <2>3. OnceInv'
    BY <2>1, <2>2 DEF OnceInv, AddTask
  <2>4. PillInv' /\ CloseInv'
    BY <2>1 DEF PillInv, CloseInv, AddTask
  <2> QED BY <1>2, <1>3, <2>3, <2>4
<1> QED BY <1>4, <1>5

LEMMA MainShutdownStep == ASSUME IInv, MainShutdown PROVE IInv'
<1> USE DEF IInv
<1>1. TerminateTask \in AllTasks /\ TerminateTask # None
  BY TaskAssumption DEF AllTasks
<1>2. TypeOK'
  BY <1>1, AppendProperties DEF MainShutdown, TypeOK, Wake, PC
<1>3. PcInv'
  BY DEF MainShutdown, PcInv, Wake
<1>4. taskList' = Append(taskList, TerminateTask) /\ tmpTaskList' = tmpTaskList
  BY DEF MainShutdown
<1>5. TerminateTask \notin Known /\ ShutdownTask \notin Known
  BY DEF MainShutdown, PillInv
<1>6. /\ Elems(Pending') = Elems(Pending) \cup {TerminateTask}
      /\ Distinct(Pending) /\ TerminateTask \notin Elems(Pending) => Distinct(Pending')
  BY <1>1, <1>4, PendingAppend
<1>7. Known' = Known \cup {TerminateTask}
  BY <1>6 DEF Known, MainShutdown
<1>8. OnceInv'
  <2>1. Distinct(Pending')
    BY <1>5, <1>6 DEF OnceInv, Known
  <2>2. TerminateTask \notin fresh
    BY TaskAssumption DEF TypeOK
  <2> QED BY <1>5, <1>6, <1>7, <2>1, <2>2 DEF OnceInv, MainShutdown, Known
<1>9. PillInv'
  BY <1>5, <1>6, <1>7, TaskAssumption DEF PillInv, MainShutdown, Known
<1>10. CloseInv'
  BY DEF CloseInv, MainShutdown
<1> QED BY <1>2, <1>3, <1>8, <1>9, <1>10

\* The steps that neither move nor end a task.
LEMMA IdleStep ==
  ASSUME IInv,
         \/ \E p \in Threads \cup {Self} : NotifyOne(p)
         \/ TestState \/ Wait \/ SpuriousWakeup \/ TakeBatch \/ BatchDone
  PROVE  IInv'
<1> USE DEF IInv
<1>1. ASSUME NEW p \in Threads \cup {Self}, NotifyOne(p) PROVE IInv'
  <2>1. TypeOK' /\ PcInv'
    BY <1>1 DEF NotifyOne, TypeOK, PcInv, Wake, PC, queues
  <2> QED BY <1>1, <2>1, QuietStep DEF NotifyOne, Wake, Pending, queues
<1>2. CASE TestState
  <2>1. TypeOK' /\ PcInv'
    BY <1>2 DEF TestState, TypeOK, PcInv, PC, queues
  <2> QED BY <1>2, <2>1, QuietStep DEF TestState, Pending, queues
<1>3. CASE Wait
  <2>1. TypeOK' /\ PcInv'
    BY <1>3 DEF Wait, TypeOK, PcInv, PC, queues
  <2> QED BY <1>3, <2>1, QuietStep DEF Wait, Pending, queues
<1>4. CASE SpuriousWakeup
  <2>1. TypeOK' /\ PcInv'
    BY <1>4 DEF SpuriousWakeup, TypeOK, PcInv, PC, queues
  <2> QED BY <1>4, <2>1, QuietStep DEF SpuriousWakeup, Pending, queues
<1>5. CASE TakeBatch
  <2>1. TypeOK' /\ PcInv'
    BY <1>5 DEF TakeBatch, Swap, TypeOK, PcInv, PC
  <2>2. Pending' = Pending
    BY <1>5, PendingSwap DEF TakeBatch, Swap, PcInv
  <2> QED BY <1>5, <2>1, <2>2, QuietStep DEF TakeBatch
<1>6. CASE BatchDone
  <2>1. TypeOK' /\ PcInv'
    BY <1>6 DEF BatchDone, TypeOK, PcInv, PC, queues
  <2> QED BY <1>6, <2>1, QuietStep DEF BatchDone, Pending, queues
<1> QED BY <1>1, <1>2, <1>3, <1>4, <1>5, <1>6

LEMMA NextTaskStep == ASSUME IInv, NextTask PROVE IInv'
<1> USE DEF IInv
<1> DEFINE h == Head(tmpTaskList)
<1>1. tmpTaskList # <<>> /\ tmpTaskList' = Tail(tmpTaskList) /\ taskList' = taskList
  BY DEF NextTask
<1>2. /\ Pending # <<>> /\ Head(Pending) = h /\ h \in AllTasks
      /\ Elems(Pending) = Elems(Pending') \cup {h}
      /\ Pending' # <<>> => Pending'[Len(Pending')] = Pending[Len(Pending)]
      /\ Distinct(Pending') /\ h \notin Elems(Pending')
      /\ h = Pending[Len(Pending)] => Pending' = <<>>
  BY <1>1, PendingTail DEF OnceInv
<1>3. h # None /\ current = None /\ pc = "batch"
  BY <1>2, TaskAssumption DEF AllTasks, NextTask, PcInv
<1>4. Tail(tmpTaskList) \in Seq(AllTasks)
  BY <1>1, HeadTailProperties DEF TypeOK
<1> HIDE DEF h
<1>5. CASE current' = h /\ pc' = "run" /\ ended' = ended
  <2>1. TypeOK' /\ PcInv'
    BY <1>1, <1>2, <1>3, <1>4, <1>5 DEF NextTask, TypeOK, PcInv, PC
  <2>2. Known' \cup {None} = Known
    BY <1>2, <1>3, <1>5 DEF Known
  <2>3. OnceInv'
    BY <1>2, <1>3, <1>5, <2>2 DEF OnceInv, NextTask, Known
  <2>4. PillInv'
    BY <1>2, <1>3, <1>5, <2>2, TaskAssumption DEF PillInv, NextTask
  <2>5. CloseInv'
    BY <1>2, <1>3, <1>5, <2>2, NoElems, TaskAssumption DEF CloseInv, NextTask, Known
  <2> QED BY <2>1, <2>3, <2>4, <2>5
<1>6. CASE h \in TimedTasks /\ ended' = ended \cup {h} /\ current' = current /\ pc' = pc
  <2>1. TypeOK' /\ PcInv'
    BY <1>1, <1>2, <1>3, <1>4, <1>6 DEF NextTask, TypeOK, PcInv, PC
  <2>2. Known' = Known /\ h # TerminateTask
    BY <1>2, <1>3, <1>6, TaskAssumption DEF Known
  <2>3. OnceInv'
    BY <1>2, <1>3, <1>6, <2>2 DEF OnceInv, NextTask, Known
  <2>4. PillInv'
    BY <1>2, <1>3, <1>6, <2>2, TaskAssumption DEF PillInv, NextTask
  <2>5. CloseInv'
    BY <1>2, <1>3, <1>6, <2>2, NoElems, TaskAssumption DEF CloseInv, NextTask, Known
  <2> QED BY <2>1, <2>3, <2>4, <2>5
<1> QED BY <1>5, <1>6 DEF NextTask, h
\* A task that returns goes from current to ended.
LEMMA ReturnStep ==
  ASSUME IInv, pc \in {"run", "posted", "pushed"}, TaskReturns,
         UNCHANGED <<online, gameDown, fresh, queues>>
  PROVE  /\ Pending' = Pending /\ Known' = Known \cup {None}
         /\ current \in AllTasks /\ current # None
         /\ PcInv' /\ OnceInv'
         /\ Known' \cap AllTasks = Known \cap AllTasks
<1> USE DEF IInv
<1>1. current \in AllTasks /\ current # None /\ None \notin AllTasks
  BY TaskAssumption DEF TypeOK, PcInv, AllTasks
<1>2. Pending' = Pending
  BY DEF Pending, queues
<1>3. Known' = Known \cup {None}
  BY <1>2 DEF Known, TaskReturns
<1>4. PcInv'
  BY DEF PcInv, TaskReturns
<1>5. None \notin Elems(Pending) /\ None \notin fresh /\ None \notin ended
  <2>1. Elems(Pending) \subseteq AllTasks
    BY PendingType, ElementOfSeq DEF Elems
  <2> QED BY <2>1, <1>1 DEF TypeOK, AllTasks
<1>6. OnceInv'
  BY <1>1, <1>2, <1>3, <1>5 DEF OnceInv, TaskReturns, Known
<1> QED BY <1>1, <1>2, <1>3, <1>4, <1>6

LEMMA ExecuteStep == ASSUME IInv, Execute PROVE IInv'
<1> USE DEF IInv
<1>0. /\ ShutdownTask \in AllTasks /\ TerminateTask \in AllTasks
      /\ ShutdownTask # TerminateTask /\ None \notin AllTasks
      /\ Tasks \subseteq AllTasks /\ ShutdownTask \notin Tasks /\ TerminateTask \notin Tasks
  BY TaskAssumption DEF AllTasks
<1>1. CASE RunTask
  <2>1. /\ Pending' = Pending /\ Known' = Known \cup {None}
        /\ PcInv' /\ OnceInv' /\ current \in Tasks
    BY <1>1, ReturnStep DEF RunTask
  <2>2. TypeOK'
    BY <1>0, <1>1 DEF RunTask, TaskReturns, TypeOK, PC, queues
  <2>3. PillInv'
    BY <1>0, <1>1, <2>1 DEF RunTask, TaskReturns, PillInv
  <2>4. CloseInv'
    BY <1>0, <1>1, <2>1 DEF RunTask, TaskReturns, CloseInv, PcInv
  <2> QED BY <2>1, <2>2, <2>3, <2>4
<1>2. CASE CloseGame
  <2>1. /\ threadState = "RUNNING" /\ ShutdownTask \notin Known /\ TerminateTask \notin Known
        /\ ShutdownTask \notin fresh
    BY <1>0, <1>2 DEF CloseGame, PillInv, TypeOK
  <2>2. taskList' = Append(taskList, ShutdownTask) /\ tmpTaskList' = tmpTaskList /\ refused' = refused
    BY <1>2, <2>1 DEF CloseGame, Enqueue, Accepts
  <2>3. /\ Elems(Pending') = Elems(Pending) \cup {ShutdownTask}
        /\ Distinct(Pending) /\ ShutdownTask \notin Elems(Pending) => Distinct(Pending')
    BY <1>0, <2>2, PendingAppend
  <2>4. Known' = Known \cup {ShutdownTask}
    BY <1>2, <2>3 DEF Known, CloseGame
  <2>5. TypeOK'
    BY <1>0, <1>2, <2>2, AppendProperties DEF CloseGame, TypeOK, PC
  <2>6. PcInv'
    BY <1>2, <2>1, TaskAssumption DEF CloseGame, PcInv
  <2>7. OnceInv'
    BY <1>2, <2>1, <2>3, <2>4 DEF CloseGame, OnceInv, Known
  <2>8. PillInv'
    BY <1>0, <1>2, <2>1, <2>4 DEF CloseGame, PillInv, Known
  <2>9. CloseInv'
    BY <1>0, <1>2, <2>1, <2>3, <2>4 DEF CloseGame, CloseInv, Known
  <2> QED BY <2>5, <2>6, <2>7, <2>8, <2>9
<1>3. CASE Stop
  <2>1. /\ Pending' = Pending /\ Known' = Known \cup {None}
        /\ PcInv' /\ OnceInv' /\ current \in AllTasks
    BY <1>3, ReturnStep DEF Stop
  <2>2. TypeOK'
    BY <1>3, <2>1 DEF Stop, TaskReturns, TypeOK, PC, queues, ThreadState
  <2>3. PillInv'
    BY <1>0, <1>3, <2>1 DEF Stop, TaskReturns, PillInv, PcInv
  <2>4. CloseInv'
    BY <1>0, <1>3, <2>1 DEF Stop, TaskReturns, CloseInv, PcInv
  <2> QED BY <2>1, <2>2, <2>3, <2>4
<1>4. CASE RunShutdown
  <2>1. TerminateTask \notin Known /\ TerminateTask \notin fresh /\ gameDown
    BY <1>0, <1>4 DEF RunShutdown, PillInv, TypeOK, Known
  <2>2. taskList' = Append(taskList, TerminateTask) /\ tmpTaskList' = tmpTaskList
    BY <1>4 DEF RunShutdown
  <2>3. /\ Elems(Pending') = Elems(Pending) \cup {TerminateTask}
        /\ Pending' # <<>> /\ Pending'[Len(Pending')] = TerminateTask
        /\ Distinct(Pending) /\ TerminateTask \notin Elems(Pending) => Distinct(Pending')
    BY <1>0, <2>2, PendingAppend
  <2>4. Known' = Known \cup {TerminateTask}
    BY <1>4, <2>3 DEF Known, RunShutdown
  <2>5. TypeOK'
    BY <1>0, <1>4, <2>2, AppendProperties DEF RunShutdown, TypeOK, PC
  <2>6. PcInv'
    BY <1>4 DEF RunShutdown, PcInv
  <2>7. OnceInv'
    BY <1>0, <1>4, <2>1, <2>3, <2>4 DEF RunShutdown, OnceInv, Known
  <2>8. PillInv'
    BY <1>0, <1>4, <2>1, <2>3, <2>4 DEF RunShutdown, PillInv, OnceInv
  <2>9. CloseInv'
    <3>1. online => threadState = "CLOSING"
      BY <1>4, <1>0 DEF RunShutdown, CloseInv, Known, TypeOK, ThreadState
    <3> QED BY <1>0, <1>4, <2>3, <3>1 DEF RunShutdown, CloseInv
  <2> QED BY <2>5, <2>6, <2>7, <2>8, <2>9
<1>5. CASE ShutdownReturns
  <2>1. /\ Pending' = Pending /\ Known' = Known \cup {None}
        /\ PcInv' /\ OnceInv' /\ current = ShutdownTask
    BY <1>5, ReturnStep DEF ShutdownReturns, PcInv
  <2>2. TypeOK'
    BY <1>0, <1>5, <2>1 DEF ShutdownReturns, TaskReturns, TypeOK, PC, queues
  <2>3. PillInv'
    BY <1>0, <1>5, <2>1 DEF ShutdownReturns, TaskReturns, PillInv
  <2>4. CloseInv'
    BY <1>0, <1>5, <2>1 DEF ShutdownReturns, TaskReturns, CloseInv, PcInv, Known
  <2> QED BY <2>1, <2>2, <2>3, <2>4
<1>6. CASE RunTerminate
  <2>1. /\ Pending' = Pending /\ Known' = Known \cup {None}
        /\ PcInv' /\ OnceInv' /\ current = TerminateTask
    BY <1>6, ReturnStep DEF RunTerminate
  <2>2. TypeOK'
    BY <1>0, <1>6, <2>1 DEF RunTerminate, TaskReturns, TypeOK, PC, queues, ThreadState
  <2>3. PillInv'
    BY <1>0, <1>6, <2>1 DEF RunTerminate, TaskReturns, PillInv, Known
  <2>4. CloseInv'
    BY <1>0, <1>6, <2>1, NoElems DEF RunTerminate, TaskReturns, CloseInv
  <2> QED BY <2>1, <2>2, <2>3, <2>4
<1> QED BY <1>1, <1>2, <1>3, <1>4, <1>5, <1>6 DEF Execute

LEMMA NextIInv == IInv /\ [Next]_vars => IInv'
<1> SUFFICES ASSUME IInv, [Next]_vars PROVE IInv'
  OBVIOUS
<1>1. CASE UNCHANGED vars
  <2>1. Pending' = Pending /\ Known' = Known
    BY <1>1 DEF vars, Pending, Known
  <2> QED BY <1>1, <2>1 DEF vars, IInv, TypeOK, PcInv, OnceInv, PillInv, CloseInv
<1>2. CASE Next
  BY <1>2, AddTaskStep, MainShutdownStep, IdleStep, NextTaskStep, ExecuteStep
     DEF Next, ThreadMain
<1> QED BY <1>1, <1>2

LEMMA SafeSpec == Spec => Init /\ [][Next]_vars
  BY PTL DEF Spec

\* The variables keep their types, and the thread, the tasks and the two
\* tasks of the shutdown stay in step, in every reachable state.
THEOREM Invariance == Spec => []IInv
  BY InitIInv, NextIInv, SafeSpec, PTL

\* The state of the dispatcher is well formed whatever the other threads do.
THEOREM TypeCorrect == Spec => []TypeOK
  BY Invariance, PTL DEF IInv
-----------------------------------------------------------------------------
\* addTask notifies after it has unlocked, and only when the list was empty;
\* still, a sleeping thread with work to do always has a notify coming.
THEOREM WakeupsArrive == Spec => []NoLostWakeup
<1>1. Init => NoLostWakeup
  BY DEF Init, NoLostWakeup
<1>2. ASSUME NoLostWakeup, [Next]_vars PROVE NoLostWakeup'
  <2>1. ASSUME NEW p \in Threads \cup {Self}, NEW t \in Tasks, AddTask(p, t)
        PROVE  NoLostWakeup'
    BY <1>2, <2>1 DEF AddTask, Enqueue, Accepts, SignalsIf, NoLostWakeup
  <2>2. ASSUME NEW p \in Threads \cup {Self}, NotifyOne(p) PROVE NoLostWakeup'
    BY <1>2, <2>2 DEF NotifyOne, Wake, NoLostWakeup
  <2>3. CASE MainShutdown
    BY <2>3 DEF MainShutdown, Wake, NoLostWakeup
  <2>4. CASE SpuriousWakeup
    BY <2>4 DEF SpuriousWakeup, NoLostWakeup
  <2>5. CASE TestState \/ Wait \/ TakeBatch \/ NextTask \/ BatchDone
    BY <1>2, <2>5 DEF TestState, Wait, TakeBatch, NextTask, BatchDone, NoLostWakeup, queues
  <2>6. CASE Execute
    BY <2>6 DEF Execute, RunTask, CloseGame, Stop, RunShutdown, ShutdownReturns,
                RunTerminate, TaskReturns, NoLostWakeup
  <2>7. CASE UNCHANGED vars
    BY <1>2, <2>7 DEF vars, NoLostWakeup
  <2> QED BY <1>2, <2>1, <2>2, <2>3, <2>4, <2>5, <2>6, <2>7 DEF Next, ThreadMain
<1> QED BY <1>1, <1>2, SafeSpec, PTL

\* The thread ends with nothing left to do: threadMain leaves its loop only
\* after TerminateTask, and no task follows that one.
THEOREM NothingLeft == Spec => []NothingStranded
<1>1. IInv => NothingStranded
  <2> SUFFICES ASSUME IInv, online, pc = "end"
               PROVE  taskList = <<>> /\ tmpTaskList = <<>> /\ current = None
    BY DEF NothingStranded
  <2>1. Pending = <<>> /\ current = None
    BY DEF IInv, PcInv, CloseInv
  <2> QED BY <2>1, ConcatEqualIffEmpty DEF IInv, TypeOK, Pending
<1> QED BY <1>1, Invariance, PTL

-----------------------------------------------------------------------------
(* The dispatcher implements SerialExecutor.                               *)

LEMMA ExecutorKnown == Executor!Known = Known
  BY DEF Executor!Known, Known, Elems, Pending

LEMMA ExecutorStep ==
  ASSUME IInv, [Next]_vars
  PROVE  [Executor!Next]_(Executor!vars)
<1> USE DEF IInv
<1>0. /\ ShutdownTask \in AllTasks /\ TerminateTask \in AllTasks
      /\ Tasks \subseteq AllTasks /\ None \notin AllTasks
  BY TaskAssumption DEF AllTasks
<1>1. ASSUME NEW t \in AllTasks, t \notin Known,
             taskList' = Append(taskList, t),
             UNCHANGED <<tmpTaskList, current, ended>>
      PROVE  Executor!Next
  <2>1. Pending' = Append(Pending, t)
    BY <1>1, PendingAppend
  <2>2. Executor!Submit(t)
    BY <1>1, <2>1, ExecutorKnown DEF Executor!Submit, Pending
  <2> QED BY <2>2 DEF Executor!Next
<1>2. ASSUME Pending' = Pending, UNCHANGED <<current, ended>>
      PROVE  UNCHANGED Executor!vars
  BY <1>2 DEF Executor!vars, Pending
<1>3. ASSUME TaskReturns, UNCHANGED queues, pc \in {"run", "posted", "pushed"}
      PROVE  Executor!Next
  <2>1. Executor!Finish
    BY <1>3 DEF Executor!Finish, TaskReturns, queues, PcInv
  <2> QED BY <2>1 DEF Executor!Next
<1>4. ASSUME NEW p \in Threads \cup {Self}, NEW t \in Tasks, AddTask(p, t)
      PROVE  Executor!Next \/ UNCHANGED Executor!vars
  <2>1. CASE threadState = "RUNNING"
    BY <1>0, <1>1, <1>4, <2>1 DEF AddTask, Enqueue, Accepts, OnceInv
  <2>2. CASE threadState # "RUNNING"
    BY <1>2, <1>4, <2>2 DEF AddTask, Enqueue, Accepts, Pending
  <2> QED BY <2>1, <2>2
<1>5. CASE MainShutdown
  BY <1>0, <1>1, <1>5 DEF MainShutdown, PillInv
<1>6. ASSUME NEW p \in Threads \cup {Self}, NotifyOne(p) PROVE UNCHANGED Executor!vars
  BY <1>2, <1>6 DEF NotifyOne, Pending, queues
<1>7. CASE TestState \/ Wait \/ SpuriousWakeup \/ BatchDone
  BY <1>2, <1>7 DEF TestState, Wait, SpuriousWakeup, BatchDone, Pending, queues
<1>8. CASE TakeBatch
  BY <1>2, <1>8, PendingSwap DEF TakeBatch, Swap, PcInv
<1>9. CASE NextTask
  <2>1. /\ Pending # <<>> /\ Head(Pending) = Head(tmpTaskList)
        /\ Pending' = Tail(Pending) /\ current = None
    BY <1>9, PendingTail DEF NextTask, PcInv
  <2>2. CASE current' = Head(tmpTaskList) /\ ended' = ended
    <3>1. Executor!Start
      BY <2>1, <2>2 DEF Executor!Start, Pending
    <3> QED BY <3>1 DEF Executor!Next
  <2>3. CASE /\ Head(tmpTaskList) \in TimedTasks /\ current' = current
             /\ ended' = ended \cup {Head(tmpTaskList)}
    <3>1. Executor!Discard
      BY <2>1, <2>3 DEF Executor!Discard, Pending
    <3> QED BY <3>1 DEF Executor!Next
  <2> QED BY <1>9, <2>2, <2>3 DEF NextTask
<1>10. CASE RunTask \/ Stop \/ ShutdownReturns \/ RunTerminate
  BY <1>3, <1>10 DEF RunTask, Stop, ShutdownReturns, RunTerminate
<1>11. CASE CloseGame
  <2>1. threadState = "RUNNING" /\ ShutdownTask \notin Known
    BY <1>11 DEF CloseGame, PillInv
  <2> QED BY <1>0, <1>1, <1>11, <2>1 DEF CloseGame, Enqueue, Accepts
<1>12. CASE RunShutdown
  <2>1. TerminateTask \notin Known
    BY <1>12 DEF RunShutdown, PillInv
  <2> QED BY <1>0, <1>1, <1>12, <2>1 DEF RunShutdown
<1>13. CASE UNCHANGED vars
  BY <1>2, <1>13 DEF vars, Pending
<1> QED BY <1>4, <1>5, <1>6, <1>7, <1>8, <1>9, <1>10, <1>11, <1>12, <1>13
       DEF Next, ThreadMain, Execute

\* Batches, the second list, the lock and the pills cannot be told from one
\* queue whose tasks are run one by one in the order they were accepted.
THEOREM ImplementsSerialExecutor == Spec => IsSerialExecutor
<1>1. Init => Executor!Init
  <2> SUFFICES ASSUME Init PROVE Executor!Init
    OBVIOUS
  <2>1. tmpTaskList \o taskList = <<>>
    BY ConcatEmptySeq, EmptySeq DEF Init
  <2> QED BY <2>1 DEF Init, Executor!Init
<1>2. IInv /\ [Next]_vars => [Executor!Next]_(Executor!vars)
  BY ExecutorStep
<1> QED BY <1>1, <1>2, Invariance, SafeSpec, PTL DEF IsSerialExecutor
=============================================================================
