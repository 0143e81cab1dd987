------------------------ MODULE ThreadExecutor_proofs -------------------------
(***************************************************************************)
(* Proofs about ThreadExecutor for any number of workers and tasks: its    *)
(* type, that it implements TaskQueue, and that it loses no wakeup.        *)
(***************************************************************************)
EXTENDS ThreadExecutor, FiniteSetTheorems, TLAPS

(* What the queue and the workers hold is pending, and held once.          *)
HeldOnce ==
  /\ \A m, n \in DOMAIN tasks : tasks[m] = tasks[n] => m = n
  /\ \A v, w \in Workers : task[v] = task[w] /\ task[v] # NoTask => v = w
  /\ \A n \in DOMAIN tasks, w \in Workers : task[w] # tasks[n]

HeldPending ==
  /\ \A n \in DOMAIN tasks : futures[tasks[n]] = "pending"
  /\ \A w \in Workers : task[w] # NoTask => futures[task[w]] = "pending"

PoolInv == TypeOK /\ HeldOnce /\ HeldPending

-----------------------------------------------------------------------------
(* Sequences.                                                              *)

LEMMA AppendFacts ==
  ASSUME NEW S, NEW s \in Seq(S), NEW e \in S
  PROVE  /\ Append(s, e) \in Seq(S)
         /\ Len(Append(s, e)) = Len(s) + 1
         /\ DOMAIN Append(s, e) = DOMAIN s \cup {Len(s) + 1}
         /\ Len(s) + 1 \notin DOMAIN s
         /\ \A n \in DOMAIN s : Append(s, e)[n] = s[n]
         /\ Append(s, e)[Len(s) + 1] = e
  OBVIOUS

LEMMA TailFacts ==
  ASSUME NEW S, NEW s \in Seq(S), s # <<>>
  PROVE  /\ Tail(s) \in Seq(S)
         /\ Len(Tail(s)) = Len(s) - 1
         /\ Len(s) \in Nat
         /\ 1 \in DOMAIN s
         /\ Head(s) = s[1]
         /\ s[1] \in S
         /\ \A n \in DOMAIN Tail(s) : n # 0 /\ n + 1 \in DOMAIN s /\ n + 1 # 1 /\ Tail(s)[n] = s[n + 1]
         /\ \A n \in DOMAIN s : n = 1 \/ (n - 1 \in DOMAIN Tail(s) /\ Tail(s)[n - 1] = s[n])
  OBVIOUS

LEMMA EmptyFacts == ASSUME NEW S PROVE <<>> \in Seq(S) /\ Len(<<>>) = 0 /\ DOMAIN <<>> = {}
  OBVIOUS

-----------------------------------------------------------------------------
(* The invariant.                                                          *)

LEMMA InitPool == ASSUME ThreadExecutorConstantsOK, Init PROVE PoolInv
  BY EmptyFacts DEF ThreadExecutorConstantsOK, Init, PoolInv, TypeOK, HeldOnce, HeldPending

(* Steps that move no task.                                                *)
LEMMA MovesNoTask ==
  ASSUME PoolInv, UNCHANGED <<tasks, task, futures>>
  PROVE  HeldOnce' /\ HeldPending'
  BY DEF PoolInv, HeldOnce, HeldPending

LEMMA TakeKeepsPool ==
  ASSUME ThreadExecutorConstantsOK, PoolInv, NEW w \in Workers, Take(w)
  PROVE  PoolInv'
<1> USE DEF PoolInv
<1>1. /\ tasks \in Seq(Tasks) /\ tasks # <<>> /\ Head(tasks) = tasks[1] /\ tasks[1] \in Tasks
      /\ 1 \in DOMAIN tasks /\ tasks' = Tail(tasks) /\ tasks' \in Seq(Tasks)
      /\ \A n \in DOMAIN tasks' : n + 1 \in DOMAIN tasks /\ n + 1 # 1 /\ tasks'[n] = tasks[n + 1]
  <2>1. tasks \in Seq(Tasks) /\ tasks # <<>> /\ tasks' = Tail(tasks)
    BY DEF Take, TypeOK, PopFront
  <2> QED BY <2>1, TailFacts
<1>2. /\ task' = [task EXCEPT ![w] = tasks[1]] /\ task \in [Workers -> Tasks \cup {NoTask}]
      /\ pc' = [pc EXCEPT ![w] = "run"] /\ futures' = futures
  BY <1>1 DEF Take, TypeOK
<1>3. TypeOK'
  BY <1>1, <1>2 DEF Take, TypeOK, ThreadExecutorConstantsOK
<1>4. HeldOnce'
  <2>1. \A m, n \in DOMAIN tasks' : tasks'[m] = tasks'[n] => m = n
    <3> SUFFICES ASSUME NEW m \in DOMAIN tasks', NEW n \in DOMAIN tasks', tasks'[m] = tasks'[n]
                 PROVE  m = n
      OBVIOUS
    <3>1. m + 1 = n + 1
      BY <1>1 DEF HeldOnce
    <3>2. m \in Int /\ n \in Int
      BY <1>1
    <3> QED BY <3>1, <3>2
  <2>2. \A n \in DOMAIN tasks' : tasks'[n] # tasks[1]
    BY <1>1 DEF HeldOnce
  <2>3. \A n \in DOMAIN tasks' : \A v \in Workers : task[v] # tasks'[n]
    BY <1>1 DEF HeldOnce
  <2>4. \A v \in Workers : task[v] # tasks[1]
    BY <1>1 DEF HeldOnce
  <2> QED BY <1>2, <2>1, <2>2, <2>3, <2>4 DEF HeldOnce
<1>5. HeldPending'
  BY <1>1, <1>2 DEF HeldPending
<1> QED BY <1>3, <1>4, <1>5

LEMMA SubmitKeepsPool ==
  ASSUME ThreadExecutorConstantsOK, PoolInv, NEW t \in Tasks, Submit(t)
  PROVE  PoolInv'
<1> USE DEF PoolInv
<1>1. /\ tasks' \in Seq(Tasks)
      /\ DOMAIN tasks' = DOMAIN tasks \cup {Len(tasks) + 1} /\ Len(tasks) + 1 \notin DOMAIN tasks
      /\ \A n \in DOMAIN tasks : tasks'[n] = tasks[n]
      /\ tasks'[Len(tasks) + 1] = t
  BY AppendFacts DEF Submit, TypeOK
<1>2. /\ futures[t] = "none" /\ futures' = [futures EXCEPT ![t] = "pending"] /\ task' = task
      /\ futures \in [Tasks -> {"none", "pending", "ready", "broken"}]
  BY DEF Submit, TypeOK
<1>3. TypeOK'
  BY <1>1, <1>2 DEF Submit, TypeOK
<1>4. (\A n \in DOMAIN tasks : tasks[n] # t) /\ (\A w \in Workers : task[w] # t)
  <2>1. \A w \in Workers : task[w] = t => t # NoTask
    BY DEF ThreadExecutorConstantsOK
  <2> QED BY <1>2, <2>1 DEF HeldPending
<1>5. HeldOnce'
  BY <1>1, <1>2, <1>4 DEF HeldOnce
<1>6. HeldPending'
  <2>1. \A n \in DOMAIN tasks : tasks[n] \in Tasks
    BY DEF TypeOK
  <2>2. \A w \in Workers : task[w] # NoTask => task[w] \in Tasks
    BY DEF TypeOK
  <2> QED BY <1>1, <1>2, <2>1, <2>2 DEF HeldPending
<1> QED BY <1>3, <1>5, <1>6

LEMMA RunKeepsPool ==
  ASSUME ThreadExecutorConstantsOK, PoolInv, NEW w \in Workers, Run(w)
  PROVE  PoolInv'
<1> USE DEF PoolInv
<1>1. /\ task[w] # NoTask /\ task[w] \in Tasks
      /\ task' = [task EXCEPT ![w] = NoTask] /\ task \in [Workers -> Tasks \cup {NoTask}]
      /\ futures' = [futures EXCEPT ![task[w]] = "ready"] /\ tasks' = tasks
      /\ futures \in [Tasks -> {"none", "pending", "ready", "broken"}]
  BY DEF Run, LetGo, TypeOK
<1>2. TypeOK'
  BY <1>1 DEF Run, TypeOK
<1>3. HeldOnce'
  BY <1>1 DEF HeldOnce, TypeOK, ThreadExecutorConstantsOK
<1>4. HeldPending'
  <2>1. \A n \in DOMAIN tasks : tasks[n] # task[w]
    BY DEF HeldOnce
  <2>2. \A v \in Workers \ {w} : task[v] # NoTask => task[v] # task[w]
    BY <1>1 DEF HeldOnce
  <2>3. \A n \in DOMAIN tasks : tasks[n] \in Tasks
    BY DEF TypeOK
  <2> QED BY <1>1, <2>1, <2>2, <2>3 DEF HeldPending
<1> QED BY <1>2, <1>3, <1>4

LEMMA DropKeepsPool ==
  ASSUME ThreadExecutorConstantsOK, PoolInv, Clear \/ Destroyed
  PROVE  PoolInv'
<1> USE DEF PoolInv
<1>1. tasks' = <<>> /\ futures' = Break(Queued) /\ UNCHANGED <<stop, pc, task, submitting>>
  BY DEF Clear, Destroyed
<1>2. TypeOK'
  BY <1>1, EmptyFacts DEF Clear, Destroyed, Break, TypeOK
<1>3. HeldOnce'
  BY <1>1, EmptyFacts DEF HeldOnce
<1>4. HeldPending'
  <2>1. \A w \in Workers : task[w] # NoTask => task[w] \in Tasks /\ task[w] \notin Queued
    BY DEF HeldOnce, Queued, TypeOK
  <2> QED BY <1>1, <2>1, EmptyFacts DEF HeldPending, Break
<1> QED BY <1>2, <1>3, <1>4

LEMMA NextPool == ASSUME ThreadExecutorConstantsOK, PoolInv, [Next]_vars PROVE PoolInv'
<1>1. CASE \E w \in Workers : Take(w)
  BY <1>1, TakeKeepsPool
<1>2. CASE \E w \in Workers : Run(w)
  BY <1>2, RunKeepsPool
<1>3. CASE \E t \in Tasks : Submit(t)
  BY <1>3, SubmitKeepsPool
<1>4. CASE Clear \/ Destroyed
  BY <1>4, DropKeepsPool
<1>5. CASE \E w \in Workers : Wait(w) \/ Return(w) \/ SpuriousWakeup(w)
  <2>1. UNCHANGED <<tasks, task, futures>>
    BY <1>5 DEF Wait, Return, SpuriousWakeup
  <2>2. TypeOK'
    <3>1. PICK w \in Workers : Wait(w) \/ Return(w) \/ SpuriousWakeup(w)
      BY <1>5
    <3> QED BY <3>1 DEF Wait, Return, SpuriousWakeup, PoolInv, TypeOK
  <2> QED BY <2>1, <2>2, MovesNoTask DEF PoolInv
<1>6. CASE NotifyOne
  <2>1. UNCHANGED <<tasks, task, futures>>
    BY <1>6 DEF NotifyOne
  <2>2. TypeOK'
    BY <1>6 DEF NotifyOne, WakeOne, Waiting, PoolInv, TypeOK
  <2> QED BY <2>1, <2>2, MovesNoTask DEF PoolInv
<1>7. CASE Stop \/ NotifyAll
  <2>1. UNCHANGED <<tasks, task, futures>>
    BY <1>7 DEF Stop, NotifyAll
  <2>2. TypeOK'
    BY <1>7 DEF Stop, NotifyAll, WakeAll, PoolInv, TypeOK
  <2> QED BY <2>1, <2>2, MovesNoTask DEF PoolInv
<1>8. CASE UNCHANGED vars
  BY <1>8, MovesNoTask DEF vars, PoolInv, TypeOK
<1> QED
  BY <1>1, <1>2, <1>3, <1>4, <1>5, <1>6, <1>7, <1>8 DEF Next, WorkerStep, UserStep

(* The pool's variables keep their types, and a worker holds a task exactly *)
(* while it runs it (ThreadPoolUtil.h, the worker's loop).                  *)
THEOREM PoolTypeCorrect == ASSUME ThreadExecutorConstantsOK PROVE Spec => []TypeOK
<1>1. PoolInv => TypeOK
  BY DEF PoolInv
<1> QED BY InitPool, NextPool, <1>1, PTL DEF Spec

-----------------------------------------------------------------------------
(* The refinement.                                                         *)

LEMMA InitQueue == ASSUME ThreadExecutorConstantsOK, Init PROVE Queue!Init
<1>1. {task[w] : w \in Workers} \ {NoTask} = {}
  BY DEF Init
<1>2. {t \in Tasks : futures[t] \in {"ready", "broken"}} = {}
  BY DEF Init
<1> QED BY <1>1, <1>2 DEF Init, Queue!Init

LEMMA NextQueue ==
  ASSUME ThreadExecutorConstantsOK, PoolInv, [Next]_vars
  PROVE  [Queue!Next]_<<tasks, {task[w] : w \in Workers} \ {NoTask},
                        {t \in Tasks : futures[t] \in {"ready", "broken"}}>>
<1> DEFINE running == {task[w] : w \in Workers} \ {NoTask}
           over    == {t \in Tasks : futures[t] \in {"ready", "broken"}}
<1> USE DEF PoolInv
<1>1. ASSUME NEW w \in Workers, Take(w) PROVE Queue!Start
  <2>1. /\ task' = [task EXCEPT ![w] = Head(tasks)] /\ task \in [Workers -> Tasks \cup {NoTask}]
        /\ task[w] = NoTask /\ UNCHANGED futures
    BY <1>1 DEF Take, TypeOK
  <2>2. Head(tasks) # NoTask
    BY <1>1, TailFacts DEF Take, TypeOK, ThreadExecutorConstantsOK
  <2>3. running' = running \cup {Head(tasks)}
    <3>1. \A v \in Workers \ {w} : task'[v] = task[v]
      BY <2>1
    <3>2. task'[w] = Head(tasks)
      BY <2>1
    <3> QED BY <2>1, <2>2, <3>1, <3>2
  <2> QED BY <1>1, <2>1, <2>3 DEF Take, PopFront, Queue!Start
<1>2. ASSUME NEW w \in Workers, Run(w) PROVE \E t \in Tasks : Queue!Finish(t)
  <2>1. /\ task' = [task EXCEPT ![w] = NoTask] /\ task \in [Workers -> Tasks \cup {NoTask}]
        /\ task[w] # NoTask /\ task[w] \in Tasks
        /\ futures' = [futures EXCEPT ![task[w]] = "ready"] /\ UNCHANGED tasks
        /\ futures \in [Tasks -> {"none", "pending", "ready", "broken"}]
    BY <1>2 DEF Run, LetGo, TypeOK
  <2>2. task[w] \in running
    BY <2>1
  <2>3. running' = running \ {task[w]}
    <3>1. \A v \in Workers \ {w} : task'[v] = task[v] /\ task[v] # task[w]
      BY <2>1 DEF HeldOnce
    <3>2. task'[w] = NoTask
      BY <2>1
    <3> QED BY <2>1, <3>1, <3>2
  <2>4. over' = over \cup {task[w]}
    BY <2>1
  <2> QED BY <2>1, <2>2, <2>3, <2>4 DEF Queue!Finish
<1>3. ASSUME NEW t \in Tasks, Submit(t) PROVE Queue!Submit(t)
  <2>1. /\ futures[t] = "none" /\ futures' = [futures EXCEPT ![t] = "pending"]
        /\ UNCHANGED task /\ tasks' = Append(tasks, t)
        /\ futures \in [Tasks -> {"none", "pending", "ready", "broken"}]
    BY <1>3 DEF Submit, TypeOK
  <2>2. t \notin {tasks[n] : n \in DOMAIN tasks}
    BY <2>1 DEF HeldPending
  <2>3. t \notin running
    BY <2>1 DEF HeldPending
  <2>4. t \notin over
    BY <2>1
  <2>5. over' = over
    BY <2>1
  <2> QED BY <2>1, <2>2, <2>3, <2>4, <2>5 DEF Queue!Submit, Queue!Queued
<1>4. ASSUME Clear \/ Destroyed PROVE Queue!Drop
  <2>1. tasks' = <<>> /\ futures' = Break(Queued) /\ UNCHANGED task
    BY <1>4 DEF Clear, Destroyed
  <2>2. Queued \subseteq Tasks
    BY DEF Queued, TypeOK
  <2>3. over' = over \cup Queued
    BY <2>1, <2>2 DEF Break
  <2> QED BY <2>1, <2>3 DEF Queue!Drop, Queue!Queued, Queued
<1>5. ASSUME UNCHANGED <<tasks, task, futures>> PROVE UNCHANGED <<tasks, running, over>>
  BY <1>5
<1>6. CASE \/ \E w \in Workers : Wait(w) \/ Return(w) \/ SpuriousWakeup(w)
           \/ NotifyOne \/ NotifyAll \/ Stop \/ UNCHANGED vars
  <2>1. UNCHANGED <<tasks, task, futures>>
    BY <1>6 DEF Wait, Return, SpuriousWakeup, NotifyOne, NotifyAll, Stop, vars
  <2> QED BY <2>1, <1>5
<1>7. CASE \E w \in Workers : Take(w) \/ Run(w)
  <2>1. PICK w \in Workers : Take(w) \/ Run(w)
    BY <1>7
  <2>2. CASE Take(w)
    BY <2>2, <1>1 DEF Queue!Next
  <2>3. CASE Run(w)
    BY <2>3, <1>2 DEF Queue!Next
  <2> QED BY <2>1, <2>2, <2>3
<1>8. CASE Clear \/ Destroyed \/ \E t \in Tasks : Submit(t)
  BY <1>8, <1>3, <1>4 DEF Queue!Next
<1> QED
  BY <1>6, <1>7, <1>8 DEF Next, WorkerStep, UserStep

(* The pool implements the queue it promises: a task is started at most     *)
(* once and in the order of submission, and is over when it has run or has  *)
(* been dropped (ThreadExecutor as a whole).                                *)
THEOREM PoolIsTaskQueue == ASSUME ThreadExecutorConstantsOK PROVE Spec => QueueSpec
<1>1. PoolInv /\ [Next]_vars
        => [Queue!Next]_<<tasks, {task[w] : w \in Workers} \ {NoTask},
                          {t \in Tasks : futures[t] \in {"ready", "broken"}}>>
  BY NextQueue
<1> QED BY InitPool, NextPool, InitQueue, <1>1, PTL DEF Spec, QueueSpec, Queue!Spec

-----------------------------------------------------------------------------
(* Wakeups.                                                                *)

LEMMA CheckingFacts ==
  ASSUME ThreadExecutorConstantsOK, NEW w \in Workers
  PROVE  /\ IsFiniteSet(Checking) /\ Cardinality(Checking) \in Nat
         /\ w \notin Checking => Cardinality(Checking \cup {w}) = Cardinality(Checking) + 1
         /\ w \in Checking => Cardinality(Checking \ {w}) = Cardinality(Checking) - 1
<1>1. IsFiniteSet(Checking)
  BY FS_Subset DEF ThreadExecutorConstantsOK, Checking
<1> QED BY <1>1, FS_CardinalityType, FS_AddElement, FS_RemoveElement

LEMMA NextWakeup ==
  ASSUME ThreadExecutorConstantsOK, TypeOK, NoLostWakeup, [Next]_vars
  PROVE  NoLostWakeup'
<1> SUFFICES ASSUME ~stop', NEW sleeper \in Workers, pc'[sleeper] = "waiting"
             PROVE  Len(tasks') <= Cardinality(Checking') + (IF submitting' THEN 1 ELSE 0)
  BY DEF NoLostWakeup, Waiting
<1>0. /\ Len(tasks) \in Nat /\ pc \in [Workers -> {"check", "waiting", "run", "exit"}]
      /\ submitting \in BOOLEAN /\ tasks \in Seq(Tasks)
      /\ Cardinality(Checking) \in Nat
  <2>1. Cardinality(Checking) \in Nat
    BY CheckingFacts
  <2> QED BY <2>1 DEF TypeOK
<1>a. Cardinality(Checking') \in Nat
  <2>1. IsFiniteSet(Checking')
    BY FS_Subset DEF ThreadExecutorConstantsOK, Checking
  <2> QED BY <2>1, FS_CardinalityType
<1>b. ASSUME pc[sleeper] = "waiting", ~stop
      PROVE  Len(tasks) <= Cardinality(Checking) + (IF submitting THEN 1 ELSE 0)
  BY <1>b DEF NoLostWakeup, Waiting
<1>c. ASSUME NEW w \in Workers, w # sleeper, pc' = [pc EXCEPT ![w] = "check"]
      PROVE  pc[sleeper] = "waiting" /\ Checking' = Checking \cup {w}
  BY <1>0, <1>c DEF Checking
<1>1. ASSUME tasks' = <<>> PROVE Len(tasks') <= Cardinality(Checking') + (IF submitting' THEN 1 ELSE 0)
  BY <1>1, <1>a, EmptyFacts
<1>2. ASSUME UNCHANGED <<tasks, pc, submitting, stop>>
      PROVE  Len(tasks') <= Cardinality(Checking') + (IF submitting' THEN 1 ELSE 0)
  <2>1. Checking' = Checking
    BY <1>2 DEF Checking
  <2> QED BY <1>2, <1>b, <2>1
<1>3. CASE \E w \in Workers : Wait(w)
  BY <1>3, <1>1 DEF Wait
<1>4. CASE Clear \/ Destroyed
  BY <1>4, <1>1 DEF Clear, Destroyed
<1>5. CASE Stop \/ (\E w \in Workers : Return(w))
  BY <1>5 DEF Stop, Return
<1>6. CASE NotifyAll
  <2>1. pc'[sleeper] # "waiting"
    BY <1>6, <1>0 DEF NotifyAll, WakeAll
  <2> QED BY <2>1
<1>7. CASE UNCHANGED vars
  BY <1>7, <1>2 DEF vars
<1>8. ASSUME NEW w \in Workers, Take(w)
      PROVE  Len(tasks') <= Cardinality(Checking') + (IF submitting' THEN 1 ELSE 0)
  <2>1. /\ pc[w] = "check" /\ pc' = [pc EXCEPT ![w] = "run"] /\ ~stop
        /\ submitting' = submitting /\ tasks # <<>> /\ tasks' = Tail(tasks)
    BY <1>8 DEF Take, PopFront
  <2>2. pc[sleeper] = "waiting" /\ Checking' = Checking \ {w} /\ w \in Checking
    BY <2>1, <1>0 DEF Checking
  <2>3. Cardinality(Checking') = Cardinality(Checking) - 1
    BY <2>2, CheckingFacts
  <2>4. Len(tasks') = Len(tasks) - 1
    BY <2>1, <1>0, TailFacts
  <2>5. Len(tasks) <= Cardinality(Checking) + (IF submitting THEN 1 ELSE 0)
    BY <2>1, <2>2, <1>b
  <2> QED BY <2>1, <2>3, <2>4, <2>5, <1>0
<1>9. ASSUME NEW w \in Workers, Run(w) \/ SpuriousWakeup(w)
      PROVE  Len(tasks') <= Cardinality(Checking') + (IF submitting' THEN 1 ELSE 0)
  <2>1. /\ pc' = [pc EXCEPT ![w] = "check"] /\ pc[w] # "check" /\ UNCHANGED <<tasks, submitting, stop>>
    BY <1>9 DEF Run, SpuriousWakeup
  <2>2. w # sleeper
    BY <2>1, <1>0
  <2>3. pc[sleeper] = "waiting" /\ Checking' = Checking \cup {w} /\ w \notin Checking
    BY <2>1, <2>2, <1>c DEF Checking
  <2>4. Cardinality(Checking') = Cardinality(Checking) + 1
    BY <2>3, CheckingFacts
  <2>5. Len(tasks) <= Cardinality(Checking) + (IF submitting THEN 1 ELSE 0)
    BY <2>1, <2>3, <1>b
  <2> QED BY <2>1, <2>4, <2>5, <1>0
<1>10. ASSUME NEW t \in Tasks, Submit(t)
       PROVE  Len(tasks') <= Cardinality(Checking') + (IF submitting' THEN 1 ELSE 0)
  <2>1. /\ ~submitting /\ ~stop /\ tasks' = Append(tasks, t) /\ submitting' = TRUE /\ UNCHANGED pc
    BY <1>10 DEF Submit
  <2>2. Len(tasks') = Len(tasks) + 1
    BY <2>1, <1>0, AppendFacts
  <2>3. Checking' = Checking
    BY <2>1 DEF Checking
  <2>4. Len(tasks) <= Cardinality(Checking)
    BY <2>1, <1>b, <1>0
  <2> QED BY <2>1, <2>2, <2>3, <2>4, <1>0
<1>11. CASE NotifyOne
  <2>1. submitting /\ submitting' = FALSE /\ WakeOne /\ UNCHANGED <<tasks, stop>>
    BY <1>11 DEF NotifyOne
  <2>2. PICK w \in Workers : pc[w] = "waiting" /\ pc' = [pc EXCEPT ![w] = "check"]
    BY <2>1 DEF WakeOne, Waiting
  <2>3. w # sleeper
    BY <2>2, <1>0
  <2>4. pc[sleeper] = "waiting" /\ Checking' = Checking \cup {w} /\ w \notin Checking
    BY <2>2, <2>3, <1>c DEF Checking
  <2>5. Cardinality(Checking') = Cardinality(Checking) + 1
    BY <2>4, CheckingFacts
  <2>6. Len(tasks) <= Cardinality(Checking) + 1
    BY <2>1, <2>4, <1>b
  <2> QED BY <2>1, <2>5, <2>6, <1>0
<1> QED
  BY <1>3, <1>4, <1>5, <1>6, <1>7, <1>8, <1>9, <1>10, <1>11 DEF Next, WorkerStep, UserStep

LEMMA InitWakeup == ASSUME Init PROVE NoLostWakeup
  BY DEF Init, NoLostWakeup, Waiting

(* notify_one after every push is enough: however many tasks are submitted  *)
(* and workers sleep, no task waits in the queue with nobody on the way to  *)
(* look at it (Submit and the predicate of condition_.wait).                *)
THEOREM NoWakeupLost == ASSUME ThreadExecutorConstantsOK PROVE Spec => []NoLostWakeup
<1>1. TypeOK /\ TypeOK' /\ NoLostWakeup /\ [Next]_vars => NoLostWakeup'
  BY NextWakeup
<1>2. Init => NoLostWakeup
  BY InitWakeup
<1> QED BY PoolTypeCorrect, <1>1, <1>2, PTL DEF Spec
=============================================================================
