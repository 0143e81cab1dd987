---------------------------- MODULE ThreadExecutor ----------------------------
(***************************************************************************)
(* The Scalar plugin's thread pool: workers that sleep on a condition      *)
(* variable, a thread that submits tasks or clears the queue, and the      *)
(* destructor.  Every critical section of queueMutex_ is short and takes   *)
(* no other lock, so each is one action; what happens after the unlock     *)
(* (notify_one, notify_all, the task itself, join) is another.             *)
(***************************************************************************)
EXTENDS Integers, Sequences, FiniteSets

CONSTANTS
  Workers,     \* workers_
  Tasks,       \* the tasks submitted
  Endless,     \* those that never return, as parseWatcher
  NoTask

ASSUME ThreadExecutorConstantsOK ==
  /\ Endless \subseteq Tasks
  /\ NoTask \notin Tasks
  /\ IsFiniteSet(Workers)

VARIABLES
  tasks,       \* tasks_
  stop,        \* stop_
  pc,          \* each worker: "check" (it has or wants the lock), "waiting", "run", "exit"
  task,        \* each worker's local task
  futures,     \* task -> "none", "pending", "ready" or "broken"
  submitting,  \* whether Submit has still to notify
  destructor   \* "no", "notify", "join", "done"

vars == <<tasks, stop, pc, task, futures, submitting, destructor>>

Init ==
  /\ tasks = <<>>
  /\ stop = FALSE
  /\ pc = [w \in Workers |-> "check"]
  /\ task = [w \in Workers |-> NoTask]
  /\ futures = [t \in Tasks |-> "none"]
  /\ submitting = FALSE
  /\ destructor = "no"

-----------------------------------------------------------------------------
(* The workers.                                                             *)

(* The predicate of condition_.wait is false.                               *)
Wait(w) ==
  /\ pc[w] = "check"
  /\ ~stop /\ tasks = <<>>
  /\ pc' = [pc EXCEPT ![w] = "waiting"]
  /\ UNCHANGED <<tasks, stop, task, futures, submitting, destructor>>

(* A stopped pool starts nothing more, whatever is queued.                  *)
Return(w) ==
  /\ pc[w] = "check"
  /\ stop
  /\ pc' = [pc EXCEPT ![w] = "exit"]
  /\ UNCHANGED <<tasks, stop, task, futures, submitting, destructor>>

NotPopped(queue) == queue   \* mutant: front() without pop()

PopFront(queue) == Tail(queue)

Take(w) ==
  /\ pc[w] = "check"
  /\ ~stop /\ tasks # <<>>
  /\ task' = [task EXCEPT ![w] = Head(tasks)]
  /\ tasks' = PopFront(tasks)
  /\ pc' = [pc EXCEPT ![w] = "run"]
  /\ UNCHANGED <<stop, futures, submitting, destructor>>

StillHeld(w) == task   \* mutant: the function object outlives its iteration

LetGo(w) == [task EXCEPT ![w] = NoTask]

(* task(), then the loop starts over.                                       *)
Run(w) ==
  /\ pc[w] = "run"
  /\ task[w] \notin Endless
  /\ futures' = [futures EXCEPT ![task[w]] = "ready"]
  /\ task' = LetGo(w)
  /\ pc' = [pc EXCEPT ![w] = "check"]
  /\ UNCHANGED <<tasks, stop, submitting, destructor>>

(* The standard lets a condition variable wake up for no reason.            *)
SpuriousWakeup(w) ==
  /\ pc[w] = "waiting"
  /\ pc' = [pc EXCEPT ![w] = "check"]
  /\ UNCHANGED <<tasks, stop, task, futures, submitting, destructor>>

-----------------------------------------------------------------------------
(* The thread that uses the pool.                                           *)

Submit(t) ==
  /\ ~submitting
  /\ ~stop                       \* otherwise it throws
  /\ futures[t] = "none"
  /\ tasks' = Append(tasks, t)
  /\ futures' = [futures EXCEPT ![t] = "pending"]
  /\ submitting' = TRUE
  /\ UNCHANGED <<stop, pc, task, destructor>>

Waiting == {w \in Workers : pc[w] = "waiting"}

WakeNone == UNCHANGED pc   \* mutant: nobody is notified

WakeOne ==
  \/ Waiting = {} /\ UNCHANGED pc
  \/ \E w \in Waiting : pc' = [pc EXCEPT ![w] = "check"]

NotifyOne ==
  /\ submitting
  /\ submitting' = FALSE
  /\ WakeOne
  /\ UNCHANGED <<tasks, stop, task, futures, destructor>>

Queued == {tasks[n] : n \in DOMAIN tasks}

(* A task that is dropped takes its promise with it.                        *)
Break(dropped) == [t \in Tasks |-> IF t \in dropped THEN "broken" ELSE futures[t]]

Clear ==
  /\ ~submitting
  /\ destructor = "no"
  /\ tasks # <<>>
  /\ tasks' = <<>>
  /\ futures' = Break(Queued)
  /\ UNCHANGED <<stop, pc, task, submitting, destructor>>

-----------------------------------------------------------------------------
(* ~ThreadExecutor.                                                         *)

Stop ==
  /\ destructor = "no"
  /\ ~submitting
  /\ stop' = TRUE
  /\ destructor' = "notify"
  /\ UNCHANGED <<tasks, pc, task, futures, submitting>>

WakeAll == pc' = [w \in Workers |-> IF pc[w] = "waiting" THEN "check" ELSE pc[w]]

NotifyAll ==
  /\ destructor = "notify"
  /\ destructor' = "join"
  /\ WakeAll
  /\ UNCHANGED <<tasks, stop, task, futures, submitting>>

(* Every worker has been joined; the members go, the queue among them.      *)
Joined == \A w \in Workers : pc[w] = "exit"

Destroyed ==
  /\ destructor = "join"
  /\ Joined
  /\ destructor' = "done"
  /\ tasks' = <<>>
  /\ futures' = Break(Queued)
  /\ UNCHANGED <<stop, pc, task, submitting>>

-----------------------------------------------------------------------------

WorkerStep(w) == Wait(w) \/ Return(w) \/ Take(w) \/ Run(w)

UserStep == NotifyOne \/ NotifyAll \/ Destroyed

Next ==
  \/ \E w \in Workers : WorkerStep(w) \/ SpuriousWakeup(w)
  \/ \E t \in Tasks : Submit(t)
  \/ Clear \/ Stop
  \/ UserStep

Spec == Init /\ [][Next]_vars

(* Threads run; nobody has to submit, clear or destroy, and no wakeup comes *)
(* without a notification that anything may rely on.                        *)
FairSpec ==
  /\ Spec
  /\ \A w \in Workers : WF_vars(WorkerStep(w))
  /\ WF_vars(UserStep)

-----------------------------------------------------------------------------
(* Properties.                                                              *)

(* Types; and a worker holds a task exactly while it runs it.               *)
TypeOK ==
  /\ tasks \in Seq(Tasks)
  /\ stop \in BOOLEAN
  /\ pc \in [Workers -> {"check", "waiting", "run", "exit"}]
  /\ task \in [Workers -> Tasks \cup {NoTask}]
  /\ \A w \in Workers : pc[w] = "run" <=> task[w] # NoTask
  /\ futures \in [Tasks -> {"none", "pending", "ready", "broken"}]
  /\ submitting \in BOOLEAN
  /\ destructor \in {"no", "notify", "join", "done"}

(* No wakeup is lost: while the pool runs and a worker sleeps, there are at *)
(* least as many workers about to look at the queue, or to be notified, as  *)
(* there are tasks in it.                                                   *)
Checking == {w \in Workers : pc[w] = "check"}

NoLostWakeup ==
  ~stop /\ Waiting # {} =>
    Len(tasks) <= Cardinality(Checking) + (IF submitting THEN 1 ELSE 0)

(* The pool is a TaskQueue: a task is started once, in the order of         *)
(* submission, and its future is ready or broken when it is over.           *)
Queue == INSTANCE TaskQueue WITH
  queue   <- tasks,
  running <- {task[w] : w \in Workers} \ {NoTask},
  over    <- {t \in Tasks : futures[t] \in {"ready", "broken"}}

QueueSpec == Queue!Spec

(* As long as fewer endless tasks are submitted than there are workers,     *)
(* every task that is queued is taken in the end, or dropped, or the pool   *)
(* is stopped.                                                              *)
TasksTaken == \A t \in Tasks : t \in Queued ~> t \notin Queued \/ stop

(* ~ThreadExecutor returns unless a worker runs an endless task; then no   *)
(* worker is left in its loop and whoever waits for a future has an answer. *)
DestructorReturns ==
  stop ~> \/ /\ destructor = "done" /\ \A w \in Workers : pc[w] = "exit"
             /\ \A t \in Tasks : futures[t] # "pending"
          \/ \E w \in Workers : task[w] \in Endless

=============================================================================
