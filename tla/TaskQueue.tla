------------------------------ MODULE TaskQueue ------------------------------
(***************************************************************************)
(* What a thread pool promises to whoever submits tasks to it: a task is   *)
(* started at most once and in the order of submission, and it is over     *)
(* when it has run or when the pool drops what it has not started.         *)
(***************************************************************************)
EXTENDS Sequences

CONSTANT Tasks

VARIABLES queue, running, over

Init == queue = <<>> /\ running = {} /\ over = {}

Queued == {queue[n] : n \in DOMAIN queue}

Submit(t) ==
  /\ t \notin Queued \cup running \cup over
  /\ queue' = Append(queue, t)
  /\ UNCHANGED <<running, over>>

Start ==
  /\ queue # <<>>
  /\ queue' = Tail(queue)
  /\ running' = running \cup {Head(queue)}
  /\ UNCHANGED over

Finish(t) ==
  /\ t \in running
  /\ running' = running \ {t}
  /\ over' = over \cup {t}
  /\ UNCHANGED queue

Drop ==
  /\ queue' = <<>>
  /\ over' = over \cup Queued
  /\ UNCHANGED running

Next == Start \/ Drop \/ \E t \in Tasks : Submit(t) \/ Finish(t)

Spec == Init /\ [][Next]_<<queue, running, over>>
=============================================================================
