------------------------------ MODULE TaskPool ------------------------------
(***************************************************************************)
(* What ThreadPool promises to the code that uses it: tasks are handed to  *)
(* the workers in the order they were submitted, each of them once, to a   *)
(* worker that is doing nothing else; a pool may also drop everything it   *)
(* has not started.  ThreadPool implements this module, HttpServer uses    *)
(* its operations.                                                         *)
(***************************************************************************)
EXTENDS Sequences

CONSTANTS Workers,  \* the threads of the pool
          Tasks,    \* what can be submitted
          NoTask    \* what an idle worker runs

VARIABLES queue,    \* tasks submitted and not started, oldest first
          running   \* what each worker runs

poolVars == <<queue, running>>

PoolInit ==
  /\ queue = <<>>
  /\ running = [w \in Workers |-> NoTask]

Submit(t) ==
  /\ queue' = Append(queue, t)
  /\ UNCHANGED running

Start(w) ==
  /\ running[w] = NoTask
  /\ queue # <<>>
  /\ running' = [running EXCEPT ![w] = Head(queue)]
  /\ queue' = Tail(queue)

Finish(w) ==
  /\ running[w] # NoTask
  /\ running' = [running EXCEPT ![w] = NoTask]
  /\ UNCHANGED queue

Discard ==
  /\ queue' = <<>>
  /\ UNCHANGED running

PoolNext ==
  \/ \E t \in Tasks : Submit(t)
  \/ \E w \in Workers : Start(w) \/ Finish(w)
  \/ Discard

PoolSpec == PoolInit /\ [][PoolNext]_poolVars
=============================================================================
