----------------------------- MODULE ThreadPool -----------------------------
(***************************************************************************)
(* include/weblib/server/ThreadPool.hpp: the mutex, the condition          *)
(* variable, the deque and the stop flag, with every point at which a      *)
(* worker can be overtaken by another thread.  One critical section of the *)
(* code is one action, except where the destructor, which takes no lock,   *)
(* can act in the middle of it.                                            *)
(***************************************************************************)
EXTENDS Naturals, Sequences, SequencesExt, FiniteSets

CONSTANTS Workers,   \* the threads of m_workers
          Tasks,     \* the calls of enqueue and enqueue_detach, each made once
          Detached,  \* those made through enqueue_detach
          Void,      \* those made through enqueue, of a function returning void
          NoTask,
          Free       \* the owner of an unlocked mutex

\* hardware_concurrency() may be 0, so no worker is assumed to exist.
ASSUME PoolAssumption ==
  /\ IsFiniteSet(Workers)
  /\ Detached \subseteq Tasks
  /\ Void \subseteq Tasks \ Detached
  /\ NoTask \notin Tasks
  /\ Free \notin Workers

VARIABLES
  mutex,       \* m_mutex: the worker that holds it, or Free
  tasks,       \* m_tasks
  shouldWork,  \* m_should_work
  wpc,         \* where each worker is in its loop
  held,        \* the local variable `task` of each worker
  outcome,     \* what became of each task: for enqueue, the state of the future
  phase        \* the pool's lifetime: the steps of ~ThreadPool

vars == <<mutex, tasks, shouldWork, wpc, held, outcome, phase>>

\* wpc: "start" and "woken" want the mutex; "sleep", "ready" and "pop" hold it
\* (predicate false, predicate true, flag read again); "waiting" is blocked on
\* the condition variable; "run" is inside task(); "exited" has returned.
TypeOK ==
  /\ mutex \in Workers \cup {Free}
  /\ tasks \in Seq(Tasks)
  /\ shouldWork \in BOOLEAN
  /\ wpc \in [Workers -> {"start", "woken", "sleep", "ready", "pop",
                          "waiting", "run", "exited"}]
  /\ held \in [Workers -> Tasks \cup {NoTask}]
  /\ outcome \in [Tasks -> {"new", "pending", "value", "exception", "broken",
                            "done", "logged", "lost"}]
  /\ phase \in {"live", "stopping", "notified", "joining", "gone", "terminated"}

Init ==
  /\ mutex = Free
  /\ tasks = <<>>
  /\ shouldWork = TRUE
  /\ wpc = [w \in Workers |-> "start"]
  /\ held = [w \in Workers |-> NoTask]
  /\ outcome = [t \in Tasks |-> "new"]
  /\ phase = "live"

Waiting == {w \in Workers : wpc[w] = "waiting"}
MembersExist == phase \in {"live", "stopping", "notified"}
Move(w, here, there) ==
  phase # "terminated" /\ wpc[w] = here /\ wpc' = [wpc EXCEPT ![w] = there]

-----------------------------------------------------------------------------
(* The callers of the pool. *)

NotifyNobody == UNCHANGED wpc  \* mutant of NotifyOne

NotifyOne == IF Waiting = {} THEN UNCHANGED wpc
                             ELSE \E w \in Waiting : Move(w, "waiting", "woken")

\* enqueue, enqueue_detach: push_back and notify_one under the mutex.
EnqueueTask(t) ==
  /\ phase = "live" /\ mutex = Free
  /\ outcome[t] = "new"
  /\ tasks' = Append(tasks, t)
  /\ outcome' = [outcome EXCEPT ![t] = "pending"]
  /\ NotifyOne
  /\ UNCHANGED <<mutex, shouldWork, held, phase>>

FateForgotten(t) == "pending"  \* mutant of Fate

\* Destroying a queued task destroys the promise it owns.
Fate(t) == IF t \in Detached THEN "lost" ELSE "broken"

DropQueued ==
  /\ tasks' = <<>>
  /\ outcome' = [t \in Tasks |-> IF t \in ToSet(tasks) THEN Fate(t) ELSE outcome[t]]

Clear ==
  /\ phase = "live" /\ mutex = Free
  /\ DropQueued
  /\ UNCHANGED <<mutex, shouldWork, wpc, held, phase>>

-----------------------------------------------------------------------------
(* The loop of a worker.  Once the members are destroyed (phase "joining")  *)
(* all of it but task() is undefined.  The steps then go on as if they were *)
(* there, which is what the trivial destructors of the mutex and the flag   *)
(* leave behind, or UseDestroyed ends the process.                          *)

\* Mutant of Predicate: a woken worker trusts the notification.
PredicateOnce(w) == wpc[w] = "woken" \/ tasks # <<>> \/ ~shouldWork

Predicate(w) == tasks # <<>> \/ ~shouldWork

\* Locks (inside wait: locks again) and evaluates the predicate.
TestPredicate(w) ==
  /\ mutex = Free
  /\ mutex' = w
  /\ \E here \in {"start", "woken"} :
       Move(w, here, IF Predicate(w) THEN "ready" ELSE "sleep")
  /\ UNCHANGED <<tasks, shouldWork, held, outcome, phase>>

\* wait blocks and unlocks in one indivisible step.
Sleep(w) ==
  /\ Move(w, "sleep", "waiting")
  /\ mutex' = Free
  /\ UNCHANGED <<tasks, shouldWork, held, outcome, phase>>

SpuriousWake(w) ==
  /\ Move(w, "waiting", "woken")
  /\ UNCHANGED <<mutex, tasks, shouldWork, held, outcome, phase>>

\* Mutant of PassCheck: a stopped pool runs what is queued first.
PassWhileQueued(w) ==
  /\ shouldWork \/ tasks # <<>>
  /\ Move(w, "ready", "pop")
  /\ UNCHANGED <<mutex, tasks, shouldWork, held, outcome, phase>>

\* The second load of m_should_work: go on, or return and unlock.
PassCheck(w) ==
  /\ shouldWork
  /\ Move(w, "ready", "pop")
  /\ UNCHANGED <<mutex, tasks, shouldWork, held, outcome, phase>>

Leave(w) ==
  /\ ~shouldWork
  /\ Move(w, "ready", "exited")
  /\ mutex' = Free
  /\ UNCHANGED <<tasks, shouldWork, held, outcome, phase>>

Newest == Last(tasks)                         \* mutant of Oldest
Oldest == Head(tasks)
Emptied == [tasks EXCEPT ![1] = NoTask]       \* mutant of Popped: no pop_front
Popped == Tail(tasks)

Pop(w) ==
  /\ MembersExist
  /\ Move(w, "pop", "run")
  /\ held' = [held EXCEPT ![w] = Oldest]
  /\ tasks' = Popped
  /\ mutex' = Free
  /\ UNCHANGED <<shouldWork, outcome, phase>>

Crash ==
  /\ phase # "terminated" /\ phase' = "terminated"
  /\ UNCHANGED <<mutex, tasks, shouldWork, wpc, held, outcome>>

\* Between two tasks a worker locks m_mutex, reads m_should_work and m_tasks, or
\* takes from it.
UsesMembers(w) == wpc[w] \in {"start", "woken", "sleep", "ready", "pop"}

\* A worker that had still read the flag set takes from the destroyed deque, for
\* which no outcome but the end of the process is modelled.
UseDestroyed(w) == phase = "joining" /\ UsesMembers(w) /\ Crash

\* How the wrappers of enqueue and enqueue_detach settle a task.  The wrapper of
\* a void function never sets its promise: the future breaks with `task`.
Ended(t, how) ==
  IF t \in Detached THEN IF how = "returns" THEN "done" ELSE "logged"
  ELSE IF how # "returns" THEN "exception"
  ELSE IF t \in Void THEN "broken" ELSE "value"

RunTask(w, how) ==
  /\ ~(held[w] \in Detached /\ how = "throwsOther")
  /\ Move(w, "run", "start")
  /\ outcome' = [outcome EXCEPT ![held[w]] = Ended(held[w], how)]
  /\ held' = [held EXCEPT ![w] = NoTask]
  /\ UNCHANGED <<mutex, tasks, shouldWork, phase>>

\* enqueue_detach catches std::exception only; anything else leaves the thread.
EscapeTask(w) ==
  /\ wpc[w] = "run" /\ held[w] \in Detached
  /\ Crash

Worker(w) ==
  \/ TestPredicate(w) \/ Sleep(w) \/ PassCheck(w) \/ Leave(w)
  \/ Pop(w) \/ UseDestroyed(w) \/ EscapeTask(w)
  \/ \E how \in {"returns", "throwsStd", "throwsOther"} : RunTask(w, how)

-----------------------------------------------------------------------------
(* ~ThreadPool: its body, then the members in reverse order of declaration. *)

StoreFlag ==
  /\ phase = "live" /\ phase' = "stopping"
  /\ shouldWork' = FALSE
  /\ UNCHANGED <<mutex, tasks, wpc, held, outcome>>

AwakenNone == wpc  \* mutant of Awakened
Awakened == [w \in Workers |-> IF w \in Waiting THEN "woken" ELSE wpc[w]]

NotifyAll ==
  /\ phase = "stopping" /\ phase' = "notified"
  /\ wpc' = Awakened
  /\ UNCHANGED <<mutex, tasks, shouldWork, held, outcome>>

\* m_mutex, m_condvar, m_should_work, m_tasks.  Destroying the condition
\* variable waits until nobody is blocked on it (external: the C library).
DestroyMembers ==
  /\ phase = "notified" /\ phase' = "joining"
  /\ Waiting = {}
  /\ DropQueued
  /\ UNCHANGED <<mutex, shouldWork, wpc, held>>

JoinNobody ==  \* mutant of Join: std::thread, detached
  /\ phase = "joining" /\ phase' = "gone"
  /\ UNCHANGED <<mutex, tasks, shouldWork, wpc, held, outcome>>

\* m_workers: every jthread joins.
Join ==
  /\ phase = "joining" /\ phase' = "gone"
  /\ \A w \in Workers : wpc[w] = "exited"
  /\ UNCHANGED <<mutex, tasks, shouldWork, wpc, held, outcome>>

-----------------------------------------------------------------------------
Next ==
  \/ \E t \in Tasks : EnqueueTask(t)
  \/ Clear
  \/ \E w \in Workers : Worker(w) \/ SpuriousWake(w)
  \/ StoreFlag \/ NotifyAll \/ DestroyMembers \/ Join

Spec == Init /\ [][Next]_vars

\* The scheduler runs every thread, functions given to the pool end, and a
\* destructor that was entered goes on.  Nobody has to submit, clear, wake
\* spuriously or enter the destructor.
FairSpec ==
  /\ Spec
  /\ \A w \in Workers : WF_vars(Worker(w))
  /\ WF_vars(NotifyAll \/ DestroyMembers \/ Join)

-----------------------------------------------------------------------------
(* Properties. *)

\* m_tasks.front() is never called on an empty deque (undefined behaviour):
\* what the predicate saw at line 38 still holds at line 46, whoever was woken,
\* spuriously or not, until the destructor destroys the members.
FrontIsThere ==
  \A w \in Workers : wpc[w] = "pop" /\ MembersExist => tasks # <<>>

\* Workers that will look at the queue again before they block.
Seeking == {w \in Workers : wpc[w] \in {"start", "woken", "ready", "pop"}}

\* No wakeup of notify_one is lost while the pool lives: if some worker is
\* blocked, every queued task has a worker of its own on the way to it.
WakeupsCoverQueue ==
  phase = "live" /\ Waiting # {} => Len(tasks) <= Cardinality(Seeking)

Owners(t) ==
  Cardinality({i \in DOMAIN tasks : tasks[i] = t}) + Cardinality({w \in Workers : held[w] = t})

\* A caller blocked in future.get() waits for something that is still held by
\* exactly one owner, the queue or one worker; once the task is gone, because
\* it ended, was cleared or was destroyed, its future is ready.  In particular
\* no task is lost or run twice.
PendingHasOneOwner ==
  \A t \in Tasks : Owners(t) = IF outcome[t] = "pending" THEN 1 ELSE 0

\* Seen from outside, the pool is a queue of tasks (module TaskPool).
Pool == INSTANCE TaskPool WITH queue <- tasks, running <- held
ImplementsTaskPool == Pool!PoolSpec

\* A submitted task is settled in the end as long as nobody destroys the pool
\* (and no task ends the process).
TasksSettle ==
  \A t \in Tasks : outcome[t] = "pending" ~> (outcome[t] # "pending" \/ phase # "live")

\* The destructor finishes if it stores the flag while no worker is between its
\* test of the predicate and its wait.  (It stores without the mutex; a worker
\* that is there can still block after notify_all, and nobody wakes it.)
ShutdownCompletes ==
  (phase = "stopping" /\ \A w \in Workers : wpc[w] # "sleep")
    ~> phase \in {"gone", "terminated"}
=============================================================================
