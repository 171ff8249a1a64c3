-------------------------- MODULE ThreadPoolProofs --------------------------
(***************************************************************************)
(* Theorems about ThreadPool, for any number of workers and tasks.         *)
(***************************************************************************)
EXTENDS ThreadPool, FiniteSetTheorems, TLAPS

\* A worker is inside the critical section exactly when it owns the mutex.
Locking ==
  \A w \in Workers : wpc[w] \in {"sleep", "ready", "pop"} <=> mutex = w

\* What the predicate saw is still so while the worker keeps the mutex.
SeenStillHolds ==
  \A w \in Workers : /\ wpc[w] = "sleep" => tasks = <<>>
                     /\ wpc[w] = "ready" /\ shouldWork => tasks # <<>>

\* The stop flag tells the pool's lifetime.
FlagTellsPhase ==
  phase # "terminated" => (shouldWork <=> phase = "live")

HoldsWhileRunning ==
  \A w \in Workers : held[w] # NoTask <=> wpc[w] = "run"

\* Inductive on its own; WakeupsCoverQueue and the refinement rest on it.
IInv ==
  /\ TypeOK
  /\ Locking
  /\ SeenStillHolds
  /\ FlagTellsPhase
  /\ HoldsWhileRunning
  /\ FrontIsThere

\* The pool starts in the inductive invariant.
LEMMA InitIInv == Init => IInv
BY PoolAssumption DEF Init, IInv, TypeOK, Locking, SeenStillHolds, FlagTellsPhase,
  HoldsWhileRunning, FrontIsThere

\* notify_one moves at most one worker, from "waiting" to "woken".
LEMMA NotifyOneFacts ==
  ASSUME TypeOK, NotifyOne
  PROVE  /\ wpc' \in [Workers -> {"start", "woken", "sleep", "ready", "pop",
                                  "waiting", "run", "exited"}]
         /\ \A w \in Workers : wpc'[w] = wpc[w] \/ (wpc[w] = "waiting" /\ wpc'[w] = "woken")
BY DEF TypeOK, NotifyOne, Move, Waiting

\* Destroying the queued tasks keeps the types and empties the queue.
LEMMA DropQueuedFacts ==
  ASSUME TypeOK, DropQueued
  PROVE  /\ tasks' = <<>> /\ tasks' \in Seq(Tasks)
         /\ outcome' \in [Tasks -> {"new", "pending", "value", "exception", "broken",
                                    "done", "logged", "lost"}]
BY DEF TypeOK, DropQueued, Fate

\* Every step keeps the inductive invariant.
LEMMA NextIInv == IInv /\ [Next]_vars => IInv'
<1> SUFFICES ASSUME IInv, [Next]_vars PROVE IInv'
  OBVIOUS
<1> USE PoolAssumption DEF IInv, TypeOK, Locking, SeenStillHolds, FlagTellsPhase,
      HoldsWhileRunning, FrontIsThere, MembersExist
<1>1. ASSUME NEW t \in Tasks, EnqueueTask(t) PROVE IInv'
  BY <1>1, NotifyOneFacts DEF EnqueueTask
<1>2. CASE Clear
  BY <1>2, DropQueuedFacts DEF Clear
<1>3. ASSUME NEW w \in Workers, TestPredicate(w) PROVE IInv'
  BY <1>3 DEF TestPredicate, Move, Predicate
<1>4. ASSUME NEW w \in Workers, Sleep(w) PROVE IInv'
  BY <1>4 DEF Sleep, Move
<1>5. ASSUME NEW w \in Workers, PassCheck(w) PROVE IInv'
  BY <1>5 DEF PassCheck, Move
<1>6. ASSUME NEW w \in Workers, Leave(w) PROVE IInv'
  BY <1>6 DEF Leave, Move
<1>7. ASSUME NEW w \in Workers, Pop(w) PROVE IInv'
  <2>1. tasks # <<>>
    BY <1>7 DEF Pop, Move
  <2>2. Oldest \in Tasks /\ Popped \in Seq(Tasks)
    BY <2>1 DEF Oldest, Popped
  <2> QED
    BY <1>7, <2>1, <2>2 DEF Pop, Move
<1>8. ASSUME NEW w \in Workers, UseDestroyed(w) PROVE IInv'
  BY <1>8 DEF UseDestroyed, Crash
<1>9. ASSUME NEW w \in Workers, EscapeTask(w) PROVE IInv'
  BY <1>9 DEF EscapeTask, Crash
<1>10. ASSUME NEW w \in Workers, SpuriousWake(w) PROVE IInv'
  BY <1>10 DEF SpuriousWake, Move
<1>11. ASSUME NEW w \in Workers, NEW how \in {"returns", "throwsStd", "throwsOther"},
              RunTask(w, how)
       PROVE  IInv'
  <2>1. Ended(held[w], how) \in {"done", "logged", "exception", "broken", "value"}
    BY DEF Ended
  <2> QED
    BY <1>11, <2>1 DEF RunTask, Move
<1>12. CASE StoreFlag
  BY <1>12 DEF StoreFlag
<1>13. CASE NotifyAll
  BY <1>13 DEF NotifyAll, Awakened, Waiting
<1>14. CASE DestroyMembers
  BY <1>14, DropQueuedFacts DEF DestroyMembers
<1>15. CASE Join
  BY <1>15 DEF Join
<1>16. CASE UNCHANGED vars
  BY <1>16 DEF vars
<1> QED
  BY <1>1, <1>2, <1>3, <1>4, <1>5, <1>6, <1>7, <1>8, <1>9, <1>10, <1>11, <1>12,
     <1>13, <1>14, <1>15, <1>16 DEF Next, Worker

\* The inductive invariant holds in every reachable state.
LEMMA Inductive == Spec => []IInv
BY InitIInv, NextIInv, PTL DEF Spec

\* Every variable keeps its type: no worker or task leaves its life cycle.
THEOREM TypeCorrect == Spec => []TypeOK
<1>1. IInv => TypeOK
  BY DEF IInv
<1> QED
  BY <1>1, Inductive, PTL

\* m_tasks.front() is never called on an empty deque while the deque exists,
\* however many workers there are and however they are woken.
THEOREM FrontIsAlwaysThere == Spec => []FrontIsThere
<1>1. IInv => FrontIsThere
  BY DEF IInv
<1> QED
  BY <1>1, Inductive, PTL

-----------------------------------------------------------------------------
(* No wakeup is lost while the pool lives. *)

\* Blocking and waking workers does not take the seekers out of the finite.
LEMMA SeekingFinite ==
  /\ IsFiniteSet(Seeking) /\ Cardinality(Seeking) \in Nat
  /\ IsFiniteSet(Seeking') /\ Cardinality(Seeking') \in Nat
<1>1. Seeking \subseteq Workers /\ Seeking' \subseteq Workers
  BY DEF Seeking
<1>2. IsFiniteSet(Workers)
  BY PoolAssumption
<1> QED
  BY <1>1, <1>2, FS_Subset, FS_CardinalityType

\* Every step keeps the queue covered by workers on the way to it.
LEMMA CoverStep ==
  ASSUME IInv, [Next]_vars, WakeupsCoverQueue
  PROVE  WakeupsCoverQueue'
<1> SUFFICES ASSUME phase' = "live", Waiting' # {}
             PROVE  Len(tasks') <= Cardinality(Seeking')
  BY DEF WakeupsCoverQueue
<1> USE SeekingFinite
<1>1. TypeOK /\ (phase = "live" => shouldWork)
  BY DEF IInv, FlagTellsPhase
<1>2. tasks \in Seq(Tasks) /\ Len(tasks) \in Nat
  BY <1>1 DEF TypeOK
<1>3. wpc \in [Workers -> {"start", "woken", "sleep", "ready", "pop", "waiting", "run", "exited"}]
  BY <1>1 DEF TypeOK
<1>4. ASSUME NEW t \in Tasks, EnqueueTask(t) PROVE Len(tasks') <= Cardinality(Seeking')
  <2>1. phase = "live" /\ Len(tasks') = Len(tasks) + 1
    BY <1>2, <1>4 DEF EnqueueTask
  <2>2. PICK w \in Waiting : Move(w, "waiting", "woken")
    BY <1>4 DEF EnqueueTask, NotifyOne, Waiting
  <2>3. w \notin Seeking /\ Seeking' = Seeking \cup {w}
    BY <1>3, <2>2 DEF Move, Seeking, Waiting
  <2>4. Cardinality(Seeking') = Cardinality(Seeking) + 1
    BY <2>3, FS_AddElement
  <2> QED
    BY <1>2, <2>1, <2>2, <2>4 DEF WakeupsCoverQueue
<1>5. CASE Clear
  BY <1>5 DEF Clear, DropQueued
<1>6. ASSUME NEW w \in Workers, TestPredicate(w) PROVE Len(tasks') <= Cardinality(Seeking')
  <2>1. phase = "live" /\ tasks' = tasks /\ Waiting' = Waiting
    BY <1>3, <1>6 DEF TestPredicate, Move, Waiting
  <2>2. CASE Predicate(w)
    <3>1. Seeking' = Seeking
      BY <1>3, <1>6, <2>2 DEF TestPredicate, Move, Seeking
    <3> QED
      BY <2>1, <3>1 DEF WakeupsCoverQueue
  <2>3. CASE ~Predicate(w)
    BY <2>1, <2>3 DEF Predicate
  <2> QED
    BY <2>2, <2>3
<1>7. ASSUME NEW w \in Workers, Sleep(w) PROVE Len(tasks') <= Cardinality(Seeking')
  <2>1. tasks = <<>>
    BY <1>7 DEF Sleep, Move, IInv, SeenStillHolds
  <2> QED
    BY <1>7, <2>1 DEF Sleep
<1>8. ASSUME NEW w \in Workers, PassCheck(w) PROVE Len(tasks') <= Cardinality(Seeking')
  <2>1. phase = "live" /\ tasks' = tasks /\ Waiting' = Waiting /\ Seeking' = Seeking
    BY <1>3, <1>8 DEF PassCheck, Move, Waiting, Seeking
  <2> QED
    BY <2>1 DEF WakeupsCoverQueue
<1>9. ASSUME NEW w \in Workers, Leave(w) PROVE FALSE
  BY <1>1, <1>9 DEF Leave
<1>10. ASSUME NEW w \in Workers, Pop(w) PROVE Len(tasks') <= Cardinality(Seeking')
  <2>1. tasks # <<>> /\ Len(tasks') = Len(tasks) - 1
    <3>1. tasks # <<>>
      BY <1>10 DEF Pop, Move, IInv, FrontIsThere
    <3> QED
      BY <1>2, <1>10, <3>1 DEF Pop, Popped
  <2>2. phase = "live" /\ Waiting' = Waiting
    BY <1>3, <1>10 DEF Pop, Move, Waiting
  <2>3. w \in Seeking /\ Seeking' = Seeking \ {w}
    BY <1>3, <1>10 DEF Pop, Move, Seeking
  <2>4. Cardinality(Seeking') = Cardinality(Seeking) - 1
    BY <2>3, FS_RemoveElement
  <2> QED
    BY <1>2, <2>1, <2>2, <2>4 DEF WakeupsCoverQueue
<1>11. ASSUME NEW w \in Workers,
              \/ SpuriousWake(w)
              \/ \E how \in {"returns", "throwsStd", "throwsOther"} : RunTask(w, how)
       PROVE  Len(tasks') <= Cardinality(Seeking')
  <2>1. phase = "live" /\ tasks' = tasks /\ Waiting' \subseteq Waiting
    BY <1>3, <1>11 DEF SpuriousWake, RunTask, Move, Waiting
  <2>2. Seeking \subseteq Seeking'
    BY <1>3, <1>11 DEF SpuriousWake, RunTask, Move, Seeking
  <2>3. Cardinality(Seeking) <= Cardinality(Seeking')
    BY <2>2, FS_Subset
  <2> QED
    BY <1>2, <2>1, <2>3 DEF WakeupsCoverQueue
<1>12. ASSUME NEW w \in Workers, UseDestroyed(w) \/ EscapeTask(w) PROVE FALSE
  BY <1>12 DEF UseDestroyed, EscapeTask, Crash
<1>13. CASE StoreFlag \/ NotifyAll \/ DestroyMembers \/ Join
  BY <1>13 DEF StoreFlag, NotifyAll, DestroyMembers, Join
<1>14. CASE UNCHANGED vars
  BY <1>14 DEF vars, WakeupsCoverQueue, Waiting, Seeking
<1> QED
  BY <1>4, <1>5, <1>6, <1>7, <1>8, <1>9, <1>10, <1>11, <1>12, <1>13, <1>14 DEF Next, Worker

\* A queued task never waits for a worker that nobody will wake: while the pool
\* lives and some worker is blocked, at least as many workers as there are
\* queued tasks will look at the queue before they block.
THEOREM NoWakeupLost == Spec => []WakeupsCoverQueue
<1>1. Init => WakeupsCoverQueue
  BY DEF Init, WakeupsCoverQueue, Waiting
<1>2. IInv /\ [Next]_vars /\ WakeupsCoverQueue => WakeupsCoverQueue'
  BY CoverStep
<1> QED
  BY <1>1, <1>2, Inductive, PTL DEF Spec

-----------------------------------------------------------------------------
(* What is pending has one owner. *)

\* The queue and the workers hold pending tasks only, and none of them twice.
OwnedOnce ==
  /\ \A i \in DOMAIN tasks : outcome[tasks[i]] = "pending"
  /\ \A w \in Workers : held[w] # NoTask => outcome[held[w]] = "pending"
  /\ \A i, j \in DOMAIN tasks : i # j => tasks[i] # tasks[j]
  /\ \A w, v \in Workers : held[w] # NoTask /\ w # v => held[w] # held[v]
  /\ \A w \in Workers, i \in DOMAIN tasks : held[w] # tasks[i]

\* A pending task is queued or held.
PendingIsOwned ==
  \A t \in Tasks : outcome[t] = "pending" =>
    \/ \E i \in DOMAIN tasks : tasks[i] = t
    \/ \E w \in Workers : held[w] = t

\* Inductive relative to IInv.
Ownership == OwnedOnce /\ PendingIsOwned

\* What is queued is a task, and so is the queue's every element after a pop.
LEMMA QueueFacts ==
  ASSUME TypeOK
  PROVE  /\ \A i \in DOMAIN tasks : tasks[i] \in Tasks /\ tasks[i] # NoTask
         /\ tasks # <<>> =>
              /\ Oldest = tasks[1] /\ 1 \in DOMAIN tasks
              /\ \A i \in DOMAIN Popped : i + 1 \in DOMAIN tasks /\ Popped[i] = tasks[i + 1]
              /\ \A i \in DOMAIN tasks : i = 1 \/ i - 1 \in DOMAIN Popped
BY PoolAssumption DEF TypeOK, Oldest, Popped

\* A new task gets the queue as its owner.
LEMMA EnqueueOwnership ==
  ASSUME TypeOK, Ownership, NEW t \in Tasks, EnqueueTask(t)
  PROVE  Ownership'
<1>1. /\ tasks \in Seq(Tasks) /\ held \in [Workers -> Tasks \cup {NoTask}]
      /\ outcome[t] = "new" /\ tasks' = Append(tasks, t) /\ UNCHANGED held
      /\ \A u \in Tasks : outcome'[u] = IF u = t THEN "pending" ELSE outcome[u]
  BY DEF EnqueueTask, TypeOK
<1>2. /\ DOMAIN tasks' = DOMAIN tasks \cup {Len(tasks) + 1} /\ Len(tasks) + 1 \notin DOMAIN tasks
      /\ tasks'[Len(tasks) + 1] = t
      /\ \A i \in DOMAIN tasks : tasks'[i] = tasks[i]
  BY <1>1
<1>3. /\ \A i \in DOMAIN tasks : tasks[i] \in Tasks /\ tasks[i] # t
      /\ \A w \in Workers : held[w] # t
  BY <1>1, QueueFacts, PoolAssumption DEF Ownership, OwnedOnce
<1>4. OwnedOnce'
  BY <1>1, <1>2, <1>3, PoolAssumption DEF Ownership, OwnedOnce
<1>5. PendingIsOwned'
  BY <1>1, <1>2 DEF Ownership, PendingIsOwned
<1> QED
  BY <1>4, <1>5 DEF Ownership

\* Dropping the queue settles every task that was queued.
LEMMA DropOwnership ==
  ASSUME TypeOK, Ownership, DropQueued, UNCHANGED held
  PROVE  Ownership'
<1>1. /\ tasks' = <<>> /\ DOMAIN tasks' = {}
      /\ held \in [Workers -> Tasks \cup {NoTask}] /\ held' = held
      /\ \A t \in Tasks : outcome'[t] = IF t \in ToSet(tasks) THEN Fate(t) ELSE outcome[t]
  BY DEF DropQueued, TypeOK
<1>2. ToSet(tasks) = {tasks[i] : i \in DOMAIN tasks}
  BY DEF ToSet
<1>3. \A t \in Tasks : Fate(t) # "pending"
  BY DEF Fate
<1>4. OwnedOnce'
  BY <1>1, <1>2 DEF Ownership, OwnedOnce
<1>5. PendingIsOwned'
  BY <1>1, <1>2, <1>3 DEF Ownership, PendingIsOwned
<1> QED
  BY <1>4, <1>5 DEF Ownership

\* The front of the queue passes from the queue to the worker.
LEMMA PopOwnership ==
  ASSUME IInv, Ownership, NEW w \in Workers, Pop(w)
  PROVE  Ownership'
<1>1. tasks # <<>> /\ held[w] = NoTask /\ TypeOK
  BY DEF Pop, Move, IInv, FrontIsThere, HoldsWhileRunning
<1>2. /\ tasks' = Popped /\ UNCHANGED outcome
      /\ held' = [held EXCEPT ![w] = tasks[1]]
      /\ held \in [Workers -> Tasks \cup {NoTask}]
  BY <1>1, QueueFacts DEF Pop, TypeOK
<1>3. /\ held'[w] = tasks[1]
      /\ \A v \in Workers : v # w => held'[v] = held[v]
  BY <1>2
<1>4. OwnedOnce'
  <2>1. \A i \in DOMAIN tasks' : /\ i + 1 \in DOMAIN tasks /\ i + 1 # 1
                                /\ tasks'[i] = tasks[i + 1]
    BY <1>1, <1>2, QueueFacts DEF TypeOK, Popped
  <2>2. 1 \in DOMAIN tasks /\ tasks[1] # NoTask
    BY <1>1, QueueFacts
  <2>3. \A i, j \in DOMAIN tasks' : i # j => tasks'[i] # tasks'[j]
    <3> SUFFICES ASSUME NEW i \in DOMAIN tasks', NEW j \in DOMAIN tasks', i # j
                 PROVE  tasks'[i] # tasks'[j]
      OBVIOUS
    <3>1. i \in Nat /\ j \in Nat
      BY <1>1, <1>2 DEF TypeOK, Popped
    <3>2. i + 1 # j + 1
      BY <3>1
    <3> QED
      BY <2>1, <3>2 DEF Ownership, OwnedOnce
  <2> QED
    BY <1>2, <1>3, <2>1, <2>2, <2>3 DEF Ownership, OwnedOnce
<1>5. PendingIsOwned'
  <2> SUFFICES ASSUME NEW t \in Tasks, outcome[t] = "pending"
               PROVE  \/ \E i \in DOMAIN Popped : Popped[i] = t
                      \/ \E v \in Workers : held'[v] = t
    BY <1>2 DEF PendingIsOwned
  <2>1. ASSUME NEW i \in DOMAIN tasks, tasks[i] = t, i # 1
        PROVE  \E j \in DOMAIN Popped : Popped[j] = t
    <3>1. i - 1 \in DOMAIN Popped /\ (i - 1) + 1 = i
      <4>1. i \in Nat
        BY <1>1 DEF TypeOK
      <4>2. (i - 1) + 1 = i
        BY <4>1
      <4>3. i - 1 \in DOMAIN Popped
        BY <1>1, <2>1, QueueFacts
      <4> QED
        BY <4>2, <4>3
    <3> QED
      BY <1>1, <2>1, <3>1, QueueFacts
  <2>2. ASSUME NEW v \in Workers, held[v] = t PROVE held'[v] = t
    BY <1>1, <1>3, <2>2, PoolAssumption
  <2> QED
    BY <1>3, <2>1, <2>2 DEF Ownership, PendingIsOwned
<1> QED
  BY <1>4, <1>5 DEF Ownership

\* A task that ended has no owner and is settled.
LEMMA RunOwnership ==
  ASSUME IInv, Ownership, NEW w \in Workers,
         NEW how \in {"returns", "throwsStd", "throwsOther"}, RunTask(w, how)
  PROVE  Ownership'
<1>1. /\ held \in [Workers -> Tasks \cup {NoTask}] /\ held[w] \in Tasks /\ TypeOK
      /\ Ended(held[w], how) # "pending"
  BY DEF RunTask, Move, IInv, TypeOK, HoldsWhileRunning, Ended
<1>2. /\ UNCHANGED tasks /\ held'[w] = NoTask
      /\ \A v \in Workers : v # w => held'[v] = held[v]
      /\ outcome'[held[w]] # "pending"
      /\ \A t \in Tasks : t # held[w] => outcome'[t] = outcome[t]
  BY <1>1 DEF RunTask, TypeOK
<1>3. \A v \in Workers : held'[v] # NoTask =>
        v # w /\ held'[v] = held[v] /\ held[v] \in Tasks /\ held[v] # held[w]
  BY <1>1, <1>2 DEF Ownership, OwnedOnce
<1>4. \A i \in DOMAIN tasks : tasks[i] \in Tasks /\ tasks[i] # held[w] /\ tasks[i] # NoTask
  BY <1>1, QueueFacts DEF Ownership, OwnedOnce
<1>5. OwnedOnce'
  <2>1. \A i \in DOMAIN tasks : outcome'[tasks[i]] = "pending"
    BY <1>2, <1>4 DEF Ownership, OwnedOnce
  <2>2. \A v \in Workers : held'[v] # NoTask => outcome'[held'[v]] = "pending"
    <3> SUFFICES ASSUME NEW v \in Workers, held'[v] # NoTask
                 PROVE  outcome'[held'[v]] = "pending"
      OBVIOUS
    <3>1. held'[v] = held[v] /\ held[v] \in Tasks /\ held[v] # held[w]
      BY <1>3
    <3>2. outcome[held[v]] = "pending"
      BY <3>1, PoolAssumption DEF Ownership, OwnedOnce
    <3> QED
      BY <1>2, <3>1, <3>2
  <2>3. \A v, u \in Workers : held'[v] # NoTask /\ v # u => held'[v] # held'[u]
    <3> SUFFICES ASSUME NEW v \in Workers, NEW u \in Workers, held'[v] # NoTask, v # u,
                        held'[v] = held'[u]
                 PROVE  FALSE
      OBVIOUS
    <3>1. held'[v] = held[v] /\ held'[u] = held[u] /\ held[v] # NoTask
      BY <1>3
    <3> QED
      BY <3>1 DEF Ownership, OwnedOnce
  <2>4. \A v \in Workers, i \in DOMAIN tasks : held'[v] # tasks[i]
    <3> SUFFICES ASSUME NEW v \in Workers, NEW i \in DOMAIN tasks, held'[v] = tasks[i]
                 PROVE  FALSE
      OBVIOUS
    <3>1. tasks[i] # NoTask
      BY <1>4
    <3>2. held'[v] = held[v]
      BY <1>3, <3>1
    <3> QED
      BY <3>2 DEF Ownership, OwnedOnce
  <2> QED
    BY <1>2, <2>1, <2>2, <2>3, <2>4 DEF Ownership, OwnedOnce
<1>6. PendingIsOwned'
  <2> SUFFICES ASSUME NEW t \in Tasks, outcome'[t] = "pending"
               PROVE  \/ \E i \in DOMAIN tasks : tasks[i] = t
                      \/ \E v \in Workers : held'[v] = t
    BY <1>2 DEF PendingIsOwned
  <2>1. t # held[w] /\ outcome[t] = "pending"
    BY <1>2
  <2>2. ASSUME NEW v \in Workers, held[v] = t PROVE held'[v] = t
    BY <1>2, <2>1, <2>2
  <2> QED
    BY <2>1, <2>2 DEF Ownership, PendingIsOwned
<1> QED
  BY <1>5, <1>6 DEF Ownership

\* Every step keeps each pending task with one owner.
LEMMA OwnershipStep ==
  ASSUME IInv, [Next]_vars, Ownership
  PROVE  Ownership'
<1>1. ASSUME NEW t \in Tasks, EnqueueTask(t) PROVE Ownership'
  BY <1>1, EnqueueOwnership DEF IInv
<1>2. ASSUME Clear \/ DestroyMembers PROVE Ownership'
  BY <1>2, DropOwnership DEF IInv, Clear, DestroyMembers
<1>3. ASSUME NEW w \in Workers, Pop(w) PROVE Ownership'
  BY <1>3, PopOwnership
<1>4. ASSUME NEW w \in Workers, NEW how \in {"returns", "throwsStd", "throwsOther"},
             RunTask(w, how)
      PROVE  Ownership'
  BY <1>4, RunOwnership
<1>5. ASSUME NEW w \in Workers,
             \/ TestPredicate(w) \/ Sleep(w) \/ PassCheck(w) \/ Leave(w)
             \/ UseDestroyed(w) \/ EscapeTask(w) \/ SpuriousWake(w)
      PROVE  UNCHANGED <<tasks, held, outcome>>
  BY <1>5 DEF TestPredicate, Sleep, PassCheck, Leave, UseDestroyed, EscapeTask, Crash, SpuriousWake
<1>6. ASSUME StoreFlag \/ NotifyAll \/ Join \/ UNCHANGED vars
      PROVE  UNCHANGED <<tasks, held, outcome>>
  BY <1>6 DEF StoreFlag, NotifyAll, Join, vars
<1>7. ASSUME UNCHANGED <<tasks, held, outcome>> PROVE Ownership'
  BY <1>7 DEF Ownership, OwnedOnce, PendingIsOwned
<1> QED
  BY <1>1, <1>2, <1>3, <1>4, <1>5, <1>6, <1>7 DEF Next, Worker

\* A set in which any two elements are equal counts as one or none.
LEMMA CountOne ==
  ASSUME NEW S, NEW x \in S, \A y \in S : y = x
  PROVE  Cardinality(S) = 1
<1>1. S = {x}
  OBVIOUS
<1> QED
  BY <1>1, FS_Singleton

\* Ownership as the numbers PendingHasOneOwner counts.
LEMMA OwnershipCounted ==
  ASSUME TypeOK, Ownership
  PROVE  PendingHasOneOwner
<1> SUFFICES ASSUME NEW t \in Tasks
             PROVE  Owners(t) = IF outcome[t] = "pending" THEN 1 ELSE 0
  BY DEF PendingHasOneOwner
<1> DEFINE Q == {i \in DOMAIN tasks : tasks[i] = t}
           H == {w \in Workers : held[w] = t}
<1>1. Owners(t) = Cardinality(Q) + Cardinality(H)
  BY DEF Owners
<1>2. t # NoTask
  BY PoolAssumption
<1>3. Cardinality({}) = 0
  BY FS_EmptySet
<1>4. ASSUME NEW i \in Q PROVE Cardinality(Q) = 1 /\ H = {} /\ outcome[t] = "pending"
  <2>1. \A j \in Q : j = i
    BY DEF Ownership, OwnedOnce
  <2>2. Cardinality(Q) = 1
    BY <2>1, CountOne
  <2> QED
    BY <2>2 DEF Ownership, OwnedOnce
<1>5. ASSUME NEW w \in H PROVE Cardinality(H) = 1 /\ Q = {} /\ outcome[t] = "pending"
  <2>1. \A v \in H : v = w
    BY <1>2 DEF Ownership, OwnedOnce
  <2>2. Cardinality(H) = 1
    BY <2>1, CountOne
  <2> QED
    BY <1>2, <2>2 DEF Ownership, OwnedOnce
<1>6. Q = {} /\ H = {} => outcome[t] # "pending"
  BY DEF Ownership, PendingIsOwned
<1> HIDE DEF Q, H
<1> QED
  BY <1>1, <1>3, <1>4, <1>5, <1>6

\* However tasks are submitted, taken, cleared and destroyed, a future is pending
\* exactly while the queue or one worker, and only one of them, holds its task:
\* no task is lost or run twice, and nobody waits for a task that is gone.
THEOREM PendingOwned == Spec => []PendingHasOneOwner
<1>1. Init => Ownership
  BY PoolAssumption DEF Init, Ownership, OwnedOnce, PendingIsOwned
<1>2. IInv /\ [Next]_vars /\ Ownership => Ownership'
  BY OwnershipStep
<1>3. IInv /\ Ownership => PendingHasOneOwner
  BY OwnershipCounted DEF IInv
<1> QED
  BY <1>1, <1>2, <1>3, Inductive, PTL DEF Spec

-----------------------------------------------------------------------------
(* The pool implements TaskPool. *)

\* Dropping the queue is Discard, whatever else happens to the pool.
LEMMA DropIsDiscard ==
  ASSUME DropQueued, UNCHANGED held
  PROVE  Pool!Discard
BY DEF DropQueued, Pool!Discard

\* Every step of the pool is a step of TaskPool or leaves queue and runs alone.
LEMMA StepRefines ==
  ASSUME IInv, [Next]_vars
  PROVE  [Pool!PoolNext]_(Pool!poolVars)
<1> USE DEF Pool!PoolNext, Pool!poolVars
<1>1. ASSUME NEW t \in Tasks, EnqueueTask(t) PROVE Pool!Submit(t)
  BY <1>1 DEF EnqueueTask, Pool!Submit
<1>2. ASSUME Clear \/ DestroyMembers PROVE Pool!Discard
  BY <1>2, DropIsDiscard DEF Clear, DestroyMembers
<1>3. ASSUME NEW w \in Workers, Pop(w) PROVE Pool!Start(w)
  <2>1. tasks # <<>> /\ held[w] = NoTask
    BY <1>3 DEF Pop, Move, IInv, FrontIsThere, HoldsWhileRunning
  <2> QED
    BY <1>3, <2>1 DEF Pop, Oldest, Popped, Pool!Start
<1>4. ASSUME NEW w \in Workers, NEW how \in {"returns", "throwsStd", "throwsOther"},
             RunTask(w, how)
      PROVE  Pool!Finish(w)
  BY <1>4 DEF RunTask, Move, IInv, HoldsWhileRunning, Pool!Finish
<1>5. ASSUME NEW w \in Workers,
             \/ TestPredicate(w) \/ Sleep(w) \/ PassCheck(w) \/ Leave(w)
             \/ UseDestroyed(w) \/ EscapeTask(w) \/ SpuriousWake(w)
      PROVE  UNCHANGED <<tasks, held>>
  BY <1>5 DEF TestPredicate, Sleep, PassCheck, Leave, UseDestroyed, EscapeTask, Crash, SpuriousWake
<1>6. CASE StoreFlag \/ NotifyAll \/ Join \/ UNCHANGED vars
  BY <1>6 DEF StoreFlag, NotifyAll, Join, vars
<1> QED
  BY <1>1, <1>2, <1>3, <1>4, <1>5, <1>6 DEF Next, Worker

\* Seen from outside, the pool hands out its tasks in the order of submission,
\* each to one idle worker: ThreadPool implements TaskPool.
THEOREM PoolImplemented == Spec => ImplementsTaskPool
<1>1. Init => Pool!PoolInit
  BY DEF Init, Pool!PoolInit
<1>2. IInv /\ [Next]_vars => [Pool!PoolNext]_(Pool!poolVars)
  BY StepRefines
<1> QED
  BY <1>1, <1>2, Inductive, PTL DEF Spec, ImplementsTaskPool, Pool!PoolSpec
=============================================================================
