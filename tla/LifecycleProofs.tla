-------------------------- MODULE LifecycleProofs --------------------------
(***************************************************************************)
(* Theorems about Lifecycle, for any number of workers and requests.       *)
(***************************************************************************)
EXTENDS Lifecycle, TLAPS

Places == {"start", "woken", "sleep", "ready", "pop", "waiting", "run", "exited"}
Outcomes == {"new", "pending", "value", "exception", "broken", "done", "logged", "lost"}

\* The pool's variables too.
Types ==
  /\ TypeOK
  /\ shouldWork \in BOOLEAN
  /\ wpc \in [Workers -> Places]
  /\ outcome \in [Tasks -> Outcomes]
  /\ busy \in BOOLEAN

Exiting == mpc \in {"exit", "closed", "pool", "ended"}
Ending == phase \in {"stopping", "notified", "joining", "gone"}

\* Inside its critical section a worker owns the mutex.
Locking == \A w \in Workers : wpc[w] \in {"sleep", "ready", "pop"} => mutex = w

\* The flag tells the pool's lifetime, which ends under an exit only.
Phases ==
  /\ phase = "live" => shouldWork
  /\ Ending => ~shouldWork /\ mpc \in {"pool", "ended"}
  /\ gone # {} => Exiting

\* A worker on its way to the front of the queue has seen one, and it is there.
Seen ==
  \A w \in Workers :
    /\ wpc[w] = "ready" /\ shouldWork => tasks # <<>>
    /\ wpc[w] = "pop" /\ phase \in {"live", "stopping", "notified"} => tasks # <<>>

\* What is queued or running is pending, and is so once.
OwnersArePending ==
  /\ \A i \in DOMAIN tasks : outcome[tasks[i]] = "pending"
  /\ \A w \in Workers : wpc[w] = "run" => held[w] \in Tasks /\ outcome[held[w]] = "pending"
  /\ \A i, j \in DOMAIN tasks : i # j => tasks[i] # tasks[j]
  /\ \A w, v \in Workers : wpc[w] = "run" /\ wpc[v] = "run" /\ w # v => held[w] # held[v]
  /\ \A w \in Workers, i \in DOMAIN tasks : wpc[w] = "run" => held[w] # tasks[i]

\* What is pending is queued or running.
PendingIsOwned ==
  \A t \in Tasks :
    outcome[t] = "pending" => \/ \E i \in DOMAIN tasks : tasks[i] = t
                              \/ \E w \in Workers : wpc[w] = "run" /\ held[w] = t

\* A handler that has used the tables is running, and so is one whose file has
\* the number of the listening socket.
HandlersRun ==
  /\ \A w \in used : wpc[w] = "run"
  /\ lsock \in Workers => wpc[lsock] = "run"

\* One late task at most, and then no worker is at the front any more.
LateIsLast == late \in {0, 1} /\ (late = 1 => ~shouldWork /\ \A w \in Workers : wpc[w] # "pop")

\* When exit began without a request in hand nobody has one later.
IdleStaysIdle ==
  Exiting /\ ~busy => tasks = <<>> /\ \A w \in Workers : wpc[w] \notin {"run", "pop"}

\* Before exit only an unwinding does harm.  Without a request in hand exit does
\* none to requests; descriptor 0 is at stake until there is a listening socket.
HarmIsInExit ==
  /\ ~Exiting => harm \subseteq {"members"} /\ lsock \in {"stdin", "none", "open"}
  /\ ~busy => harm \subseteq {"members", "stdin"}
  /\ lsock = "stdin" \/ "stdin" \in harm => mpc # "loop" /\ \A t \in Tasks : outcome[t] = "new"

\* What the end of the process finds.
EndIsClean ==
  /\ mpc \in {"constructing", "unwinding"} => \A t \in Tasks : outcome[t] # "pending"
  /\ phase \in {"joining", "gone"} => tasks = <<>>
  /\ phase = "gone" => NoWorkers
  /\ mpc = "ended" => NoWorkers /\ Pending = {}

LInv ==
  /\ Types /\ Locking /\ Phases /\ Seen /\ OwnersArePending /\ PendingIsOwned
  /\ HandlersRun /\ LateIsLast /\ IdleStaysIdle /\ HarmIsInExit /\ EndIsClean

\* The process starts in the inductive invariant.
LEMMA InitLInv == Init => LInv
<1> SUFFICES ASSUME Init PROVE LInv
  OBVIOUS
<1> USE LifecycleAssumption DEF Init, Types, TypeOK, Places, Outcomes, Exiting, Ending, Locking,
      Phases, Seen, OwnersArePending, PendingIsOwned, HandlersRun, LateIsLast, IdleStaysIdle,
      HarmIsInExit, EndIsClean, NoWorkers, Pending, Harms
<1>11. Types
  <2>1. <<>> \in Seq(Tasks) /\ 0 \in Nat
    OBVIOUS
  <2>2. wpc \in [Workers -> Places] /\ held \in [Workers -> Tasks \cup {NoTask}]
    OBVIOUS
  <2>3. outcome \in [Tasks -> Outcomes]
    OBVIOUS
  <2> QED
    BY <2>1, <2>2, <2>3
<1>12. Locking
  OBVIOUS
<1>13. Phases
  OBVIOUS
<1>14. Seen
  <2> SUFFICES ASSUME NEW w \in Workers PROVE wpc[w] \notin {"ready", "pop"}
    BY DEF Seen
  <2> QED
    OBVIOUS
<1>15. OwnersArePending
  OBVIOUS
<1>16. PendingIsOwned
  OBVIOUS
<1>17. HandlersRun
  OBVIOUS
<1>18. LateIsLast
  OBVIOUS
<1>19. IdleStaysIdle
  OBVIOUS
<1>20. HarmIsInExit
  OBVIOUS
<1>21. EndIsClean
  OBVIOUS
<1> QED
  BY <1>11, <1>12, <1>13, <1>14, <1>15, <1>16, <1>17, <1>18, <1>19, <1>20, <1>21 DEF LInv

\* The steps of the main thread that leave the pool alone keep it.
LEMMA MainLInv ==
  ASSUME LInv,
         Constructed \/ SpawnFails \/ Unwound \/ ListenStart \/ SetupFails \/ LoopThrows
           \/ Return \/ Uncaught \/ Interrupt \/ InterruptConstruction
           \/ DestroyBinder \/ CloseAgain \/ DestroyClients \/ End
  PROVE  LInv'
<1> USE LifecycleAssumption DEF LInv, Types, TypeOK, Places, Outcomes, Exiting, Ending, Locking,
      Phases, Seen, OwnersArePending, PendingIsOwned, HandlersRun, LateIsLast, IdleStaysIdle,
      HarmIsInExit, EndIsClean, NoWorkers, Pending, MainStep, Alive, pool, hist, StopServer, BeginExit, CloseListening, Harms
<1>1. CASE Constructed
  BY <1>1 DEF Constructed
<1>2. CASE SpawnFails
  BY <1>2 DEF SpawnFails
<1>3. CASE Unwound
  BY <1>3 DEF Unwound
<1>4. CASE ListenStart
  BY <1>4 DEF ListenStart
<1>5. CASE SetupFails
  BY <1>5 DEF SetupFails
<1>6. CASE LoopThrows
  BY <1>6 DEF LoopThrows
<1>7. CASE Return
  BY <1>7 DEF Return
<1>8. CASE Uncaught
  BY <1>8 DEF Uncaught
<1>9. CASE Interrupt
  BY <1>9 DEF Interrupt
<1>10. CASE InterruptConstruction
  BY <1>10 DEF InterruptConstruction
<1>11. CASE DestroyBinder
  BY <1>11 DEF DestroyBinder
<1>12. CASE CloseAgain
  BY <1>12 DEF CloseAgain
<1>13. CASE DestroyClients
  BY <1>13 DEF DestroyClients
<1>14. CASE End
  BY <1>14 DEF End
<1> QED
  BY <1>1, <1>2, <1>3, <1>4, <1>5, <1>6, <1>7, <1>8, <1>9, <1>10, <1>11, <1>12, <1>13, <1>14

\* The steps of a worker inside the pool keep it.
LEMMA PoolStepLInv ==
  ASSUME LInv, NEW w \in Workers, PoolStep(w) \/ Escape(w) \/ SpuriousWake(w) \/ UseDestroyed(w)
  PROVE  LInv'
<1> USE LifecycleAssumption DEF LInv, Types, TypeOK, Places, Outcomes, Exiting, Ending, Locking,
      Phases, Seen, OwnersArePending, PendingIsOwned, HandlersRun, LateIsLast, IdleStaysIdle,
      HarmIsInExit, EndIsClean, NoWorkers, Pending, Alive, pool, hist, Harms
<1>1. CASE Pool!TestPredicate(w) /\ PoolStep(w)
  BY <1>1 DEF Pool!TestPredicate, Pool!Predicate, Pool!Move, PoolStep, MembersGone
<1>2. CASE Pool!Sleep(w) /\ PoolStep(w)
  BY <1>2 DEF Pool!Sleep, Pool!Move, PoolStep, MembersGone
<1>3. CASE Pool!PassCheck(w) /\ PoolStep(w)
  BY <1>3 DEF Pool!PassCheck, Pool!Move, PoolStep, MembersGone
<1>4. CASE Pool!Leave(w) /\ PoolStep(w)
  BY <1>4 DEF Pool!Leave, Pool!Move, PoolStep, MembersGone
<1>5. CASE Escape(w)
  BY <1>5 DEF Escape, Pool!EscapeTask, Pool!Crash
<1>6. CASE SpuriousWake(w)
  BY <1>6 DEF SpuriousWake, Pool!SpuriousWake, Pool!Move
<1>7. CASE UseDestroyed(w)
  BY <1>7 DEF UseDestroyed, MembersGone, Pool!UsesMembers, Pool!Crash
<1> QED
  BY <1>1, <1>2, <1>3, <1>4, <1>5, <1>6, <1>7 DEF PoolStep

\* The steps of a handler keep it.
LEMMA HandlerLInv ==
  ASSUME LInv, NEW w \in Workers, Spawn(w) \/ UseShared(w) \/ OpenFile(w)
  PROVE  LInv'
<1> USE LifecycleAssumption DEF LInv, Types, TypeOK, Places, Outcomes, Exiting, Ending, Locking,
      Phases, Seen, OwnersArePending, PendingIsOwned, HandlersRun, LateIsLast, IdleStaysIdle,
      HarmIsInExit, EndIsClean, NoWorkers, Pending, Alive, pool, hist, Harms
<1>1. CASE Spawn(w)
  BY <1>1 DEF Spawn, MainStep
<1>2. CASE UseShared(w)
  BY <1>2 DEF UseShared
<1>3. CASE OpenFile(w)
  BY <1>3 DEF OpenFile
<1> QED
  BY <1>1, <1>2, <1>3

\* A worker takes the front of the queue.
LEMMA TakeLInv == ASSUME LInv, NEW w \in Workers, Take(w) PROVE LInv'
<1> USE LifecycleAssumption DEF LInv, Types, TypeOK, Places, Outcomes, Exiting, Ending, Locking,
      Phases, Seen, OwnersArePending, PendingIsOwned, HandlersRun, LateIsLast, IdleStaysIdle,
      HarmIsInExit, EndIsClean, NoWorkers, Pending, Alive, pool, hist, Harms
<1>1. tasks # <<>> /\ wpc[w] = "pop" /\ mutex = w
  BY DEF Take, Pool!Pop, Pool!Move, Pool!MembersExist
<1>2. /\ Pool!Oldest = tasks[1] /\ tasks[1] \in Tasks
      /\ Pool!Popped \in Seq(Tasks) /\ Len(Pool!Popped) = Len(tasks) - 1
      /\ \A i \in DOMAIN Pool!Popped : i + 1 \in DOMAIN tasks /\ Pool!Popped[i] = tasks[i + 1]
      /\ \A i \in DOMAIN tasks : i = 1 \/ i - 1 \in DOMAIN Pool!Popped
  BY <1>1 DEF Pool!Oldest, Pool!Popped
<1>11. Types'
  BY <1>1, <1>2 DEF Take, Pool!Pop, Pool!Move, Pool!MembersExist
<1>12. Locking'
  BY <1>1, <1>2 DEF Take, Pool!Pop, Pool!Move, Pool!MembersExist
<1>13. Phases'
  BY <1>1, <1>2 DEF Take, Pool!Pop, Pool!Move, Pool!MembersExist
<1>14. Seen'
  BY <1>1, <1>2 DEF Take, Pool!Pop, Pool!Move, Pool!MembersExist
<1>3. /\ tasks' = Pool!Popped /\ held'[w] = tasks[1] /\ wpc'[w] = "run" /\ outcome' = outcome
      /\ \A v \in Workers : v # w => held'[v] = held[v] /\ wpc'[v] = wpc[v]
  BY <1>2 DEF Take, Pool!Pop, Pool!Move
<1>15. OwnersArePending'
  <2>0. DOMAIN tasks' = DOMAIN Pool!Popped /\ 1 \in DOMAIN tasks
    BY <1>1, <1>3
  <2>1. \A i \in DOMAIN tasks' : i + 1 \in DOMAIN tasks /\ i + 1 # 1 /\ tasks'[i] = tasks[i + 1]
    BY <1>2, <1>3
  <2>2. \A i, j \in DOMAIN tasks' : i # j => i + 1 # j + 1
    BY <1>2, <1>3
  <2>3. /\ \A i \in DOMAIN tasks : outcome[tasks[i]] = "pending"
        /\ \A v \in Workers : wpc[v] = "run" => held[v] \in Tasks /\ outcome[held[v]] = "pending"
        /\ \A i, j \in DOMAIN tasks : i # j => tasks[i] # tasks[j]
        /\ \A u, v \in Workers : wpc[u] = "run" /\ wpc[v] = "run" /\ u # v => held[u] # held[v]
        /\ \A v \in Workers, i \in DOMAIN tasks : wpc[v] = "run" => held[v] # tasks[i]
    BY DEF OwnersArePending
  <2> HIDE DEF LInv, Types, TypeOK, Places, Outcomes, Locking, Phases, Seen, PendingIsOwned,
      HandlersRun, LateIsLast, IdleStaysIdle, HarmIsInExit, EndIsClean, OwnersArePending
  <2>4. \A i \in DOMAIN tasks' : outcome'[tasks'[i]] = "pending"
    BY <1>3, <2>1, <2>3
  <2>5. \A v \in Workers : wpc'[v] = "run" => held'[v] \in Tasks /\ outcome'[held'[v]] = "pending"
    BY <1>2, <1>3, <2>0, <2>3
  <2>6. \A i, j \in DOMAIN tasks' : i # j => tasks'[i] # tasks'[j]
    BY <2>1, <2>2, <2>3
  <2>7. \A u, v \in Workers : wpc'[u] = "run" /\ wpc'[v] = "run" /\ u # v => held'[u] # held'[v]
    BY <1>3, <2>0, <2>3
  <2>8. \A v \in Workers, i \in DOMAIN tasks' : wpc'[v] = "run" => held'[v] # tasks'[i]
    BY <1>3, <2>0, <2>1, <2>3
  <2> QED
    BY <2>4, <2>5, <2>6, <2>7, <2>8 DEF OwnersArePending
<1>16. PendingIsOwned'
  <2> SUFFICES ASSUME NEW t \in Tasks, outcome[t] = "pending"
               PROVE  \/ \E i \in DOMAIN Pool!Popped : Pool!Popped[i] = t
                      \/ \E v \in Workers : wpc'[v] = "run" /\ held'[v] = t
    BY <1>3 DEF PendingIsOwned
  <2>1. CASE \E v \in Workers : wpc[v] = "run" /\ held[v] = t
    BY <1>1, <1>3, <2>1
  <2>2. ASSUME NEW i \in DOMAIN tasks, tasks[i] = t
        PROVE  i = 1 \/ \E j \in DOMAIN Pool!Popped : Pool!Popped[j] = t
    <3> SUFFICES ASSUME i # 1 PROVE i - 1 \in DOMAIN Pool!Popped /\ Pool!Popped[i - 1] = t
      OBVIOUS
    <3>1. i - 1 \in DOMAIN Pool!Popped
      BY <1>2
    <3>2. Pool!Popped[i - 1] = tasks[(i - 1) + 1] /\ (i - 1) + 1 = i
      BY <1>2, <3>1
    <3> QED
      BY <2>2, <3>1, <3>2
  <2> QED
    BY <1>3, <2>1, <2>2 DEF PendingIsOwned
<1>17. HandlersRun'
  BY <1>1, <1>2 DEF Take, Pool!Pop, Pool!Move, Pool!MembersExist
<1>18. LateIsLast'
  BY <1>1, <1>2 DEF Take, Pool!Pop, Pool!Move, Pool!MembersExist
<1>19. IdleStaysIdle'
  BY <1>1, <1>2 DEF Take, Pool!Pop, Pool!Move, Pool!MembersExist
<1>20. HarmIsInExit'
  BY <1>1, <1>2 DEF Take, Pool!Pop, Pool!Move, Pool!MembersExist
<1>21. EndIsClean'
  BY <1>1, <1>2 DEF Take, Pool!Pop, Pool!Move, Pool!MembersExist
<1> QED
  BY <1>11, <1>12, <1>13, <1>14, <1>15, <1>16, <1>17, <1>18, <1>19, <1>20, <1>21 DEF LInv

\* What is queued is a request.
LEMMA QueueTyped == tasks \in Seq(Tasks) => \A i \in DOMAIN tasks : tasks[i] \in Tasks
OBVIOUS

\* A request ends.
LEMMA FinishLInv == ASSUME LInv, NEW w \in Workers, Finish(w) PROVE LInv'
<1> USE DEF Places, Outcomes
<1>1. PICK how \in {"returns", "throwsStd"} : Pool!RunTask(w, how)
  BY DEF Finish
<1>2. Pool!Ended(held[w], how) \in {"done", "logged", "exception", "broken", "value"}
  BY DEF Pool!Ended
<1>3. /\ wpc[w] = "run" /\ wpc' = [wpc EXCEPT ![w] = "start"]
      /\ held' = [held EXCEPT ![w] = NoTask]
      /\ outcome' = [outcome EXCEPT ![held[w]] = Pool!Ended(held[w], how)]
      /\ UNCHANGED <<mutex, tasks, shouldWork, phase>>
  BY <1>1 DEF Pool!RunTask, Pool!Move
<1>4. /\ used' = used \ {w}
      /\ lsock' = IF lsock = w THEN "closed" ELSE lsock
      /\ UNCHANGED <<mpc, gone, busy, late, harm>>
  BY DEF Finish, hist
<1>5. /\ wpc \in [Workers -> Places] /\ held \in [Workers -> Tasks \cup {NoTask}]
      /\ outcome \in [Tasks -> Outcomes] /\ held[w] \in Tasks
  BY <1>3 DEF LInv, Types, TypeOK, OwnersArePending
<1>6. /\ wpc' \in [Workers -> Places] /\ held' \in [Workers -> Tasks \cup {NoTask}]
      /\ wpc'[w] = "start"
      /\ \A v \in Workers : v # w => wpc'[v] = wpc[v] /\ held'[v] = held[v]
  BY <1>3, <1>5
<1>7. /\ outcome' \in [Tasks -> Outcomes] /\ outcome'[held[w]] # "pending"
      /\ \A t \in Tasks : t # held[w] => outcome'[t] = outcome[t]
  BY <1>2, <1>3, <1>5
<1>11. Types'
  BY <1>3, <1>4, <1>6, <1>7 DEF LInv, Types, TypeOK
<1>12. Locking'
  BY <1>3, <1>6 DEF LInv, Locking
<1>13. Phases'
  BY <1>3, <1>4 DEF LInv, Phases, Ending, Exiting
<1>14. Seen'
  BY <1>3, <1>6 DEF LInv, Seen
<1>15. OwnersArePending'
  <2> DEFINE Running(v) == wpc[v] = "run"
  <2>0. /\ \A i \in DOMAIN tasks : outcome[tasks[i]] = "pending"
        /\ \A v \in Workers : Running(v) => held[v] \in Tasks /\ outcome[held[v]] = "pending"
        /\ \A u, v \in Workers : Running(u) /\ Running(v) /\ u # v => held[u] # held[v]
        /\ \A v \in Workers, i \in DOMAIN tasks : Running(v) => held[v] # tasks[i]
        /\ \A i, j \in DOMAIN tasks : i # j => tasks[i] # tasks[j]
    BY DEF LInv, OwnersArePending
  <2>1. \A i \in DOMAIN tasks : tasks[i] \in Tasks
    BY QueueTyped DEF LInv, Types, TypeOK
  <2>2. \A v \in Workers : wpc'[v] = "run" =>
          v # w /\ Running(v) /\ held'[v] = held[v] /\ held[v] # held[w]
    BY <1>3, <1>6, <2>0
  <2> HIDE DEF Running
  <2>3. \A v \in Workers : wpc'[v] = "run" => held'[v] \in Tasks /\ outcome'[held'[v]] = "pending"
    BY <1>7, <2>0, <2>2
  <2>4. \A i \in DOMAIN tasks : outcome'[tasks[i]] = "pending"
    <3>1. Running(w)
      BY <1>3 DEF Running
    <3> QED
      BY <1>7, <2>0, <2>1, <3>1
  <2>5. \A u, v \in Workers : wpc'[u] = "run" /\ wpc'[v] = "run" /\ u # v => held'[u] # held'[v]
    BY <2>0, <2>2
  <2>6. \A v \in Workers, i \in DOMAIN tasks : wpc'[v] = "run" => held'[v] # tasks[i]
    BY <2>0, <2>2
  <2> QED
    <3>1. tasks' = tasks
      BY <1>3
    <3> QED
      BY <2>0, <2>3, <2>4, <2>5, <2>6, <3>1 DEF OwnersArePending
<1>16. PendingIsOwned'
  <2> SUFFICES ASSUME NEW t \in Tasks, outcome'[t] = "pending"
               PROVE  \/ \E i \in DOMAIN tasks : tasks[i] = t
                      \/ \E v \in Workers : wpc'[v] = "run" /\ held'[v] = t
    BY <1>3 DEF PendingIsOwned
  <2>1. t # held[w] /\ outcome[t] = "pending"
    BY <1>7
  <2>2. CASE \E v \in Workers : wpc[v] = "run" /\ held[v] = t
    BY <1>6, <2>1, <2>2
  <2> QED
    BY <2>1, <2>2 DEF LInv, PendingIsOwned
<1>17. HandlersRun'
  BY <1>4, <1>6, LifecycleAssumption DEF LInv, HandlersRun, Types, TypeOK
<1>18. LateIsLast'
  BY <1>3, <1>4, <1>6 DEF LInv, LateIsLast
<1>19. IdleStaysIdle'
  BY <1>3, <1>4, <1>6 DEF LInv, IdleStaysIdle, Exiting
<1>20. HarmIsInExit'
  <2>1. lsock # "stdin" /\ "stdin" \notin harm
    BY <1>3, <1>5 DEF LInv, HarmIsInExit, OwnersArePending
  <2>2. ~Exiting => lsock \notin Workers
    BY LifecycleAssumption DEF LInv, HarmIsInExit
  <2> QED
    BY <1>4, <2>1, <2>2 DEF LInv, HarmIsInExit, Exiting
<1>21. EndIsClean'
  BY <1>3, <1>4, <1>5, <1>6, <1>7 DEF LInv, EndIsClean, NoWorkers, Pending
<1> QED
  BY <1>11, <1>12, <1>13, <1>14, <1>15, <1>16, <1>17, <1>18, <1>19, <1>20, <1>21 DEF LInv

\* A request is queued.
LEMMA DispatchLInv == ASSUME LInv, NEW t \in Tasks, Dispatch(t) PROVE LInv'
<1> USE LifecycleAssumption DEF LInv, Types, TypeOK, Places, Outcomes, Exiting, Ending, Locking,
      Phases, Seen, OwnersArePending, PendingIsOwned, HandlersRun, LateIsLast, IdleStaysIdle,
      HarmIsInExit, EndIsClean, NoWorkers, Pending, Alive, pool, hist, Harms
<1> QED
  BY DEF Dispatch, Pool!EnqueueTask, Pool!NotifyOne, Pool!Waiting, Pool!Move

\* The signal comes in the middle of that.
LEMMA InterruptEnqueueLInv == ASSUME LInv, NEW t \in Tasks, InterruptEnqueue(t) PROVE LInv'
<1> USE LifecycleAssumption DEF LInv, Types, TypeOK, Places, Outcomes, Exiting, Ending, Locking,
      Phases, Seen, OwnersArePending, PendingIsOwned, HandlersRun, LateIsLast, IdleStaysIdle,
      HarmIsInExit, EndIsClean, NoWorkers, Pending, Alive, pool, hist, Harms
<1>1. /\ phase # "terminated" /\ mpc = "loop" /\ mpc' = "exit" /\ busy' = TRUE
      /\ mutex = Free /\ mutex' = Main
      /\ lsock' \in {"closed", "none"} /\ harm' = harm
      /\ UNCHANGED <<shouldWork, held, phase, gone, used, late>>
  BY DEF InterruptEnqueue, StopServer, CloseListening
<1>2. /\ wpc' \in [Workers -> Places]
      /\ \A w \in Workers : wpc'[w] = wpc[w] \/ (wpc[w] = "waiting" /\ wpc'[w] = "woken")
  BY DEF InterruptEnqueue, Pool!NotifyOne, Pool!Waiting, Pool!Move
<1>3. CASE UNCHANGED <<tasks, outcome>>
  BY <1>1, <1>2, <1>3
<1>4. CASE /\ outcome[t] = "new" /\ tasks' = Append(tasks, t)
           /\ outcome' = [outcome EXCEPT ![t] = "pending"]
  <2>1. Types'
    BY <1>1, <1>2, <1>4
  <2>2. Locking'
    BY <1>1, <1>2, <1>4
  <2>3. Phases'
    BY <1>1, <1>2, <1>4
  <2>4. Seen'
    BY <1>1, <1>2, <1>4
  <2>5. OwnersArePending'
    BY <1>1, <1>2, <1>4
  <2>6. PendingIsOwned'
    <3>1. /\ Len(tasks') = Len(tasks) + 1 /\ tasks'[Len(tasks) + 1] = t
          /\ \A i \in DOMAIN tasks : i \in DOMAIN tasks' /\ tasks'[i] = tasks[i]
      BY <1>4
    <3>2. \A w \in Workers : wpc[w] = "run" => wpc'[w] = "run" /\ held'[w] = held[w]
      BY <1>1, <1>2
    <3>3. \A u \in Tasks : outcome'[u] = "pending" => u = t \/ outcome[u] = "pending"
      BY <1>4
    <3>4. Len(tasks) + 1 \in DOMAIN tasks'
      BY <1>4, <3>1
    <3> QED
      BY <3>1, <3>2, <3>3, <3>4
  <2>7. HandlersRun'
    BY <1>1, <1>2, <1>4
  <2>8. LateIsLast'
    BY <1>1, <1>2, <1>4
  <2>9. IdleStaysIdle'
    BY <1>1, <1>2, <1>4
  <2>10. HarmIsInExit'
    BY <1>1, <1>2, <1>4
  <2>11. EndIsClean'
    BY <1>1, <1>2, <1>4
  <2> QED
    BY <2>1, <2>2, <2>3, <2>4, <2>5, <2>6, <2>7, <2>8, <2>9, <2>10, <2>11 DEF LInv
<1> QED
  BY <1>3, <1>4 DEF InterruptEnqueue

\* The destructor of the pool.
LEMMA DestroyPoolLInv == ASSUME LInv, DestroyPool PROVE LInv'
<1> USE LifecycleAssumption DEF LInv, Types, TypeOK, Places, Outcomes, Exiting, Ending, Locking,
      Phases, Seen, OwnersArePending, PendingIsOwned, HandlersRun, LateIsLast, IdleStaysIdle,
      HarmIsInExit, EndIsClean, NoWorkers, Pending, Alive, pool, hist, Harms
<1>1. CASE Pool!StoreFlag
  <2>1. Pool!StoreFlag /\ mpc = "pool" /\ UNCHANGED <<mpc, lsock, gone, used, busy, late, harm>>
    BY <1>1 DEF DestroyPool, Pool!StoreFlag
  <2>2. /\ phase = "live" /\ phase' = "stopping" /\ shouldWork' = FALSE
        /\ UNCHANGED <<mutex, tasks, wpc, held, outcome>>
    BY <1>1 DEF Pool!StoreFlag
  <2>11. Types'
    BY <2>1, <2>2
  <2>12. Locking'
    BY <2>1, <2>2
  <2>13. Phases'
    BY <2>1, <2>2
  <2>14. Seen'
    BY <2>1, <2>2
  <2>15. OwnersArePending'
    BY <2>1, <2>2
  <2>16. PendingIsOwned'
    <3> HIDE DEF Types, TypeOK, Places, Outcomes, Locking, Phases, Seen, OwnersArePending, HandlersRun,
        LateIsLast, IdleStaysIdle, HarmIsInExit, EndIsClean
    <3> QED
      BY <2>2
  <2>17. HandlersRun'
    BY <2>1, <2>2
  <2>18. LateIsLast'
    BY <2>1, <2>2
  <2>19. IdleStaysIdle'
    BY <2>1, <2>2
  <2>20. HarmIsInExit'
    BY <2>1, <2>2
  <2>21. EndIsClean'
    BY <2>1, <2>2
  <2> QED
    BY <2>11, <2>12, <2>13, <2>14, <2>15, <2>16, <2>17, <2>18, <2>19, <2>20, <2>21 DEF LInv
<1>2. CASE Pool!NotifyAll
  BY <1>2 DEF DestroyPool, Pool!NotifyAll, Pool!Awakened, Pool!Waiting
<1>3. CASE Pool!DestroyMembers
  BY <1>3 DEF DestroyPool, Pool!DestroyMembers, Pool!DropQueued, Pool!Fate, Pool!ToSet
<1>4. CASE Pool!Join
  BY <1>4 DEF DestroyPool, Pool!Join
<1> QED
  BY <1>1, <1>2, <1>3, <1>4 DEF DestroyPool

\* Every step keeps the inductive invariant.
LEMMA NextLInv == LInv /\ [Next]_vars => LInv'
<1> SUFFICES ASSUME LInv, [Next]_vars PROVE LInv'
  OBVIOUS
<1>1. CASE \E w \in Workers : Spawn(w) \/ UseShared(w) \/ OpenFile(w)
  BY <1>1, HandlerLInv
<1>2. CASE \E w \in Workers : PoolStep(w) \/ Escape(w) \/ SpuriousWake(w) \/ UseDestroyed(w)
  BY <1>2, PoolStepLInv
<1>3. CASE \E w \in Workers : Take(w)
  BY <1>3, TakeLInv
<1>4. CASE \E w \in Workers : Finish(w)
  BY <1>4, FinishLInv
<1>5. CASE \E t \in Tasks : Dispatch(t)
  BY <1>5, DispatchLInv
<1>6. CASE \E t \in Tasks : InterruptEnqueue(t)
  BY <1>6, InterruptEnqueueLInv
<1>7. CASE DestroyPool
  BY <1>7, DestroyPoolLInv
<1>8. CASE Constructed \/ SpawnFails \/ Unwound \/ ListenStart \/ SetupFails \/ LoopThrows
             \/ Return \/ Uncaught \/ Interrupt \/ InterruptConstruction
             \/ DestroyBinder \/ CloseAgain \/ DestroyClients \/ End
  BY <1>8, MainLInv
<1>9. CASE UNCHANGED vars
  BY <1>9 DEF vars, pool, hist, LInv, Types, TypeOK, Exiting, Ending, Locking, Phases, Seen,
    OwnersArePending, PendingIsOwned, HandlersRun, LateIsLast, IdleStaysIdle, HarmIsInExit,
    EndIsClean, NoWorkers, Pending, Harms
<1> QED
  BY <1>1, <1>2, <1>3, <1>4, <1>5, <1>6, <1>7, <1>8, <1>9 DEF Next, Worker, Exit

\* The inductive invariant holds in every reachable state.
LEMMA LInductive == Spec => []LInv
BY InitLInv, NextLInv, PTL DEF Spec

\* Every state of the process is well typed, for any workers and requests.
THEOREM TypeCorrect == Spec => []TypeOK
<1>1. LInv => TypeOK
  BY DEF LInv, Types
<1> QED
  BY <1>1, LInductive, PTL

\* However many workers the pool has and requests are queued, at most one of them
\* is started after the destructor has stored the flag.
THEOREM FewStartLate == Spec => []AtMostOneStartsLate
<1>1. LInv => AtMostOneStartsLate
  BY DEF LInv, LateIsLast, AtMostOneStartsLate
<1> QED
  BY <1>1, LInductive, PTL

\* An exit without a request in hand harms no request, whatever the workers are
\* doing, and closes descriptor 0 only if no request was ever accepted.
THEOREM IdleExitsSpareRequests == Spec => []IdleExitSparesRequests
<1>1. LInv => IdleExitSparesRequests
  BY DEF LInv, HarmIsInExit, IdleExitSparesRequests
<1> QED
  BY <1>1, LInductive, PTL

\* No process that ends regularly leaves a request half handled.
THEOREM RequestsAreEnded == Spec => []NoRequestCutOff
<1>1. LInv => NoRequestCutOff
  BY DEF LInv, EndIsClean, HandlersRun, NoWorkers, Types, TypeOK, NoRequestCutOff
<1> QED
  BY <1>1, LInductive, PTL
=============================================================================
