----------------------------- MODULE Lifecycle -----------------------------
(***************************************************************************)
(* The life of a server process, as its main thread sees it: the first     *)
(* app() builds HttpServer and its pool, listen_start sets up the socket   *)
(* and runs the loop, and SIGINT, or main returning after an exception,    *)
(* makes exit destroy the static objects while the pool's threads run.     *)
(*                                                                         *)
(* The pool is all of ThreadPool; the loop is only its calls of            *)
(* enqueue_detach, and a handler its use of what exit destroys.            *)
(***************************************************************************)
EXTENDS Naturals, Sequences

CONSTANTS Workers,  \* threads the pool may have; it may have fewer, or none
          Tasks,    \* requests that may be handed to it
          NoTask, Free,
          Main      \* the main thread, as the owner of the pool's mutex

ASSUME LifecycleAssumption ==
  /\ Free \notin Workers /\ Main \notin Workers \cup {Free}
  /\ NoTask \notin Tasks
  /\ Workers \cap {"stdin", "none", "open", "closed"} = {}

VARIABLES
  mutex, tasks, shouldWork, wpc, held, outcome, phase,  \* the pool
  mpc,       \* where the main thread is
  lsock,     \* what m_listen_socket names now: descriptor 0 (its initial value), none
             \* (socket failed), the listening socket, nothing any more ("closed"), or
             \* a file a handler opened since
  gone,      \* the objects exit has destroyed
  binderOld, \* HttpBinder::instance() was built before HttpServer::instance()
  used,      \* the handlers that are done with the map and the binder
  signaled,  \* SIGINT was delivered (once; a second one is not modelled)
  busy,      \* history: a request was queued or running when exit began
  missed,    \* history: a worker was about to wait when the flag was stored
  late,      \* history: tasks started after the flag was stored
  harm       \* history: what was used after its destruction, or closed that was
             \* somebody else's

pool == <<mutex, tasks, shouldWork, wpc, held, outcome, phase>>
hist == <<busy, missed, late, harm>>
vars == <<pool, mpc, lsock, gone, binderOld, used, signaled, hist>>

Pool == INSTANCE ThreadPool WITH Detached <- Tasks, Void <- {}

\* The pool's mutex, flag and deque; a task taken from that deque; the map of
\* clients or the binder; descriptor 0; the file of a handler.
Harms == {"members", "task", "tables", "stdin", "file"}

TypeOK ==
  /\ mutex \in Workers \cup {Free, Main}
  /\ tasks \in Seq(Tasks) /\ held \in [Workers -> Tasks \cup {NoTask}]
  /\ phase \in {"live", "stopping", "notified", "joining", "gone", "terminated"}
  /\ mpc \in {"constructing", "unwinding", "ready", "loop", "threw", "stuck",
              "exit", "closed", "pool", "ended"}
  /\ lsock \in {"stdin", "none", "open", "closed"} \cup Workers
  /\ gone \subseteq {"binder", "map"} /\ used \subseteq Workers
  /\ late \in Nat
  /\ harm \subseteq Harms

\* Until it was spawned a worker is as good as exited: nobody has to join it.
Init ==
  /\ mutex = Free /\ tasks = <<>> /\ shouldWork = TRUE
  /\ wpc = [w \in Workers |-> "exited"]
  /\ held = [w \in Workers |-> NoTask]
  /\ outcome = [t \in Tasks |-> "new"]
  /\ phase = "live"
  /\ mpc = "constructing" /\ lsock = "stdin"
  /\ gone = {} /\ binderOld \in BOOLEAN /\ used = {}
  /\ signaled = FALSE
  /\ busy = FALSE /\ missed = FALSE /\ late = 0 /\ harm = {}

Alive == phase # "terminated"
NoWorkers == \A w \in Workers : wpc[w] = "exited"

\* The main thread goes from one place to another, and does nothing else to the pool.
MainStep(here, there) == Alive /\ mpc = here /\ mpc' = there

-----------------------------------------------------------------------------
(* app() for the first time: the constructors of HttpServer and ThreadPool. *)

Spawn(w) ==
  /\ MainStep("constructing", "constructing")
  /\ wpc[w] = "exited"
  /\ wpc' = [wpc EXCEPT ![w] = "start"]
  /\ UNCHANGED <<mutex, tasks, shouldWork, held, outcome, phase,
                 lsock, gone, binderOld, used, signaled, hist>>

\* threads_count is reached.
Constructed ==
  /\ MainStep("constructing", "ready")
  /\ UNCHANGED <<pool, lsock, gone, binderOld, used, signaled, hist>>

\* std::thread throws: what was built is destroyed, the members and then the
\* threads that run already, which are joined.  The flag is not stored, the
\* destructor's body does not run.
SpawnFails ==
  /\ MainStep("constructing", "unwinding")
  /\ UNCHANGED <<pool, lsock, gone, binderOld, used, signaled, hist>>

Unwound ==
  /\ MainStep("unwinding", "ended")
  /\ NoWorkers
  /\ UNCHANGED <<pool, lsock, gone, binderOld, used, signaled, hist>>

-----------------------------------------------------------------------------
(* listen_start. *)

ListenStart ==
  /\ MainStep("ready", "loop")
  /\ lsock' = "open"
  /\ UNCHANGED <<pool, gone, binderOld, used, signaled, hist>>

\* socket fails, or setsockopt, bind or listen, which leaves the socket open.
SetupFails ==
  /\ MainStep("ready", "threw")
  /\ lsock' \in {"none", "open"}
  /\ UNCHANGED <<pool, gone, binderOld, used, signaled, hist>>

\* Mutant of Dispatch: exit is called on another thread, the loop runs on.
DispatchMeanwhile(t) ==
  /\ mpc \in {"loop", "exit", "closed", "pool"}
  /\ Pool!EnqueueTask(t)
  /\ UNCHANGED <<mpc, lsock, gone, binderOld, used, signaled, hist>>

Dispatch(t) ==
  /\ mpc = "loop"
  /\ Pool!EnqueueTask(t)
  /\ UNCHANGED <<mpc, lsock, gone, binderOld, used, signaled, hist>>

\* An error of poll, or of one client, leaves event_loop.
LoopThrows ==
  /\ MainStep("loop", "threw")
  /\ UNCHANGED <<pool, lsock, gone, binderOld, used, signaled, hist>>

-----------------------------------------------------------------------------
(* How the end begins. *)

Pending == {t \in Tasks : outcome[t] = "pending"}

BeginExit == mpc' = "exit" /\ busy' = (Pending # {}) /\ UNCHANGED <<missed, late>>

\* main returns: it never called listen_start, or caught what that threw.
Return ==
  /\ Alive /\ mpc \in {"ready", "threw"}
  /\ BeginExit
  /\ UNCHANGED <<pool, lsock, gone, binderOld, used, signaled, harm>>

\* It does not catch it: std::terminate.
Uncaught ==
  /\ Alive /\ mpc = "threw" /\ phase' = "terminated"
  /\ UNCHANGED <<mutex, tasks, shouldWork, wpc, held, outcome,
                 mpc, lsock, gone, binderOld, used, signaled, hist>>

\* close(m_listen_socket), by stop_server and by ~HttpServer.
CloseListening ==
  /\ lsock' = IF lsock = "none" THEN "none" ELSE "closed"
  /\ harm' = harm \cup (IF lsock = "stdin" THEN {"stdin"} ELSE {})
                  \cup (IF lsock \in Workers THEN {"file"} ELSE {})

\* sigint_handler runs on the main thread, wherever that is: stop_server, exit.
\* The loop is never resumed; is_running is not read again.
StopServer ==
  /\ Alive /\ ~signaled /\ signaled' = TRUE
  /\ CloseListening

Interrupt ==
  /\ mpc \in {"ready", "loop", "threw"}
  /\ StopServer
  /\ BeginExit
  /\ UNCHANGED <<pool, gone, binderOld, used>>

\* In the middle of enqueue_task, before the push, before or after the notify:
\* the main thread will never unlock m_mutex.
InterruptEnqueue(t) ==
  /\ mpc = "loop" /\ outcome[t] = "new"
  /\ StopServer
  /\ mutex = Free /\ mutex' = Main
  /\ \/ UNCHANGED <<tasks, outcome, wpc>>
     \/ /\ tasks' = Append(tasks, t)
        /\ outcome' = [outcome EXCEPT ![t] = "pending"]
        /\ UNCHANGED wpc \/ Pool!NotifyOne
  /\ mpc' = "exit" /\ busy' = TRUE
  /\ UNCHANGED <<shouldWork, held, phase, gone, binderOld, used, missed, late>>

\* While HttpServer::instance() is being built: the handler's app() waits for
\* that, on the thread that does it.  Undefined; it waits forever or aborts.
InterruptConstruction ==
  /\ Alive /\ ~signaled /\ signaled' = TRUE
  /\ mpc \in {"constructing", "unwinding"} /\ mpc' = "stuck"
  /\ phase' \in {phase, "terminated"}
  /\ UNCHANGED <<mutex, tasks, shouldWork, wpc, held, outcome,
                 lsock, gone, binderOld, used, hist>>

-----------------------------------------------------------------------------
(* exit destroys the static objects in the reverse order of their construction. *)

\* HttpBinder, if it was built after HttpServer; otherwise it goes last, when
\* nobody can use it any more.
DestroyBinder ==
  /\ MainStep("exit", "exit")
  /\ ~binderOld /\ "binder" \notin gone
  /\ gone' = gone \cup {"binder"}
  /\ UNCHANGED <<pool, lsock, binderOld, used, signaled, hist>>

\* The body of ~HttpServer closes what stop_server may have closed already.
CloseAgain ==
  /\ MainStep("exit", "closed")
  /\ binderOld \/ "binder" \in gone
  /\ CloseListening
  /\ UNCHANGED <<pool, gone, binderOld, used, signaled, busy, missed, late>>

\* Its members: m_router and m_active_clients before m_thread_pool.
DestroyClients ==
  /\ MainStep("closed", "pool")
  /\ gone' = gone \cup {"map"}
  /\ UNCHANGED <<pool, lsock, binderOld, used, signaled, hist>>

DestroyPool ==
  /\ mpc = "pool"
  /\ \/ Pool!StoreFlag /\ missed' = (\E w \in Workers : wpc[w] = "sleep")
     \/ (Pool!NotifyAll \/ Pool!DestroyMembers \/ Pool!Join) /\ UNCHANGED missed
  /\ UNCHANGED <<mpc, lsock, gone, binderOld, used, signaled, busy, late, harm>>

End ==
  /\ MainStep("pool", "ended")
  /\ phase = "gone"
  /\ UNCHANGED <<pool, lsock, gone, binderOld, used, signaled, hist>>

Exit == DestroyBinder \/ CloseAgain \/ DestroyClients \/ DestroyPool \/ End

-----------------------------------------------------------------------------
(* The workers: the loop of the pool, and inside task() a request. *)

\* ~ThreadPool, or the unwinding of its constructor, destroys the members before
\* it joins the threads that use them.
MembersGone == phase = "joining" \/ mpc = "unwinding"

PoolStep(w) ==
  /\ Pool!TestPredicate(w) \/ Pool!Sleep(w) \/ Pool!PassCheck(w) \/ Pool!Leave(w)
  /\ harm' = harm \cup (IF MembersGone THEN {"members"} ELSE {})
  /\ UNCHANGED <<mpc, lsock, gone, binderOld, used, signaled, busy, missed, late>>

Escape(w) ==
  /\ Pool!EscapeTask(w)
  /\ UNCHANGED <<mpc, lsock, gone, binderOld, used, signaled, hist>>

SpuriousWake(w) ==
  /\ Pool!SpuriousWake(w)
  /\ UNCHANGED <<mpc, lsock, gone, binderOld, used, signaled, hist>>

Take(w) ==
  /\ Pool!Pop(w)
  /\ late' = IF phase = "live" THEN late ELSE late + 1
  /\ UNCHANGED <<mpc, lsock, gone, binderOld, used, signaled, busy, missed, harm>>

\* The other outcome: the process ends.
UseDestroyed(w) ==
  /\ MembersGone /\ Pool!UsesMembers(w) /\ Pool!Crash
  /\ harm' = harm \cup {IF wpc[w] = "pop" THEN "task" ELSE "members"}
  /\ UNCHANGED <<mpc, lsock, gone, binderOld, used, signaled, busy, missed, late>>

\* handle_incoming_request looks its client up, the router its handle.  What
\* comes of destroyed tables is undefined: the process ends, or goes on.
UseShared(w) ==
  /\ Alive /\ wpc[w] = "run" /\ w \notin used
  /\ used' = used \cup {w}
  /\ harm' = harm \cup (IF gone = {} THEN {} ELSE {"tables"})
  /\ phase' \in IF gone = {} THEN {phase} ELSE {phase, "terminated"}
  /\ UNCHANGED <<mutex, tasks, shouldWork, wpc, held, outcome,
                 mpc, lsock, gone, binderOld, signaled, busy, missed, late>>

\* A handler opens a file and is given the number of the closed listening socket.
OpenFile(w) ==
  /\ Alive /\ w \in used
  /\ lsock = "closed" /\ lsock' = w
  /\ UNCHANGED <<pool, mpc, gone, binderOld, used, signaled, hist>>

\* It closes its file, answers, and returns or throws.
Finish(w) ==
  /\ w \in used
  /\ used' = used \ {w}
  /\ lsock' = IF lsock = w THEN "closed" ELSE lsock
  /\ \E how \in {"returns", "throwsStd"} : Pool!RunTask(w, how)
  /\ UNCHANGED <<mpc, gone, binderOld, signaled, hist>>

Worker(w) ==
  \/ PoolStep(w) \/ Escape(w) \/ Take(w) \/ UseDestroyed(w)
  \/ UseShared(w) \/ OpenFile(w) \/ Finish(w)

-----------------------------------------------------------------------------
Next ==
  \/ \E w \in Workers : Spawn(w) \/ Worker(w) \/ SpuriousWake(w)
  \/ Constructed \/ SpawnFails \/ Unwound \/ ListenStart \/ SetupFails \/ LoopThrows
  \/ \E t \in Tasks : Dispatch(t) \/ InterruptEnqueue(t)
  \/ Return \/ Uncaught \/ Interrupt \/ InterruptConstruction
  \/ Exit

Spec == Init /\ [][Next]_vars

\* The scheduler runs every thread, handlers end, and so does an exit that began.
\* No client has to send anything, and nobody has to press Ctrl-C.
FairSpec == Spec /\ WF_vars(Exit) /\ \A w \in Workers : WF_vars(Worker(w))

-----------------------------------------------------------------------------
(* Properties. *)

\* A process that ends regularly ends with no request half handled: what a worker
\* had taken it has brought to an end, what was queued was dropped whole.
NoRequestCutOff ==
  mpc = "ended" => Pending = {} /\ used = {}

\* The flag stops the pool at once: of the requests queued when it is stored,
\* one may still start, whose worker had read the flag before; the mutex it
\* holds keeps every other worker behind the second read.
AtMostOneStartsLate == late <= 1

\* What an exit does to others.  With no request in hand it harms no request: none
\* is taken from a destroyed deque, no handler meets destroyed tables, no file of
\* one is closed, whatever the workers are doing.  It is not clean: the workers
\* it wakes use the destroyed mutex, flag and deque once more, and if nothing was
\* set up yet it closes descriptor 0; then no request has ever been accepted.
IdleExitSparesRequests ==
  /\ ~busy => harm \subseteq {"members", "stdin"}
  /\ "stdin" \in harm => \A t \in Tasks : outcome[t] = "new"

\* An exit that was begun ends, unless the signal came while the main thread
\* held the pool's mutex, or the flag was stored while a worker was between its
\* predicate and its wait.
ExitCompletes ==
  mpc = "exit" ~> (mpc = "ended" \/ ~Alive \/ mutex = Main \/ missed)

\* A request that was handed to the pool is settled while the loop runs, if
\* there is any worker (hardware_concurrency() may be 0: then there is none).
DispatchedSettle ==
  \A t \in Tasks :
    outcome[t] = "pending" ~> (outcome[t] # "pending" \/ mpc # "loop" \/ ~Alive \/ NoWorkers)
=============================================================================
