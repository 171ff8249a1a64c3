# WebLib in TLA+

WebLib is an HTTP server library: one thread polls sockets and reads requests,
a pool of threads runs the handlers that user code registered. These modules
model the library's own code; TLC checks them on small instances and TLAPS
proves every safety property that holds for every instance. `PROJECT.json` maps every
definition to the lines it models.

    tlc -config ServerSafety.cfg MCHttpServer      # a run
    tlc -config Lifecycle.cfg Lifecycle            # another, of a module without an MC module
    tlapm ThreadPoolProofs.tla                     # a proof

## 1. The system

| Part (files) | State | Operations | Uses, and is used by |
|---|---|---|---|
| ThreadPool (`ThreadPool.hpp`) | deque, mutex, condition variable, stop flag, threads | enqueue, enqueue_detach, clear, worker loop, destructor | called by the loop; its threads run `handle_incoming_request` |
| HttpServer (`HttpServer.cpp/.hpp`) | `poll_fds`, `m_active_clients` (record per descriptor), listening socket, `is_running` | event_loop, read_request, handle_incoming_request, stop_server | the map is used by the loop and by the workers, without a lock |
| HttpRouter (`HttpRouter.cpp`), HttpResponseWriter::respond | none; the socket's send buffer | process_request, handle_request, respond | called by a worker; calls binder, filters, handler |
| HttpBinder, HttpHandle | `m_handles`: processed template -> methods, filters, handler, parameter names | register_handler, register_filter, find_handle, match_path | filled by controllers and filters before `listen_start`, read by workers |
| HttpQuery, utils | parameters of a request | parse_from_string, process_url_str, extract_params, parse_request_line | constructor of HttpRequest |
| HttpHeaders, HttpRequest | headers, cookies, body | parse_from_string, get_header, get_cookie, body_as_json | loop (Content-Length), worker |
| HttpResponse and its builder, Cookie, Query | values | setters, to_string, conversions | handlers |
| HttpFramework | none | `app()`, `sigint_handler`: stop_server, then exit | called first by `main`; the signal interrupts the main thread |

What makes each part correct, and what is hard about it:

- **Pool**: no task lost, run twice or left behind while workers sleep; the
  front of the deque exists when it is taken; destruction ends. Hard: the
  destructor takes no lock, and members are destroyed before the threads join.
- **Server**: a handler runs once, on a whole request, and its answer goes to
  the client that asked. Hard: descriptors are numbers the kernel reuses; the
  worker closes them, the loop keeps their poll entries and records, `revents`
  are a snapshot, and records are shared without a lock.
- **Router**: every request ends, with exactly the answers it is owed, whole
  and in order. Hard: exceptions at every step, partial sends, EAGAIN and a poll
  timeout that looks like success, clients that leave (SIGPIPE).
- **Binder and query**: a request goes to a handle whose template it is an
  instance of, its filters are asked, and parameters get the values written.
  Hard: templates are stored under one string and looked up under another, three
  places split URLs by different rules.

- **Life of the process**: what a worker had taken is brought to an end, an exit
  ends, an exit of an idle server harms no request. Hard: exit runs in a signal handler,
  in the middle of whatever the main thread did, and destroys the objects in an
  order that leaves the pool for last.
- **Messages**: a handler finds what the client sent, its answer is what it asked
  for last, and says its own length. Hard: names with and without capitals, three
  objects whose setters interleave, calls that throw and are caught.

The complete list of hazards is in `PROJECT.json`.

## 2. The modules

| Module | Models | Checked by | Proved in |
|---|---|---|---|
| `TaskPool` | what a pool promises: a queue of tasks and idle workers | (as a property of ThreadPool) | |
| `ThreadPool` | `ThreadPool.hpp` | itself | `ThreadPoolProofs` |
| `HttpServer` | `HttpServer.cpp`; its pool is an instance of `TaskPool` | `MCHttpServer` | `HttpServerProofs`, `HttpServerUseProofs` |
| `HttpRouter` | one request in `HttpRouter.cpp`, `HttpResponse.cpp` (respond) | `MCHttpRouter` | `HttpRouterProofs` |
| `Routes` | pure functions of `HttpBinder.hpp`, `HttpQuery.cpp`, `utils.cpp` | through HttpBinder | with HttpBinder |
| `HttpBinder` | the table of handles and the requests looked up in it | `MCHttpBinder` | `HttpBinderProofs` |
| `Lifecycle` | the process from the first `app()` to its end: `HttpFramework.hpp`, construction, setup, stop and destruction of `HttpServer`; its pool is an instance of `ThreadPool` | itself | `LifecycleProofs` |
| `HttpHeaders` | pure functions of `HttpHeaders.cpp`, `HttpRequest.cpp`, `Query.hpp` | through HttpExchange | with HttpExchange |
| `HttpResponse` | pure functions of `HttpResponse.cpp/.hpp`, `Cookie.cpp` | through HttpExchange | with HttpExchange |
| `HttpExchange` | one request read and one answer made, call by call | `MCHttpExchange` | `HttpExchangeProofs` |

`DataLemmas` has no model: it holds the lemmas about numbers and sequences that several
proofs cite.

The modules meet at interfaces. `ThreadPool` is shown to implement
`TaskPool`, and `HttpServer` changes the pool only through `TaskPool`'s
operations (`Submit`, `Start`, `Finish`). `HttpServer`'s `Respond`,
`RespondFails` and `BrokenPipe` are `HttpRouter`'s behaviours seen from
outside: an answer, a caught error, a signal. `HttpRouter`'s `Route` takes the
outcomes `HttpBinder` can produce as input: a handle, none, one whose parameters
cannot be read, and the undefined lookup (`FindUndefined`). `Lifecycle` takes all of `ThreadPool`,
action by action, and leaves of the loop only its calls of enqueue_detach: what
matters for an exit is where workers are in the pool and what they use.

### ThreadPool

`wpc` is a worker's place in the loop of lines 32-51. A critical section is one
action, except that the flag is read twice and the destructor takes no lock, so
`TestPredicate`, `Sleep`, `PassCheck`/`Leave` and `Pop` are separate while the
worker holds `mutex`. `Sleep` (wait) releases the mutex and blocks in one
step. `SpuriousWake` may happen any time. `phase` follows the destructor:
`StoreFlag`, `NotifyAll`, then the members from the last declared to the first
(`DestroyMembers`: the condition variable's destructor waits until nobody is
blocked, as in the C library), then `Join`. What a worker does after that, until it
has left, is undefined, for it locks the destroyed mutex and reads the destroyed flag
and deque: its steps go on as if they were there (their destructors are trivial but for
the deque's, which leaves it empty), or `UseDestroyed` ends the process. For a worker
that takes from the destroyed deque the end of the process is the only outcome modelled.
`outcome` is what became of a task: a value, an exception, a broken promise
(also for a void function, whose promise is never set), done, logged, lost.

### HttpServer

A request is a sequence of pieces, `head`, `eoh` and `body`; a read returns up
to `ReadMax` of them, so every split of a request into reads is there. The
loop's actions are its system calls: `Poll` takes the snapshot of `revents`,
`At(i)` is the scan's position, `Accept`/`AcceptFails` and then
`Register`/`RegisterFails` (a late worker can close the new descriptor in
between), `ReadData`, `ReadThrows`, `ReadNothing`, `ReadEnds`, `ReadBlocks` for
the outcomes of read_request. `Emplaced` keeps an existing record, `Found` is
`operator[]`, which inserts a record with descriptor 0 (a "ghost") if there is
none. Reading descriptor 0 meets the end of a file or blocks (`StdinOpen`);
input typed there is not modelled.

A worker is idle, then looks up (`Lookup`), reads the record (`Parse`), responds
and closes. The loop and the workers share records and map without a lock. `torn[w]`
says that another thread (the loop, or a worker whose `Lookup` inserts) changed, in the
middle of a worker's use, what it relies on; from then on (`UseTorn`) the worker finds the
record as it is now, or anything (`Garbled`), or throws, or the process ends. A worker that
inserts while the loop or another worker is in the map may also end the process at once
(`InsertRaces`). `raced` remembers that something undefined was used.

Assumed: a handler responds once and ends (HttpRouter has the rest); a
request line is well formed; a client that closes and one that resets are one
event, after which arrived pieces can be read and an answer may reach it, be
lost, or raise SIGPIPE. `Malformed` are requests whose header makes
`HttpHeaders` or `stoi` throw (a header section with no header line is one).
The answers in `replies` are named by the connection whose request was answered.

### HttpRouter

`answers` are the calls of respond with their status, `stream` the units of
them the kernel took. `Send` takes any part of the rest that fits. A full
buffer leads to `SendBlocks` and `poll`, which ends with room, with an error to
report, or after MAX_WAIT (`PollTimesOut`; time is not modelled, so it may go by
whenever the buffer is full, and `cut` remembers it). A reset makes send throw
(ECONNRESET) or raise SIGPIPE. `Throw` is the catch clause of handle_request: 500,
unless it is in that clause already. Verdicts of filters and steps of handlers
are input; `escape` is an exception that is no `std::exception`: it passes both
catch clauses and the pool's, and ends the process (`Terminate`), as does, at worst,
the undefined lookup (`request = "undefined"`).

### Routes and HttpBinder

A URL is what `split` makes of it: segments, with "" where two slashes meet, and query
pieces split at `=`. A template's token has its text after process_url_str (`lit`) and the
name that was in the braces (`par`; "" in braces without a name, `NoName` without braces). A parameter is a whole segment or a whole value, and
keys have no braces. match_path compares the segments that are not empty (`Solid`), each by
its `Place` among them. `find_handle` walks a hash table, so `Find` may return any match.
`Undefined` is `front()` of an empty piece. `Parses` and `Bound` are parse_from_string: it
needs a `?` in both URLs, counts empty segments, and pairs the query by position.

### Lifecycle

`mpc` is where the main thread is: in the constructor, set up, in the loop, in
`exit`, and there after which destruction. `Spawn` starts one worker after the
other, and these work at once; `Constructed` may follow any number of them, so a pool
smaller than `Workers`, or empty (hardware_concurrency() may be 0), is in the model.
`SpawnFails` is std::thread throwing: unwinding joins the threads without the
flag, and hangs if there is one.

SIGINT is delivered to the main thread, which the pool's threads are left out of
only by custom (the kernel prefers the main thread). `Interrupt` is
the handler between two steps of the loop, `InterruptEnqueue` the one inside
enqueue_task, with the mutex locked for good; `InterruptConstruction` enters the
initialization of `HttpServer::instance()` again, on the same thread. The loop is
never resumed, so `is_running` is stored and not read.

`exit` destroys in the reverse order of construction: the binder before or after
the server (`binderOld`: whichever was used first), in the server first its
destructor's body (`CloseAgain`), then the map and the router (`DestroyClients`),
then the pool, whose destructor is `ThreadPool`'s. `UseShared` is the one use
a handler makes of map and binder; once these are destroyed it is undefined: the
process ends or the handler goes on. `lsock` follows the number in
`m_listen_socket`: closed by stop_server, it may be given to a file a handler opens
(`OpenFile`), which `CloseAgain` then closes. Before any setup it holds 0, for the
object is static, so both closes hit descriptor 0 ("stdin"); after a failed `socket` it
is -1 ("none").

`harm` collects what an exit does to others: "members" if a worker uses the pool's mutex,
flag or deque after their destruction (`MembersGone`, as it always does on its way out
if it is not gone yet), "task" if it takes a request from that deque, "tables" if a handler
meets the destroyed map or binder, "file" and "stdin" for the closes just named.

### HttpHeaders, HttpResponse and HttpExchange

A name is its key and whether it is written in lower case throughout, which is
all that `to_lowercase_str` and the tables tell apart; a header line is one of four
forms (no colon, nothing after it, no blank after it, as usual). `HttpHeaders` and
`HttpResponse` are the methods as functions from an object to an object;
`HttpExchange` is one request on the handler's thread: `ReadLine` line by line,
`LineRefused` and `NoHeaders` where parsing throws, then calls of request, builder,
response and cookie in any order until `Respond`. A call that throws (`Threw`) is
caught by the handler or ends in the router's 500; `NotFound` and `Refuse`
are its 404 and 403. `calls` is the history the properties are read off.

A table is a function from names, changed by `Emplaced` (the first value stays) and
`Assigned` (the last one does), as `emplace` and `operator[]` do.

Builder and response share the operators they share in the code. `Build` moves the
response out: strings and table of the builder are empty afterwards, its status
stays. Of the 12 content types and 12 status codes the run uses the ones
that differ in behaviour, a known and an unknown one; the tables differ in names only.

## 3. The runs

`CHECK_DEADLOCK FALSE` everywhere: a poll may wait forever, the pool may be
gone, a request done, the process ended.

| Run | Shows | Bounds |
|---|---|---|
| pool | `FrontIsThere`, `WakeupsCoverQueue`, `PendingHasOneOwner`, refinement `ImplementsTaskPool`, `TasksSettle`, `ShutdownCompletes` | 3 workers, one task of each kind: some sleep, one runs, one is woken |
| server_safety | `DispatchedComplete`, `HandledOnce`, `OneClientIsSafe`, `LoopKnowsItsClients`, `StayersPolled` | 2 connections, 2 descriptors, 2 workers; a split POST and a GET with trailing bytes; a reused descriptor is reached |
| server_reuse | `AnswerStaysOnDescriptor` | 3 connections on 2 descriptors, so accept runs out of them and one is reused |
| server_live | `CompleteRequestsAnswered` | 3 connections on 2 descriptors, 1 worker; one request comes in one piece or in two, and two connections may hang up, so a descriptor is reused late and the loop may read descriptor 0, which blocks; no bodies (see server_post) |
| router | `WholeResponses`, `EveryAnswerGiven`, `OnlyTheseKill`, `ThreadReleased` | all filters and handlers up to 2 steps, each with a normal, a throwing and an escaping step; responses of 3 units, room for 2, so every response is split |
| binder_safety | `RoutedAsAsked`, `BoundAsWritten`, `GuardsStay`, `FirstRegistrationStays` | 6 templates (three with one key, one of them with nameless braces; two that overlap), 14 URLs (slashes doubled or trailing, keys in another order, pieces without a value), 1 filter |
| lifecycle | `NoRequestCutOff`, `AtMostOneStartsLate`, `IdleExitSparesRequests`, `ExitCompletes`, `DispatchedSettle` | up to 2 workers, 2 requests, one SIGINT: one worker may use what is destroyed while another is between its two reads of the flag |
| exchange | `HeaderRead`, `AsCalled`, `Framed` | `MaxEvents` = 4 lines and calls in all: the order of two setters, a build between them, and a call that throws; ints of 3 bits (`IntMax` = 3), long ones of 4 |

What some of the properties mean:

- `WakeupsCoverQueue`: while a worker is blocked, the queue is no longer than
  the set of workers that will still look at it.
- `PendingHasOneOwner`: a future that is not ready has exactly one owner of
  its task, the queue or a worker; so nothing is lost or run twice.
- `ShutdownCompletes` has a precondition, that no worker is between predicate
  and wait when the flag is stored. Without it the destructor can hang: the
  worker misses the notification.
- `HandledOnce` and `DispatchedComplete` speak of connections whose descriptor no
  other had; what happens on a reused one is `AnswersOwnRequest` below. `HandledOnce`
  also asks for one whole request and nothing after it (`Exact`: what follows the first
  end of a header is as long as it says). With more than that in the socket the loop
  dispatches the same record again (the poll entry stays, `HttpServer.cpp:186`).
- `OneClientIsSafe`: with one connection accepted so far, whose client stays and sends
  one well-formed request and no more, no thread uses what another one changes, nothing is
  closed twice and the process goes on, for every split and every wakeup. It is the most
  that can be said: one more connection, and its insertion into `m_active_clients` races
  with the lookup for the first. (What handlers and an undefined lookup can do to the
  process is in HttpRouter; in this module they only answer.)
- `CompleteRequestsAnswered` has exceptions: a client that hung up, a race that went wrong,
  the end of the process, and a loop that waits for descriptor 0. The last is a hang of
  the whole server: a late worker leaves a record with descriptor 0 for a number the kernel
  has given to another connection, and the loop reads the standard input. Without the
  exception TLC finds it.
- `OnlyTheseKill`: a request ends the process only if its client left, if its lookup is
  undefined, or if user code that it gets to throws what is no `std::exception`; a
  handler that would does not if a filter before it refuses or throws.
- `EveryAnswerGiven` compares the router with `Owed`, the answers read off the
  request alone.
- `RoutedAsAsked` compares match_path with `Asks`: there are values for the
  template's parameters that give the URL, up to empty segments. It speaks of templates
  that mean what they say (`Plain`: every pair of braces has a name of its own and is a
  whole segment or value, and no key is written twice). `BoundAsWritten` is the round
  trip: the template filled with the values the handler gets is the request. Its
  precondition `Aligned` (keys in the template's order, empty segments where the template
  has them) is needed: otherwise the request is routed all the same and values go to the
  wrong names.

- `StayersPolled`: erasing one client's entry in the middle of a scan never costs
  another client its own; who has not hung up is still polled.
- `FirstRegistrationStays`: whatever is registered later, an endpoint keeps the
  handler, methods and parameters it was given first. (A second registration of a
  template with parameters is dropped without the exception
  `endpoint_already_set`, for register_handler looks for the raw name, `HttpBinder.hpp:35`,
  and stores under the processed one.)
- `AtMostOneStartsLate`: the second read of the flag (`ThreadPool.hpp:41`) is what
  keeps an exit from waiting for the whole queue. One request can slip through, whose
  worker holds the mutex between the two reads.
- `IdleExitSparesRequests`: an exit that began with no request queued or running takes
  none from the destroyed deque, destroys no table under a handler and closes no
  handler's file. It is not clean: workers use the destroyed mutex, flag and deque
  (`ThreadPool.hpp:34-41`) in every exit in which they are not gone by then, and before
  any setup descriptor 0 is closed, which is harmless to requests only because none was
  accepted. With a request in hand the other harms happen too: the map, the router and the
  binder may be destroyed while a handler uses them, and the second close of the listening
  socket may hit a handler's file.
- `ExitCompletes` names the two cases in which an exit may hang: the main thread was
  interrupted with the pool's mutex locked, or the flag was stored while a worker was
  between its predicate and its wait (as in `ShutdownCompletes`). Both do happen in
  the model; without either disjunct TLC finds the hang.
- `DispatchedSettle`: while the loop runs what it handed over settles, if there is a
  worker at all.
- `HeaderRead` says what get_header gives for every sequence of lines and of the
  handler's own set_header: the first line of a name, unless a handler set the name in
  lower case. What it sets under a name with capitals is stored and never found.
- `AsCalled` compares the response with the last effective call for each of its
  fields, read off the history; a cookie is the one of the moment it was set.
  With a second build the response has what the builder was given since, on top of an
  empty message and table; for that the property is not stated.
- `Framed`: exactly one Content-Length, and that of the body, unless the
  handler set one itself.

Two behaviours the server model contains have no property of their own, for the
repository promises nothing about them: after a request was answered poll returns at
once for the closed descriptor left in `poll_fds` (POLLNVAL, `Wakes`), so the loop
spins; and worker and loop race on `m_active_clients` (`torn`, `raced`).

Runs that end in a violation, each a place where the code departs from its own text:

| Run | Property | What the code does |
|---|---|---|
| server_post | `CompleteRequestsAnswered` | header and body in one read: the body is never counted, the request never answered (`HttpServer.cpp:106`) |
| server_own_answer | `AnswersOwnRequest` | the record of a closed descriptor survives; the next client on it gets the previous answer (`:171`) |
| binder_path | `PathParametersRead` | parameters of a path without a query are answered with 500 (`HttpQuery.cpp:39`) |
| exchange_json | `JsonRead` | a JSON body with its Content-Type is not read, for the code looks for a header of the name `application/json` (`HttpRequest.cpp:45`) |

Two more the models show, without a run: the descriptor of a client that hangs up is
erased from the tables and never closed (`HttpServer.cpp:193`, `Dropped` keeps the
descriptor in use), so accept fails for good when all are used up; and
`tests/cookie_test.cpp:20` and `:52` expect `std::runtime_error` where an empty cookie
throws `empty_cookie` (`Cookie.cpp:12`), a `std::exception`.

Every property of a passing run has a mutant, an operator defined just before the
one it replaces and commented as such, that breaks it.

### Fairness

`ThreadPool!FairSpec`: weak fairness of every worker (the scheduler runs
threads, tasks end) and of a destructor that was entered; nobody has to submit,
clear or destroy. `HttpServer!FairSpec`: weak fairness of the loop and of every
worker while the process is up; clients owe nothing, they may stop anywhere.
(`LiveSpec` of server_live is the same with two limits on the clients that keep the run
small: the one with the longer request stays, and of the two with equal requests one
connects after the other.)
`HttpRouter!FairSpec`: weak fairness of the thread, for which a full buffer
always ends by room, an error, or MAX_WAIT. `Lifecycle!FairSpec`: weak fairness of
every worker and of an exit that began; no client and no signal is owed. The
handlers are assumed to end. No strong fairness is used.

## 4. The proofs

Every invariant and step property that a passing run checks is a theorem, and so is the
refinement of `TaskPool`; only what needs fairness is left to TLC. The proofs use the SMT
solver, Zenon and LS4, and no assumption but the named ones on the constants:

| Assumption | Says |
|---|---|
| `PoolAssumption`, `LifecycleAssumption` | the values for "nobody" and "nothing" are no workers and no tasks; the pool's workers are finitely many; a detached task has no future |
| `ServerAssumption` | descriptors are numbers other than 0 and the listening one; a request is a sequence of pieces, its length any integer; a read takes at least one piece |
| `RouterAssumption` | filters and handlers are sequences of the outcomes named; responses and send buffers have at least one unit |
| `BinderAssumption` | templates and URLs have the shape `split` gives them: a query only after a `?` |
| `RangeAssumption`, `ExchangeAssumption` | the largest int is less than the largest int64_t; `MaxEvents` is a number |

**ThreadPoolProofs.** `FrontIsThere` alone is not inductive: it needs that the mutex
keeps `Clear` and other workers out between predicate and pop. `IInv` therefore adds
to `TypeOK` and `FrontIsThere` that a worker is in the critical section exactly when it
owns the mutex (`Locking`), that what the predicate saw still holds there
(`SeenStillHolds`), that the flag tells the pool's lifetime (`FlagTellsPhase`) and that a
worker holds a task exactly while it runs one (`HoldsWhileRunning`). On top of it
`CoverStep` shows that every step keeps `WakeupsCoverQueue`, by counting seekers with
`FiniteSetTheorems`, and `StepRefines` that every step is a step of `TaskPool` or leaves
its variables alone. `PendingOwned` needs that no task is in the queue or with a worker
twice and that both hold pending tasks only (`OwnedOnce`), next to the fact itself
(`PendingIsOwned`). Results:
`TypeCorrect`, `FrontIsAlwaysThere`, `NoWakeupLost`, `PendingOwned`, `PoolImplemented`.

**HttpServerProofs.** `AnswersStay` says that a client is answered only with
requests that came in on its own descriptor. The invariant follows a piece from the
kernel to the answer: what is behind a descriptor was accepted on it
(`SockIsFdOf`, with `BacklogIsNew` and `NewFdKnown` for accept), an inbox holds its
connection's own pieces (`InboxIsOwn`), a record holds pieces of connections of its
descriptor or is a ghost (`RecordIsLocal`), a worker's view names one of them
(`ViewIsLocal`), and whoever was answered had been accepted (`AnsweredWasAccepted`). Each is
needed for the next; together they are inductive.

**HttpServerUseProofs.** The other four properties of the server speak of descriptors
that one connection had alone, and follow that use from accept to close. Four layers, each
on top of the ones before:

- `UseInv`: what the server still has of a descriptor (a record, a poll entry, a task)
  comes from a connection that had it before the one just accepted (`TouchedWasUsed`), and a
  ghost record is empty (`GhostsAreEmpty`). So a fresh descriptor starts without leftovers.
- `LoopInv`: such a descriptor has one poll entry (`SoleEntry`) and its record names it.
  This gives `ClientsKnown`; with a lemma that only the entry of the client that hung up
  leaves the poll set, `StayersArePolled`.
- `OrderInv`: the record and the inbox of such a connection are, one after the other, what it
  sent, in order (`RecordInOrder`, `InboxInOrder`), and what was parsed of the record is what
  the request says (`RecordParsed`). A task is therefore complete (`DispatchesComplete`).
- `OnceInv`: when an exact request was dispatched nothing of it is left to read, so the loop
  does not dispatch again, and task and answer exclude each other (`OneTask`). That is
  `RequestsHandledOnce`.

`OneClientSafe` stands on all four. As long as there is one connection and it behaves
(`Calm`), the loop will read no descriptor that a worker has (`MarkedIsLoops`) and a task has
its record (`TaskHasRecord`); so no step that tears, closes, erases or throws is possible
(`CalmSteps`), and nothing is torn (`Untorn`).

The races the model has do not disturb this: a worker whose record changed under it
(`torn`) may see anything, throw, or end the process, but what is queued and which
descriptor it works for stay as they are.

**HttpRouterProofs.** `StreamIsWhole` needs the length of the stream: all that was given
of the answers before, plus what respond handed over of the last (`StreamHoldsAnswers`),
and that respond works on the last answer (`SendingLast`). `AnswersGiven` needs what was
answered at every place of the thread, not only at the end: `AnswersAreDue` says it for
each fate of a request and, for one that was found, by filter, by the steps of the handler
or by a throw (`FoundIsAnswered`). `KilledByTheseOnly` rests on the same invariant: where the
thread is in filters and handler tells that none before that place stopped the request, so
the step that escapes is the first that counts.

**HttpBinderProofs.** `BInv` adds to the types that a handle is stored under the processed
text of its own template (`KeysAreTemplates`) and has the filters that were accepted for it
(`GuardsAreFilters`). `FirstStaysRegistered` and `GuardsHold` follow from it. `Routed` and
`BoundIsWritten` rest on facts about the pure functions, for templates and URLs of any
length: what match_path accepts can be written with some values (`MatchAsks`), what is
written so is accepted (`AsksMatch`), and filling in what was read undoes the reading
(`BoundUndoes`). The proof is also where the exact preconditions come from: that a path may
have its empty segments elsewhere than the template, that a fixed key may be repeated, that
braces may have no name.

**HttpExchangeProofs.** `TInv` types the tables, the objects and the history of calls.
`HInv` says of every key what the table has under it,
from the lines and the handler's own settings, while lines are still read (`KeyTold`).
`FInv` says that the builder never has a length and the response only its handler's, so
that to_string writes the one. `AInv` is the largest: response and builder are at every
moment what the calls made on them so far ask for, field by field, until there is a second
build, and the cookie is what its own setters ask for (`CookieTold`); each setter is shown
to disturb the one field it is named for (`Setter`, `Effect`).

**LifecycleProofs.** One invariant, `LInv`, carries all four theorems. What a worker holds
and what is queued are different pending requests (`OwnersArePending`) and nothing else is
pending (`PendingIsOwned`); the pool's critical section and what was seen in it are as
in ThreadPoolProofs, here also with the main thread as an owner of the mutex (`Locking`,
`Seen`); the flag is stored only by an exit (`Phases`). `FewStartLate` needs that a
late request leaves nobody at the front (`LateIsLast`: its worker held the mutex, and
the next one reads the flag); `IdleExitsSpareRequests` that nobody gets a request
once an exit found none (`IdleStaysIdle`), so whoever meets a destroyed table or takes from
the destroyed deque had one before, and that nothing is handed over before the socket is
set up; `RequestsAreEnded` that the members are destroyed before `Join`, which waits
until every worker has left (`EndIsClean`). They hold with SIGINT at any point and any
number of workers, also none.

Model-checked only: what needs fairness, which is out of the prover's reach
(`TasksSettle`, `ShutdownCompletes`, `CompleteRequestsAnswered`, `ThreadReleased`,
`ExitCompletes`, `DispatchedSettle`); and the properties of the runs that end in a
violation, which the code does not have.

## 5. Not modelled

- A second SIGINT, SIGINT once exit has begun, or its delivery to a thread of the pool;
  that the handler logs and allocates, which is not async-signal-safe; that closing a
  socket does not wake a poll on it (the loop is not resumed anyway).
- Text: how responses, cookies and JSON are laid out, `trim`, logging. A cookie that is
  sent always names a SameSite, None unless it was set; the model has it in `CookieText`.
- `as<float>` and `as<double>`, which are `as<int>` but for rounding; `get_method`, which
  takes an unknown method for GET; set_header by type with a value outside the enum, the
  only way to its exception.
- `HttpHeaders::parse_cookie` is never called, so `get_cookie` finds nothing, though the
  README of the library has cookies in requests; there is nothing to model but the dropped
  line (`WithLine`).
- That `get_query` asks in lower case for names stored as the template spells them, so
  that {userId} is never found (`HttpQuery.cpp:169`), is in the model (`get_query`, with such
  a parameter in the run) and has no property; no text says that names have a case.
- Typed input on descriptor 0, several parameters or text around one in a
  segment, request lines with `HTTP` in the path.
- Registration while requests are served (a data race in user code).
- `consts.hpp`, `types.hpp`, `exceptions.hpp`, `RequestType.hpp`, `funcs.hpp`: tables of
  names. `hash.hpp` is not used; `HttpResController` of the README does not exist.
- The examples and tests, as programs; the tests are quoted where the code departs from them.

## 6. Plan

1. Done: every component that keeps state or has behaviour is modelled, and every safety
   property of the runs is proved.
2. Composition: an abstract "one request, its answers" that `HttpRouter` refines and
   `HttpServer` uses, as it uses `TaskPool`; the refinement proved step by step, as
   `PoolImplemented` is.
3. `Lifecycle` against `ThreadPool`: its steps of the pool are that module's actions; that
   its behaviours project to `ThreadPool`'s, with the main thread as the owner, is argued in
   section 2 and could be proved.
