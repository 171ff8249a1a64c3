----------------------------- MODULE HttpRouter -----------------------------
(***************************************************************************)
(* One request on a pool thread, from HttpRouter::process_request to the   *)
(* last byte of its answer: the lookup, the filters, the handler, the      *)
(* try/catch around them, and the send loop of HttpResponseWriter::respond *)
(* with the kernel's send buffer and the client that empties it.           *)
(*                                                                         *)
(* What user code does is input: the verdict of each filter, and the steps *)
(* of the handler; a filter or a handler may "escape", which is to throw   *)
(* something that is no std::exception.  A response is Size units, the     *)
(* least one send can take.                                                *)
(***************************************************************************)
EXTENDS Integers, Sequences, SequencesExt

CONSTANTS
  Filters,   \* the verdicts filters may give, in the order they were added
  Handlers,  \* what handlers may do, step by step
  Size,      \* units of a response
  Capacity   \* units the send buffer holds

ASSUME RouterAssumption ==
  /\ Filters \subseteq Seq({"pass", "deny", "throw", "escape"})
  /\ Handlers \subseteq Seq({"respond", "throw", "escape"})
  /\ Size \in Nat \ {0} /\ Capacity \in Nat \ {0}

VARIABLES
  pc,       \* where the thread is
  request,  \* what became of the request line, the lookup and HttpRequest
  filters,  \* the verdicts of the handle's filters
  passed,   \* how many of them were asked and passed
  handler,  \* the steps of the handler
  step,     \* how many of them it has taken
  answers,  \* the status of each call of respond; the last may be going on
  total,    \* write_total_size
  stream,   \* the units handed to the kernel: which answer's, and which of it
  read,     \* how many of them the client has read
  peer,     \* the client's end of the connection
  cut       \* history: respond gave up on a response

input == <<request, filters, handler>>
link == <<read, peer>>
vars == <<pc, input, passed, step, answers, total, stream, link, cut>>

TypeOK ==
  /\ pc \in {"start", "filter", "handler", "send", "poll", "done", "terminated"}
  /\ request \in {"new", "badLine", "undefined", "noHandle", "badRequest", "found"}
  /\ filters \in Filters /\ passed \in 0..Len(filters)
  /\ handler \in Handlers /\ step \in 0..Len(handler)
  /\ answers \in Seq({200, 403, 404, 500})
  /\ total \in 0..Size
  /\ stream \in Seq([answer : Nat, unit : 1..Size])
  /\ read \in 0..Len(stream)
  /\ peer \in {"reading", "closed", "reset", "broken"}
  /\ cut \in BOOLEAN

Init ==
  /\ pc = "start" /\ request = "new"
  /\ filters \in Filters /\ passed = 0
  /\ handler \in Handlers /\ step = 0
  /\ answers = <<>> /\ total = 0
  /\ stream = <<>> /\ read = 0
  /\ peer = "reading"
  /\ cut = FALSE

-----------------------------------------------------------------------------
(* handle_request. *)

\* resp.respond is called with a response of this status.
Answer(status) ==
  /\ pc' = "send"
  /\ answers' = Append(answers, status)
  /\ total' = 0

Silently == pc' = "done" /\ UNCHANGED <<answers, total>>

\* In the catch clause of handle_request already: only its 500 is sent there.
Catching == answers # <<>> /\ Last(answers) = 500

\* Nothing up to the thread's function catches it: std::terminate.
Terminate == pc' = "terminated" /\ UNCHANGED <<answers, total>>

Uncaught == Terminate  \* mutant of Throw

\* An std::exception: handle_request answers 500; one that leaves its catch
\* clause is logged by handle_incoming_request.
Throw == IF Catching THEN Silently ELSE Answer(500)

\* parse_request_line, find_handle and the constructor of HttpRequest.  The lookup
\* is undefined if it splits an empty piece of a query: front() reads nothing.
Route(what) ==
  /\ pc = "start"
  /\ request' = what
  /\ CASE what = "badLine" -> Silently
       [] what = "undefined" -> Terminate
       [] what = "noHandle" -> Answer(404)
       [] what = "badRequest" -> Throw
       [] what = "found" -> pc' = "filter" /\ UNCHANGED <<answers, total>>
  /\ UNCHANGED <<filters, handler, passed, step, stream, link, cut>>

\* Mutant of Refused: the filters are asked until one passes.
AllRefuse == \A i \in DOMAIN filters : filters[i] = "deny"
Refused == filters[passed + 1] = "deny"

\* pass_middlewares: the filters in order, up to the first that does not pass.
Filter ==
  /\ pc = "filter" /\ passed < Len(filters)
  /\ IF filters[passed + 1] = "throw" THEN Throw /\ UNCHANGED passed
     ELSE IF filters[passed + 1] = "escape" THEN Terminate /\ UNCHANGED passed
     ELSE IF Refused THEN Answer(403) /\ UNCHANGED passed
     ELSE passed' = passed + 1 /\ UNCHANGED <<pc, answers, total>>
  /\ UNCHANGED <<input, step, stream, link, cut>>

FiltersPassed ==
  /\ pc = "filter" /\ passed = Len(filters)
  /\ pc' = "handler"
  /\ UNCHANGED <<input, passed, step, answers, total, stream, link, cut>>

Handle ==
  /\ pc = "handler" /\ step < Len(handler)
  /\ step' = step + 1
  /\ CASE handler[step + 1] = "respond" -> Answer(200)
       [] handler[step + 1] = "throw" -> Throw
       [] handler[step + 1] = "escape" -> Terminate
  /\ UNCHANGED <<input, passed, stream, link, cut>>

HandlerReturns ==
  /\ pc = "handler" /\ step = Len(handler)
  /\ Silently
  /\ UNCHANGED <<input, passed, step, stream, link, cut>>

-----------------------------------------------------------------------------
(* HttpResponseWriter::respond. *)

Room == Capacity - (Len(stream) - read)

\* Where respond returns to: the handler called it, or handle_request did.
Caller == IF Last(answers) = 200 THEN "handler" ELSE "done"

FromTheStart(k) == k        \* mutant of Offset: c_str() without the offset
FirstSkipped(k) == total + k + 1  \* mutant of Offset: off by one
Offset(k) == total + k

\* send takes some of what is left, if there is room.  A client that closed its
\* end gets what is sent until its reset arrives.
Send ==
  /\ pc = "send" /\ peer \in {"reading", "closed"}
  /\ \E n \in 1..(Size - total) :
       /\ n <= Room
       /\ stream' = stream \o [k \in 1..n |-> [answer |-> Len(answers), unit |-> Offset(k)]]
       /\ total' = total + n
       /\ pc' = IF total + n = Size THEN Caller ELSE "send"
  /\ UNCHANGED <<input, passed, step, answers, link, cut>>

\* EAGAIN: poll for POLLOUT.
SendBlocks ==
  /\ pc = "send" /\ pc' = "poll"
  /\ peer \in {"reading", "closed"} /\ Room = 0
  /\ UNCHANGED <<input, passed, step, answers, total, stream, link, cut>>

\* There is room, or an error to report: send again.
PollReturns ==
  /\ pc = "poll" /\ pc' = "send"
  /\ Room > 0 \/ peer \in {"reset", "broken"}
  /\ UNCHANGED <<input, passed, step, answers, total, stream, link, cut>>

WaitsForever == FALSE  \* mutant of MaxWaitElapses: poll without a timeout
MaxWaitElapses == Room = 0 /\ peer \in {"reading", "closed"}

\* MAX_WAIT went by: respond returns as it does after the last byte.
PollTimesOut ==
  /\ pc = "poll" /\ pc' = Caller
  /\ MaxWaitElapses
  /\ cut' = TRUE
  /\ UNCHANGED <<input, passed, step, answers, total, stream, link>>

\* ECONNRESET: writing_socket_error.
SendFails ==
  /\ pc = "send" /\ peer = "reset"
  /\ peer' = "broken"
  /\ Throw
  /\ UNCHANGED <<input, passed, step, stream, read, cut>>

\* EPIPE: send without MSG_NOSIGNAL raises SIGPIPE.
BrokenPipe ==
  /\ pc = "send" /\ peer \in {"reset", "broken"}
  /\ pc' = "terminated"
  /\ UNCHANGED <<input, passed, step, answers, total, stream, link, cut>>

Thread ==
  \/ \E what \in {"badLine", "undefined", "noHandle", "badRequest", "found"} : Route(what)
  \/ Filter \/ FiltersPassed \/ Handle \/ HandlerReturns
  \/ Send \/ SendBlocks \/ PollReturns \/ PollTimesOut \/ SendFails \/ BrokenPipe

-----------------------------------------------------------------------------
(* The client. *)

ClientReads ==
  /\ pc # "terminated"
  /\ peer = "reading" /\ read < Len(stream)
  /\ read' = read + 1
  /\ UNCHANGED <<pc, input, passed, step, answers, total, stream, peer, cut>>

ClientLeaves ==
  /\ pc # "terminated"
  /\ \/ peer = "reading" /\ peer' \in {"closed", "reset"}
     \/ peer = "closed" /\ peer' = "reset"
  /\ UNCHANGED <<pc, input, passed, step, answers, total, stream, read, cut>>

Next == Thread \/ ClientReads \/ ClientLeaves

Spec == Init /\ [][Next]_vars

\* The scheduler runs the thread and time passes in poll; the client owes nothing.
FairSpec == Spec /\ WF_vars(Thread)

-----------------------------------------------------------------------------
(* Properties. *)

\* However sends are split, blocked and continued, the client's stream is whole
\* responses one after the other, with no unit lost, repeated or out of place,
\* until respond gives one up.  (After that the handler may answer into the
\* middle of the response that was cut.)
WholeResponses ==
  ~cut => \A i \in DOMAIN stream :
            stream[i] = [answer |-> ((i - 1) \div Size) + 1, unit |-> ((i - 1) % Size) + 1]

\* The first step of the handler that throws or escapes, the first filter that
\* does not pass; or 0.
FirstThrow == SelectInSeq(handler, LAMBDA s : s # "respond")
FirstStop == SelectInSeq(filters, LAMBDA v : v # "pass")

\* The answers the router owes, read off the request alone: one for every
\* outcome but a bad request line, the handler's own, and 500 once, after them,
\* if something threw.
Owed ==
  CASE request = "badLine" -> <<>>
    [] request = "noHandle" -> <<404>>
    [] request = "badRequest" -> <<500>>
    [] OTHER ->
         IF FirstStop # 0 THEN IF filters[FirstStop] = "deny" THEN <<403>> ELSE <<500>>
         ELSE [i \in 1..(IF FirstThrow = 0 THEN Len(handler) ELSE FirstThrow) |->
                 IF i = FirstThrow THEN 500 ELSE 200]

\* A client that stays gets exactly the answers it is owed, all of each unless
\* it stops reading for MAX_WAIT: no filter is skipped, no error goes unanswered
\* and nothing is answered twice.
EveryAnswerGiven ==
  pc = "done" /\ peer = "reading" =>
    /\ answers = Owed
    /\ ~cut => Len(stream) = Size * Len(Owed)

\* User code that is reached escapes: the first filter that does not pass, or,
\* behind filters that all pass, the first step of the handler that does not respond.
Escapes ==
  IF FirstStop # 0 THEN filters[FirstStop] = "escape"
  ELSE FirstThrow # 0 /\ handler[FirstThrow] = "escape"

\* A request ends the process only if its client leaves it, if user code that it
\* reaches escapes, or by the undefined lookup: neither an error of user code
\* or of send nor a client that reads slowly or not at all does, and a handler
\* that would escape cannot behind a filter that refuses or throws.
OnlyTheseKill ==
  pc = "terminated" =>
    \/ peer \in {"reset", "broken"}
    \/ request = "undefined"
    \/ request = "found" /\ Escapes

\* A pool thread gets rid of every request, even if the client never reads.
ThreadReleased == <>(pc \in {"done", "terminated"})
=============================================================================
