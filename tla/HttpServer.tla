----------------------------- MODULE HttpServer -----------------------------
(***************************************************************************)
(* server/HttpServer.cpp: the event loop, its poll set, the record of each *)
(* descriptor (m_active_clients) and the handler a pool thread runs, with  *)
(* the kernel's descriptors and the clients as environment.                *)
(*                                                                         *)
(* A request is a sequence of pieces: "head" (part of the header), "eoh"   *)
(* (the piece that completes CRLFCRLF) and "body" (anything after it).     *)
(* One system call, or one access to a record shared by two threads, is    *)
(* one action.  The pool is the one of TaskPool: a task is the descriptor  *)
(* that handle_incoming_request is called with.                            *)
(***************************************************************************)
EXTENDS Integers, Sequences, SequencesExt, FiniteSetsExt

CONSTANTS
  Conns,      \* the connections clients may open, each once
  Request,    \* the pieces each of them sends
  Length,     \* the Content-Length it declares, 0 if none or not a number
  Malformed,  \* those whose header HttpHeaders or stoi rejects by throwing
  Fds,        \* the descriptors the process may use for connections
  Listen,     \* m_listen_socket
  Stdin,      \* descriptor 0
  StdinOpen,  \* a read of it blocks (a terminal), or finds the end
  ReadMax,    \* pieces that fit the buffer of one read
  Workers,
  NoConn, NoFd, NoClient,
  Garbled     \* the answer to a request read while it was being changed

VARIABLES
  backlog,  \* connections the kernel has completed and nobody has accepted
  sock,     \* the connection behind each descriptor
  inbox,    \* what has arrived and was not read
  sent,     \* how many pieces of its request each client has sent
  peer,     \* what each client has done with its connection
  pollFds,  \* poll_fds; `in` is POLLIN in revents, until the scan gets there
  clients,  \* m_active_clients
  lpc,      \* where the event loop is
  newFd,    \* client_socket, between accept and emplace
  queue, running,  \* the pool
  wpc,      \* where each worker is in handle_incoming_request
  torn,     \* the record it uses, or the map, changed under it: undefined
  view,     \* what it took from the record: whom to answer, and what
  replies,  \* what each client got: the connections whose requests they answer
  fdOf,     \* history: the descriptor each connection was accepted on
  raced,    \* history: a worker went on with a record that changed under it
  up        \* the process has not been terminated

net  == <<backlog, sock, inbox, sent, peer>>
loop == <<pollFds, clients, lpc, newFd>>
work == <<queue, running, wpc, torn, view>>
hist == <<replies, fdOf, raced>>
vars == <<net, loop, work, hist, up>>

Pool == INSTANCE TaskPool WITH Tasks <- Fds, NoTask <- NoFd

Entry == [fd : Fds \cup {Listen}, in : BOOLEAN]
Piece == [from : Conns, kind : {"head", "eoh", "body"}]
Client == [fd : Fds \cup {Stdin}, raw : Seq(Piece), length : Int,
           headerEnd : Nat, inBody : BOOLEAN]

ASSUME ServerAssumption ==
  /\ Fds \subseteq Nat /\ Stdin \notin Fds /\ Listen \notin Fds /\ NoFd \notin Fds
  /\ NoConn \notin Conns /\ Garbled \notin Conns \cup {NoConn} /\ NoClient \notin Client
  /\ Request \in [Conns -> Seq({"head", "eoh", "body"})]
  /\ Length \in [Conns -> Int]
  /\ Malformed \subseteq Conns
  /\ StdinOpen \in BOOLEAN
  /\ ReadMax \in Nat \ {0}

TypeOK ==
  /\ backlog \in Seq(Conns)
  /\ sock \in [Fds -> Conns \cup {NoConn}]
  /\ inbox \in [Conns -> Seq(Piece)]
  /\ sent \in [Conns -> Nat]
  /\ peer \in [Conns -> {"new", "open", "closed"}]
  /\ pollFds \in Seq(Entry)
  /\ clients \in [Fds -> Client \cup {NoClient}]
  /\ lpc \in {"poll", "scan", "accepted", "stdin"}
  /\ newFd \in Fds \cup {NoFd}
  /\ queue \in Seq(Fds)
  /\ running \in [Workers -> Fds \cup {NoFd}]
  /\ wpc \in [Workers -> {"idle", "lookup", "parse", "respond", "retry", "close"}]
  /\ torn \in [Workers -> BOOLEAN]
  /\ view \in [Workers -> [to : Fds \cup {Stdin, NoFd}, from : Conns \cup {NoConn, Garbled}]]
  /\ replies \in [Conns -> Seq(Conns \cup {Garbled})]
  /\ fdOf \in [Conns -> Fds \cup {NoFd}]
  /\ raced \in BOOLEAN /\ up \in BOOLEAN

Fresh(f) == [fd |-> f, raw |-> <<>>, length |-> -1, headerEnd |-> 0, inBody |-> FALSE]
Ghost == Fresh(Stdin)  \* what operator[] inserts: value-initialized, fd is 0
NoView == [to |-> NoFd, from |-> NoConn]

\* server_setup has bound and listen_start has listened.
Init ==
  /\ backlog = <<>>
  /\ sock = [f \in Fds |-> NoConn]
  /\ inbox = [c \in Conns |-> <<>>]
  /\ sent = [c \in Conns |-> 0]
  /\ peer = [c \in Conns |-> "new"]
  /\ pollFds = <<[fd |-> Listen, in |-> FALSE]>>
  /\ clients = [f \in Fds |-> NoClient]
  /\ lpc = "poll"
  /\ newFd = NoFd
  /\ Pool!PoolInit
  /\ wpc = [w \in Workers |-> "idle"]
  /\ torn = [w \in Workers |-> FALSE]
  /\ view = [w \in Workers |-> NoView]
  /\ replies = [c \in Conns |-> <<>>]
  /\ fdOf = [c \in Conns |-> NoFd]
  /\ raced = FALSE
  /\ up = TRUE

Die == up /\ up' = FALSE /\ UNCHANGED <<net, loop, work, replies, fdOf>>

-----------------------------------------------------------------------------
(* The clients. *)

Connect(c) ==
  /\ up
  /\ peer[c] = "new"
  /\ peer' = [peer EXCEPT ![c] = "open"]
  /\ backlog' = Append(backlog, c)
  /\ UNCHANGED <<sock, inbox, sent, loop, work, hist, up>>

\* What a client does after the server closed the connection changes nothing.
Connected(c) == peer[c] = "open" /\ (c \in ToSet(backlog) \/ \E f \in Fds : sock[f] = c)

Send(c) ==
  /\ up /\ Connected(c)
  /\ sent[c] < Len(Request[c])
  /\ sent' = [sent EXCEPT ![c] = @ + 1]
  /\ inbox' = [inbox EXCEPT ![c] = Append(@, [from |-> c, kind |-> Request[c][sent[c] + 1]])]
  /\ UNCHANGED <<backlog, sock, peer, loop, work, hist, up>>

\* The end of the stream or a reset; the pieces that arrived can still be read.
HangUp(c) ==
  /\ up /\ Connected(c)
  /\ peer' = [peer EXCEPT ![c] = "closed"]
  /\ UNCHANGED <<backlog, sock, inbox, sent, loop, work, hist, up>>

-----------------------------------------------------------------------------
(* The event loop. *)

Readable(f) ==
  IF f = Listen THEN backlog # <<>>
  ELSE sock[f] # NoConn /\ (inbox[sock[f]] # <<>> \/ peer[sock[f]] = "closed")

\* poll also returns for POLLNVAL, which the loop does not look at.
Wakes(f) == Readable(f) \/ (f # Listen /\ sock[f] = NoConn)

Poll ==
  /\ up
  /\ lpc = "poll" /\ lpc' = "scan"
  /\ \E i \in DOMAIN pollFds : Wakes(pollFds[i].fd)
  /\ pollFds' = [i \in DOMAIN pollFds |-> [pollFds[i] EXCEPT !.in = Readable(pollFds[i].fd)]]
  /\ UNCHANGED <<net, clients, newFd, work, hist, up>>

Marked == {i \in DOMAIN pollFds : pollFds[i].in}

EndScan ==
  /\ up
  /\ lpc = "scan" /\ lpc' = "poll"
  /\ Marked = {}
  /\ UNCHANGED <<net, pollFds, clients, newFd, work, hist, up>>

\* The loop reaches entry i of poll_fds.
At(i) == up /\ lpc = "scan" /\ i \in Marked /\ \A j \in Marked : i <= j
Visited(i) == [pollFds EXCEPT ![i].in = FALSE]

FreeFds == {f \in Fds : sock[f] = NoConn}  \* accept takes the lowest

Accept(i) ==
  /\ At(i) /\ pollFds[i].fd = Listen
  /\ backlog # <<>>
  /\ \E f \in FreeFds :
       /\ \A g \in FreeFds : f <= g
       /\ newFd' = f
       /\ sock' = [sock EXCEPT ![f] = Head(backlog)]
       /\ fdOf' = [fdOf EXCEPT ![Head(backlog)] = f]
  /\ backlog' = Tail(backlog)
  /\ lpc' = "accepted"
  /\ pollFds' = Visited(i)
  /\ UNCHANGED <<inbox, sent, peer, clients, work, replies, raced, up>>

\* EMFILE: logged, and the scan goes on.
AcceptFails(i) ==
  /\ At(i) /\ pollFds[i].fd = Listen
  /\ FreeFds = {}
  /\ pollFds' = Visited(i)
  /\ UNCHANGED <<net, clients, lpc, newFd, work, hist, up>>

\* A worker whose use of the map (reshaped) or of the record of f overlaps a
\* change of it by another thread has lost what it relies on.
Disturbed(reshaped, f) ==
  [w \in Workers |-> \/ torn[w]
                     \/ wpc[w] = "lookup" /\ reshaped
                     \/ wpc[w] = "parse" /\ running[w] = f]

\* Mutant of Emplaced: the fields of Client in another order.
FieldsSwapped(f) == [Fresh(f) EXCEPT !.fd = -1, !.length = f]

\* emplace keeps what is there: the record of the descriptor's last connection.
Emplaced(f) == IF clients[f] = NoClient THEN Fresh(f) ELSE clients[f]

Register ==
  /\ up
  /\ lpc = "accepted" /\ lpc' = "scan"
  /\ sock[newFd] # NoConn
  /\ pollFds' = Append(pollFds, [fd |-> newFd, in |-> FALSE])
  /\ clients' = [clients EXCEPT ![newFd] = Emplaced(newFd)]
  /\ torn' = Disturbed(clients[newFd] = NoClient, NoFd)
  /\ newFd' = NoFd
  /\ UNCHANGED <<net, queue, running, wpc, view, hist, up>>

\* fcntl fails because a late worker closed the descriptor: socket_flags_error
\* leaves event_loop.
RegisterFails ==
  /\ lpc = "accepted"
  /\ sock[newFd] = NoConn
  /\ Die /\ UNCHANGED raced

\* m_active_clients[fd], as the loop and the workers call it.
Found(f) == IF clients[f] = NoClient THEN Ghost ELSE clients[f]

HeaderEnd(raw) == SelectInSeq(raw, LAMBDA p : p.kind = "eoh")

\* Whose header lines may tell Content-Length (several after a reused descriptor).
Authors(raw) == {raw[i].from : i \in 1..HeaderEnd(raw)}

\* The record after `raw` was read, by the author of its Content-Length.
Parsed(r, raw, d) ==
  IF r.inBody \/ HeaderEnd(raw) = 0 THEN [r EXCEPT !.raw = raw]
  ELSE [r EXCEPT !.raw = raw, !.headerEnd = HeaderEnd(raw),
                 !.length = Length[d], !.inBody = Length[d] # 0]

HeaderOnly(r, q) == q.headerEnd # 0  \* mutant of EndOfConnection: no waiting for a body
BodyOnly(r, q) == r.inBody /\ Len(q.raw) - q.headerEnd >= q.length  \* and one without length 0

\* read_request answers END_OF_CONNECTION; r and q are the record before and after.
EndOfConnection(r, q) ==
  IF r.inBody THEN Len(q.raw) - q.headerEnd >= q.length
              ELSE q.headerEnd # 0 /\ q.length = 0

\* What read(g) returns: pieces, the end of the stream (or a reset), or an error.
Outcome(g) ==
  CASE g = Stdin -> IF StdinOpen THEN "blocks" ELSE "end"
    [] g # Stdin -> CASE sock[g] = NoConn -> "EBADF"
                      [] sock[g] # NoConn /\ inbox[sock[g]] # <<>> -> "pieces"
                      [] OTHER -> IF peer[sock[g]] = "closed" THEN "end" ELSE "EAGAIN"

Reads(i, outcomes) ==
  At(i) /\ pollFds[i].fd # Listen /\ Outcome(Found(pollFds[i].fd).fd) \in outcomes

\* The pieces one read returns.
Taken(c) == SubSeq(inbox[c], 1, IF Len(inbox[c]) < ReadMax THEN Len(inbox[c]) ELSE ReadMax)

Unread(c) == inbox[c]  \* mutant of Left: a peek, not a read
Left(c) == SubSeq(inbox[c], Len(Taken(c)) + 1, Len(inbox[c]))

ReadData(i) ==
  LET f == pollFds[i].fd
      r == Found(f)
      c == sock[r.fd]
      raw == r.raw \o Taken(c)
      header == ~r.inBody /\ HeaderEnd(raw) # 0
  IN /\ Reads(i, {"pieces"})
     /\ \E d \in IF header THEN Authors(raw) ELSE {c} :
          LET q == Parsed(r, raw, d)
          IN /\ header => d \notin Malformed
             /\ clients' = [clients EXCEPT ![f] = q]
             /\ IF EndOfConnection(r, q) THEN Pool!Submit(q.fd)
                                         ELSE UNCHANGED <<queue, running>>
     /\ inbox' = [inbox EXCEPT ![c] = Left(c)]
     /\ torn' = Disturbed(FALSE, f)
     /\ pollFds' = Visited(i)
     /\ UNCHANGED <<backlog, sock, sent, peer, lpc, newFd, wpc, view, hist, up>>

\* header_parsing_error or out_of_range leaves event_loop.  Two headers run
\* together may be as malformed as one.
ReadThrows(i) ==
  LET f == pollFds[i].fd
      r == Found(f)
      c == sock[r.fd]
      raw == r.raw \o Taken(c)
  IN /\ Reads(i, {"pieces"})
     /\ ~r.inBody /\ HeaderEnd(raw) # 0
     /\ Authors(raw) \cap Malformed # {} \/ Cardinality(Authors(raw)) > 1
     /\ Die /\ UNCHANGED raced

\* EAGAIN: the entry was marked for a connection the descriptor no longer has.
ReadNothing(i) ==
  /\ Reads(i, {"EAGAIN"})
  /\ pollFds' = Visited(i)
  /\ UNCHANGED <<net, clients, lpc, newFd, work, hist, up>>

EntryKept(i) == Visited(i)  \* mutant of Dropped
PreviousDropped(i) == RemoveAt(pollFds, i - 1)  \* mutant of Dropped: i-- before erase
Dropped(i) == RemoveAt(pollFds, i)

\* CONNECTION_ABORTED or CONNECTION_ERROR: the end of the stream, a reset, or a
\* descriptor that is closed; through a ghost, the end of descriptor 0.  The
\* entry and the record client.fd names go, the descriptor stays as it is.
ReadEnds(i) ==
  LET f == pollFds[i].fd
      r == Found(f)
  IN /\ Reads(i, {"end", "EBADF"})
     /\ pollFds' = Dropped(i)
     /\ clients' = [clients EXCEPT ![f] = IF r.fd = Stdin THEN r ELSE NoClient]
     /\ torn' = Disturbed(clients' # clients, f)
     /\ UNCHANGED <<net, lpc, newFd, queue, running, wpc, view, hist, up>>

\* A ghost on a terminal: read blocks, and the loop with it.
ReadBlocks(i) ==
  LET f == pollFds[i].fd
  IN /\ Reads(i, {"blocks"})
     /\ clients' = [clients EXCEPT ![f] = Found(f)]
     /\ torn' = Disturbed(clients' # clients, NoFd)
     /\ lpc' = "stdin"
     /\ UNCHANGED <<net, pollFds, newFd, queue, running, wpc, view, hist, up>>

Loop ==
  \/ Poll \/ EndScan \/ Register \/ RegisterFails
  \/ \E i \in DOMAIN pollFds :
       \/ Accept(i) \/ AcceptFails(i)
       \/ ReadData(i) \/ ReadThrows(i) \/ ReadNothing(i) \/ ReadEnds(i) \/ ReadBlocks(i)

-----------------------------------------------------------------------------
(* handle_incoming_request, on a worker. *)

Step(w, here, there) == up /\ wpc[w] = here /\ wpc' = [wpc EXCEPT ![w] = there]

Begin(w) ==
  /\ Pool!Start(w)
  /\ Step(w, "idle", "lookup")
  /\ UNCHANGED <<net, loop, torn, view, hist, up>>

\* operator[] finds the record, or inserts one; the request is empty, or its view
\* is taken.  An insertion reshapes the map under the lookups of other workers.
Lookup(w) ==
  LET r == Found(running[w])
  IN /\ Step(w, "lookup", IF r.raw = <<>> THEN "close" ELSE "parse")
     /\ view' = [view EXCEPT ![w].to = r.fd]
     /\ clients' = [clients EXCEPT ![running[w]] = r]
     /\ torn' = [Disturbed(clients[running[w]] = NoClient, NoFd) EXCEPT ![w] = torn[w]]
     /\ raced' = (raced \/ torn[w])
     /\ UNCHANGED <<net, pollFds, lpc, newFd, queue, running, replies, fdOf, up>>

\* parse_request_line and the copy of raw_http: the request answered is the one
\* the record starts with.
Parse(w) ==
  /\ Step(w, "parse", "respond")
  /\ clients[running[w]] # NoClient /\ clients[running[w]].raw # <<>>
  /\ view' = [view EXCEPT ![w].from = Head(clients[running[w]].raw).from]
  /\ raced' = (raced \/ torn[w])
  /\ UNCHANGED <<net, loop, queue, running, torn, replies, fdOf, up>>

\* Undefined behaviour: besides the record as it is now, the worker may find
\* anything (Garbled), throw (caught), or bring the process down.
UseTorn(w) ==
  /\ torn[w] /\ wpc[w] \in {"lookup", "parse"}
  /\ raced' = TRUE
  /\ \/ Die
     \/ /\ \/ Step(w, wpc[w], "close") /\ UNCHANGED view
           \/ /\ Step(w, wpc[w], "respond")
              /\ view' = [view EXCEPT ![w] = [to |-> running[w], from |-> Garbled]]
        /\ UNCHANGED <<net, loop, queue, running, torn, replies, fdOf, up>>

\* A worker that inserts a missing record while the loop or another worker is in
\* the map: undefined for both, and it may be the end of the process.
InsertRaces(w) ==
  /\ wpc[w] = "lookup" /\ clients[running[w]] = NoClient
  /\ \/ lpc \in {"scan", "accepted"}
     \/ \E v \in Workers \ {w} : wpc[v] = "lookup"
  /\ raced' = TRUE
  /\ Die

\* Mutant of SockOf: one writer for all workers, bound to the newest descriptor.
SharedSock(f) == LET g == {h \in Fds : sock[h] # NoConn} IN IF g = {} THEN NoConn ELSE sock[Max(g)]

SockOf(f) == IF f \in Fds THEN sock[f] ELSE NoConn

\* respond: whoever has the descriptor now gets the answer, if the peer of a
\* closing connection still reads.
Respond(w) ==
  LET c == SockOf(view[w].to)
  IN /\ wpc[w] \in {"respond", "retry"} /\ c # NoConn
     /\ Step(w, wpc[w], "close")
     /\ \/ replies' = [replies EXCEPT ![c] = Append(@, view[w].from)]
        \/ peer[c] = "closed" /\ UNCHANGED replies
     /\ UNCHANGED <<net, loop, queue, running, torn, view, fdOf, raced, up>>

\* EBADF, ENOTSOCK: handle_request catches it and tries to answer 500; what that
\* throws is caught by handle_incoming_request.
RespondFails(w) ==
  /\ SockOf(view[w].to) = NoConn
  /\ Step(w, "respond", "retry") \/ Step(w, "retry", "close")
  /\ UNCHANGED <<net, loop, queue, running, torn, view, hist, up>>

\* After a reset, send without MSG_NOSIGNAL raises SIGPIPE, at once or when the
\* 500 is sent.
BrokenPipe(w) ==
  /\ wpc[w] \in {"respond", "retry"}
  /\ SockOf(view[w].to) # NoConn /\ peer[SockOf(view[w].to)] = "closed"
  /\ Die /\ UNCHANGED raced

Close(w) ==
  /\ Step(w, "close", "idle")
  /\ sock' = [sock EXCEPT ![running[w]] = NoConn]
  /\ inbox' = [c \in Conns |-> IF c = sock[running[w]] THEN <<>> ELSE inbox[c]]
  /\ Pool!Finish(w)
  /\ view' = [view EXCEPT ![w] = NoView]
  /\ torn' = [torn EXCEPT ![w] = FALSE]
  /\ UNCHANGED <<backlog, sent, peer, loop, hist, up>>

Worker(w) ==
  \/ Begin(w) \/ Lookup(w) \/ Parse(w) \/ UseTorn(w) \/ InsertRaces(w)
  \/ Respond(w) \/ RespondFails(w) \/ BrokenPipe(w) \/ Close(w)

-----------------------------------------------------------------------------
Next ==
  \/ \E c \in Conns : Connect(c) \/ Send(c) \/ HangUp(c)
  \/ Loop
  \/ \E w \in Workers : Worker(w)

Spec == Init /\ [][Next]_vars

\* The scheduler runs the loop's thread and every worker, and handlers return.
\* Clients owe nothing.
FairSpec ==
  /\ Spec
  /\ WF_vars(Loop)
  /\ \A w \in Workers : WF_vars(Worker(w))

-----------------------------------------------------------------------------
(* Properties. *)

Users(f) == {c \in Conns : fdOf[c] = f}

\* Descriptor f has been given to c and to no other connection so far.
SoleUser(c, f) == f # NoFd /\ Users(f) = {c}

\* No client gets an answer to a request that came in on another descriptor,
\* whatever is closed, reused, erased or read late.  (On the same descriptor it
\* can: see AnswersOwnRequest.)
AnswerStaysOnDescriptor ==
  \A c \in Conns : \A i \in DOMAIN replies[c] :
    replies[c][i] # Garbled => fdOf[replies[c][i]] = fdOf[c]

\* README.md:12, "Route requests to handlers": what a client gets is the answer
\* to its own request.
AnswersOwnRequest ==
  \A c \in Conns : \A i \in DOMAIN replies[c] : replies[c][i] \in {c, Garbled}

\* The pieces of c's request the server has taken from the kernel.
TakenFrom(c) == SubSeq(Request[c], 1, sent[c] - Len(inbox[c]))

\* All of the header, and of the body as many pieces as were declared.
CompleteIn(c, pieces) ==
  LET h == SelectInSeq(pieces, LAMBDA k : k = "eoh")
  IN h # 0 /\ Len(pieces) - h >= Length[c]

\* Tasks of descriptor f that can still answer: queued, or on a worker.
Unanswered(f) ==
  Cardinality({i \in DOMAIN queue : queue[i] = f}) +
  Cardinality({w \in Workers : running[w] = f /\ wpc[w] # "close"})

\* A handler is never started on a request that is still arriving: when a
\* connection is handed to the pool, its header and its body have been read.
DispatchedComplete ==
  \A c \in Conns, f \in Fds :
    SoleUser(c, f) /\ sock[f] = c /\ Unanswered(f) > 0 => CompleteIn(c, TakenFrom(c))

\* c sends one well-formed request and nothing after it.
Exact(c) ==
  LET h == SelectInSeq(Request[c], LAMBDA k : k = "eoh")
  IN c \notin Malformed /\ h # 0 /\ Len(Request[c]) - h = Length[c]

\* A request is handled once: however it was split into reads, and whatever the
\* poll set reports while a worker has it, there is at most one task or answer.
HandledOnce ==
  \A c \in Conns, f \in Fds :
    Exact(c) /\ SoleUser(c, f) => Unanswered(f) + Len(replies[c]) <= 1

\* As long as no descriptor was used twice the loop knows whom it polls, and
\* reads no other descriptor (a ghost record names descriptor 0).
LoopKnowsItsClients ==
  \A i \in DOMAIN pollFds : \A c \in Conns :
    SoleUser(c, pollFds[i].fd) =>
      clients[pollFds[i].fd] # NoClient /\ clients[pollFds[i].fd].fd = pollFds[i].fd

\* It takes two for undefined behaviour, or for the end of the process: with one
\* well-behaved connection so far (it stays, and sends one request and no more)
\* no thread ever uses a record or the map while another changes it, nothing is
\* closed twice and no answer breaks a pipe, however the request is split, read
\* and polled.  With two connections nothing is safe: accepting one changes the
\* map under the lookup for the other.
OneClientIsSafe ==
  raced \/ ~up => \/ \E c \in Conns : sent[c] > 0 /\ ~Exact(c)
                  \/ \E c \in Conns : peer[c] = "closed"
                  \/ \E c, d \in Conns : c # d /\ fdOf[c] # NoFd /\ fdOf[d] # NoFd

AllSent(c) == sent[c] = Len(Request[c]) /\ CompleteIn(c, Request[c]) /\ c \notin Malformed

\* A client that sends its whole request on a descriptor nobody had before, and
\* stays, gets an answer however it was split into reads, unless the process
\* ends, a race goes wrong, or the loop waits for descriptor 0: a record that
\* a late worker inserted for another connection's descriptor makes it read a
\* terminal there, and nobody is polled any more.
CompleteRequestsAnswered ==
  \A c \in Conns :
    (SoleUser(c, fdOf[c]) /\ AllSent(c))
      ~> (replies[c] # <<>> \/ peer[c] = "closed" \/ raced \/ ~up \/ lpc = "stdin")

\* A descriptor is lost (never closed, and never polled again) only when its
\* client hung up: whatever entries are dropped and whatever is closed late or
\* used again, the loop has an entry for every connection whose client stays,
\* unless an earlier connection left it a ghost record.
StayersPolled ==
  \A f \in Fds :
    /\ sock[f] # NoConn /\ peer[sock[f]] = "open"
    /\ clients[f] # Ghost
    => f = newFd \/ \E i \in DOMAIN pollFds : pollFds[i].fd = f
=============================================================================
