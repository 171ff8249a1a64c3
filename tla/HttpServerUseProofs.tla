------------------------ MODULE HttpServerUseProofs ------------------------
(***************************************************************************)
(* Theorems about HttpServer that follow the use of a descriptor: who had  *)
(* it, which records, poll entries and tasks it left behind, and how much  *)
(* of a request was read.  They rest on the invariant of HttpServerProofs. *)
(***************************************************************************)
EXTENDS HttpServerProofs

\* Descriptor f was given to two connections.
Two(f) == \E c, d \in Users(f) : c # d

\* The server still has something of a connection on f, other than the kernel's socket.
Dispatched(f) == (\E i \in DOMAIN queue : queue[i] = f) \/ (\E w \in Workers : running[w] = f)
Listed(f) == \E i \in DOMAIN pollFds : pollFds[i].fd = f
Touched(f) == Dispatched(f) \/ Listed(f) \/ clients[f] # NoClient

\* Only connections that sent something are in an inbox or in a record.
SendersSent ==
  /\ \A c \in Conns : inbox[c] # <<>> => sent[c] > 0
  /\ \A f \in Fds : clients[f] # NoClient =>
       \A i \in DOMAIN clients[f].raw : sent[clients[f].raw[i].from] > 0

\* The loop has a descriptor only between accept and emplace.
NewFdIsBrief == (lpc = "accepted") = (newFd # NoFd)

\* What the server has of f comes from a user of f, not from the one just accepted.
TouchedWasUsed ==
  \A f \in Fds : Touched(f) => Users(f) # {} /\ (f = newFd => Two(f))

\* The descriptor just accepted is open, unless it had a user before.
AcceptedIsOpen ==
  newFd \in Fds => Users(newFd) # {} /\ (sock[newFd] # NoConn \/ Two(newFd))

\* A record of descriptor 0 is the one operator[] inserted.
GhostsAreEmpty ==
  \A f \in Fds : clients[f] # NoClient /\ clients[f].fd = Stdin => clients[f] = Ghost

UseInv ==
  /\ SendersSent
  /\ NewFdIsBrief
  /\ TouchedWasUsed
  /\ AcceptedIsOpen
  /\ GhostsAreEmpty

\* A descriptor that had one user has at most one poll entry.
SoleEntry ==
  \A f \in Fds : Two(f) \/ \A i, j \in DOMAIN pollFds :
     pollFds[i].fd = f /\ pollFds[j].fd = f => i = j

-----------------------------------------------------------------------------
\* What has arrived and was not read are the last pieces sent, in order.
InboxInOrder ==
  \A c \in Conns :
    /\ sent[c] <= Len(Request[c]) /\ Len(inbox[c]) <= sent[c]
    /\ \A i \in DOMAIN inbox[c] : inbox[c][i].kind = Request[c][sent[c] - Len(inbox[c]) + i]

\* Nothing is read before a connection has its record.
UnreadBefore ==
  \A c \in Conns :
    fdOf[c] = NoFd \/ (newFd \in Fds /\ sock[newFd] = c) => Len(inbox[c]) = sent[c]

\* c sits on f, which it alone had, and has a record.
Recorded(c, f) == SoleUser(c, f) /\ sock[f] = c /\ clients[f] # NoClient /\ clients[f].fd = f

\* The record of such a connection is what was read of its request, in order.
RecordInOrder ==
  \A c \in Conns, f \in Fds : Recorded(c, f) =>
    /\ Len(clients[f].raw) = sent[c] - Len(inbox[c])
    /\ \A i \in DOMAIN clients[f].raw :
         clients[f].raw[i].from = c /\ clients[f].raw[i].kind = Request[c][i]

\* And what was parsed of it is what it says.
RecordParsed ==
  \A c \in Conns, f \in Fds : Recorded(c, f) =>
    /\ clients[f].headerEnd = HeaderEnd(clients[f].raw)
    /\ clients[f].headerEnd # 0 => clients[f].length = Length[c]
    /\ clients[f].inBody = (clients[f].headerEnd # 0 /\ clients[f].length # 0)

\* Somebody can still answer on f.
Pending(f) ==
  \/ \E i \in DOMAIN queue : queue[i] = f
  \/ \E w \in Workers : running[w] = f /\ wpc[w] # "close"

PendingComplete ==
  \A c \in Conns, f \in Fds :
    SoleUser(c, f) /\ sock[f] = c /\ Pending(f) => CompleteIn(c, TakenFrom(c))

OrderInv == InboxInOrder /\ UnreadBefore /\ RecordInOrder /\ RecordParsed /\ PendingComplete

-----------------------------------------------------------------------------
\* When a request that is exact was dispatched, nothing of it is left to come.
AllWasRead ==
  \A c \in Conns, f \in Fds :
    Exact(c) /\ SoleUser(c, f) /\ (Dispatched(f) \/ replies[c] # <<>>) =>
      sent[c] = Len(Request[c]) /\ inbox[c] = <<>>

\* It is in the queue, on a worker, or answered, and nowhere twice.
OneTask ==
  \A c \in Conns, f \in Fds : Exact(c) /\ SoleUser(c, f) =>
    /\ Len(replies[c]) <= 1
    /\ replies[c] # <<>> => ~Pending(f)
    /\ \A i, j \in DOMAIN queue : queue[i] = f /\ queue[j] = f => i = j
    /\ \A v, w \in Workers : running[v] = f /\ running[w] = f => v = w
    /\ \A i \in DOMAIN queue, w \in Workers : ~(queue[i] = f /\ running[w] = f)

OnceInv == AllWasRead /\ OneTask

-----------------------------------------------------------------------------
(* What the steps do to all of this. *)

\* The poll set has the same entries, and the loop is between accept and emplace
\* if it was before.
SameLoop ==
  /\ DOMAIN pollFds' = DOMAIN pollFds
  /\ \A j \in DOMAIN pollFds : pollFds'[j].fd = pollFds[j].fd
  /\ newFd' = newFd /\ (lpc' = "accepted") = (lpc = "accepted")

\* A worker that closes goes on closing.
StillClosing == \A w \in Workers : wpc[w] = "close" => wpc'[w] = "close"

\* Nothing here depends on the rest.
Quiet ==
  SameLoop /\ StillClosing /\ UNCHANGED <<net, clients, queue, running, replies, fdOf>>

\* operator[] is called for a descriptor the server has something of.
Inserts(f) ==
  /\ SameLoop /\ StillClosing /\ UNCHANGED <<net, queue, running, replies, fdOf>>
  /\ Dispatched(f) \/ Listed(f)
  /\ clients' = [clients EXCEPT ![f] = Found(f)]

\* Looking at an entry changes its mark only.
LEMMA VisitedEntries ==
  ASSUME TypeOK, NEW i, At(i), pollFds' = Visited(i)
  PROVE  /\ i \in DOMAIN pollFds /\ lpc = "scan"
         /\ DOMAIN pollFds' = DOMAIN pollFds
         /\ \A j \in DOMAIN pollFds : pollFds'[j].fd = pollFds[j].fd
<1>1. i \in DOMAIN pollFds /\ lpc = "scan"
  BY DEF At, Marked
<1>2. pollFds \in Seq(Entry) /\ pollFds[i] \in Entry
  BY <1>1 DEF TypeOK
<1>3. [pollFds[i] EXCEPT !.in = FALSE].fd = pollFds[i].fd
  BY <1>2 DEF Entry
<1>4. pollFds' = [pollFds EXCEPT ![i] = [pollFds[i] EXCEPT !.in = FALSE]]
  BY DEF Visited
<1> QED
  BY <1>1, <1>3, <1>4

LEMMA DieIsQuiet ==
  ASSUME Die
  PROVE  Quiet
BY DEF Die, Quiet, SameLoop, StillClosing, loop, work

\* The steps of the loop that are not taken up one by one below.
LEMMA LoopKinds ==
  ASSUME IInv, Loop
  PROVE  \/ Quiet \/ Register
         \/ \E f \in Fds : Inserts(f)
         \/ \E i : Accept(i) \/ ReadData(i) \/ ReadEnds(i)
<1>0. TypeOK
  BY DEF IInv
<1>1. CASE Poll
  <2>1. pollFds \in Seq(Entry)
    BY <1>0 DEF TypeOK
  <2>2. \A j \in DOMAIN pollFds : pollFds[j] \in Entry
    BY <2>1
  <2>3. \A j \in DOMAIN pollFds : [pollFds[j] EXCEPT !.in = Readable(pollFds[j].fd)].fd = pollFds[j].fd
    BY <2>2 DEF Entry
  <2>4. /\ DOMAIN pollFds' = DOMAIN pollFds
        /\ \A j \in DOMAIN pollFds : pollFds'[j].fd = pollFds[j].fd
    BY <1>1, <2>3 DEF Poll
  <2> QED
    BY <1>1, <2>4 DEF Poll, Quiet, SameLoop, StillClosing, work, hist
<1>2. CASE EndScan
  BY <1>2 DEF EndScan, Quiet, SameLoop, StillClosing, work, hist
<1>3. CASE RegisterFails
  BY <1>3, DieIsQuiet DEF RegisterFails
<1>4. ASSUME NEW i, AcceptFails(i) PROVE Quiet
  <2>1. At(i) /\ pollFds' = Visited(i)
    BY <1>4 DEF AcceptFails
  <2> QED
    BY <1>0, <1>4, <2>1, VisitedEntries DEF AcceptFails, Quiet, SameLoop, StillClosing, work, hist
<1>5. ASSUME NEW i, ReadThrows(i) PROVE Quiet
  BY <1>5, DieIsQuiet DEF ReadThrows
<1>6. ASSUME NEW i, ReadNothing(i) PROVE Quiet
  <2>1. At(i) /\ pollFds' = Visited(i)
    BY <1>6 DEF ReadNothing, Reads
  <2> QED
    BY <1>0, <1>6, <2>1, VisitedEntries DEF ReadNothing, Quiet, SameLoop, StillClosing, work, hist
<1>7. ASSUME NEW i, ReadBlocks(i) PROVE \E f \in Fds : Inserts(f)
  <2>1. pollFds[i].fd \in Fds /\ i \in DOMAIN pollFds /\ lpc = "scan"
    BY <1>0, <1>7, ReadsClient DEF ReadBlocks
  <2>2. Inserts(pollFds[i].fd)
    BY <1>7, <2>1 DEF ReadBlocks, Inserts, SameLoop, StillClosing, Listed, hist
  <2> QED
    BY <2>1, <2>2
<1> QED
  BY <1>1, <1>2, <1>3, <1>4, <1>5, <1>6, <1>7 DEF Loop

\* The steps of a worker that are not taken up one by one below.
LEMMA WorkerKinds ==
  ASSUME IInv, NEW w \in Workers, Worker(w)
  PROVE  \/ Quiet
         \/ \E f \in Fds : Inserts(f)
         \/ Begin(w) \/ Respond(w) \/ Close(w)
<1>0. TypeOK /\ ViewIsLocal
  BY DEF IInv
<1>1. CASE Lookup(w)
  <2>1. running[w] \in Fds
    BY <1>0, <1>1 DEF Lookup, Step, ViewIsLocal, TypeOK
  <2>2. StillClosing
    BY <1>0, <1>1 DEF Lookup, Step, StillClosing, TypeOK
  <2>3. Inserts(running[w])
    BY <1>1, <2>1, <2>2 DEF Lookup, Inserts, SameLoop, Dispatched
  <2> QED
    BY <2>1, <2>3
<1>2. CASE Parse(w)
  BY <1>0, <1>2 DEF Parse, Step, Quiet, SameLoop, StillClosing, TypeOK, loop
<1>3. CASE UseTorn(w)
  <2>1. CASE Die
    BY <2>1, DieIsQuiet
  <2>2. CASE ~Die
    BY <1>0, <1>3, <2>2 DEF UseTorn, Step, Quiet, SameLoop, StillClosing, TypeOK, loop
  <2> QED
    BY <2>1, <2>2
<1>4. CASE InsertRaces(w) \/ BrokenPipe(w)
  BY <1>4, DieIsQuiet DEF InsertRaces, BrokenPipe
<1>5. CASE RespondFails(w)
  BY <1>0, <1>5 DEF RespondFails, Step, Quiet, SameLoop, StillClosing, TypeOK, loop, hist
<1> QED
  BY <1>1, <1>2, <1>3, <1>4, <1>5 DEF Worker

LEMMA StepKinds ==
  ASSUME IInv, [Next]_vars
  PROVE  \/ Quiet \/ Register
         \/ \E f \in Fds : Inserts(f)
         \/ \E c \in Conns : Connect(c) \/ Send(c) \/ HangUp(c)
         \/ \E i : Accept(i) \/ ReadData(i) \/ ReadEnds(i)
         \/ \E w \in Workers : Begin(w) \/ Respond(w) \/ Close(w)
<1>1. CASE UNCHANGED vars
  BY <1>1 DEF vars, loop, work, hist, Quiet, SameLoop, StillClosing
<1>2. CASE Next
  BY <1>2, LoopKinds, WorkerKinds DEF Next
<1> QED
  BY <1>1, <1>2

-----------------------------------------------------------------------------
(* The others, in the terms of the invariants. *)

\* Who uses a descriptor depends on fdOf alone.
LEMMA SameUsers ==
  ASSUME fdOf' = fdOf
  PROVE  /\ \A f : Users(f)' = Users(f) /\ Two(f)' = Two(f)
         /\ \A c, f : SoleUser(c, f)' = SoleUser(c, f)
BY DEF Users, Two, SoleUser

\* One of two users is not the only one; an only one has no second.
LEMMA SoleIsNotTwo ==
  ASSUME NEW c, NEW f, SoleUser(c, f)
  PROVE  ~Two(f) /\ Users(f) # {} /\ c \in Conns /\ fdOf[c] = f
BY DEF SoleUser, Two, Users

LEMMA AcceptFacts ==
  ASSUME IInv, NEW i, Accept(i)
  PROVE  \E f \in Fds, c \in Conns :
           /\ sock[f] = NoConn /\ sock' = [sock EXCEPT ![f] = c]
           /\ fdOf[c] = NoFd /\ fdOf' = [fdOf EXCEPT ![c] = f]
           /\ c \notin Users(f) /\ Users(f)' = Users(f) \cup {c}
           /\ \A g \in Fds : g # f => Users(g)' = Users(g)
           /\ peer[c] # "new"
           /\ newFd' = f /\ lpc = "scan" /\ lpc' = "accepted"
           /\ DOMAIN pollFds' = DOMAIN pollFds
           /\ \A j \in DOMAIN pollFds : pollFds'[j].fd = pollFds[j].fd
           /\ UNCHANGED <<inbox, sent, peer, clients, queue, running, wpc, replies>>
<1>0. TypeOK
  BY DEF IInv
<1> DEFINE c == Head(backlog)
<1>1. PICK f \in Fds : /\ sock[f] = NoConn /\ newFd' = f /\ sock' = [sock EXCEPT ![f] = c]
                       /\ fdOf' = [fdOf EXCEPT ![c] = f]
  BY DEF Accept, FreeFds
<1>2. c \in Conns /\ 1 \in DOMAIN backlog /\ c = backlog[1]
  <2>1. backlog \in Seq(Conns) /\ backlog # <<>>
    BY <1>0 DEF Accept, TypeOK
  <2> QED
    BY <2>1
<1>3. fdOf[c] = NoFd /\ peer[c] # "new"
  BY <1>2 DEF IInv, BacklogIsNew
<1> HIDE DEF c
<1>4. /\ At(i) /\ pollFds' = Visited(i) /\ lpc' = "accepted"
      /\ UNCHANGED <<inbox, sent, peer, clients, queue, running, wpc, replies>>
  BY DEF Accept, work
<1>5. /\ lpc = "scan" /\ DOMAIN pollFds' = DOMAIN pollFds
      /\ \A j \in DOMAIN pollFds : pollFds'[j].fd = pollFds[j].fd
  BY <1>0, <1>4, VisitedEntries
<1>6. NoFd \notin Fds /\ fdOf \in [Conns -> Fds \cup {NoFd}]
  BY <1>0, ServerAssumption DEF TypeOK
<1>7. /\ c \notin Users(f) /\ Users(f)' = Users(f) \cup {c}
      /\ \A g \in Fds : g # f => Users(g)' = Users(g)
  BY <1>1, <1>2, <1>3, <1>6 DEF Users
<1> QED
  BY <1>1, <1>2, <1>3, <1>4, <1>5, <1>7

LEMMA RegisterFacts ==
  ASSUME IInv, Register
  PROVE  /\ newFd \in Fds /\ sock[newFd] # NoConn
         /\ clients' = [clients EXCEPT ![newFd] = Emplaced(newFd)]
         /\ newFd' = NoFd /\ lpc = "accepted" /\ lpc' = "scan"
         /\ pollFds \in Seq(Entry) /\ DOMAIN pollFds' = 1..(Len(pollFds) + 1)
         /\ \A j \in DOMAIN pollFds : pollFds'[j] = pollFds[j]
         /\ pollFds'[Len(pollFds) + 1].fd = newFd
         /\ UNCHANGED <<net, queue, running, wpc, replies, fdOf>>
<1>1. newFd \in Fds /\ pollFds \in Seq(Entry) /\ lpc = "accepted"
  BY DEF IInv, NewFdKnown, Register, TypeOK
<1> DEFINE e == [fd |-> newFd, in |-> FALSE]
<1>2. pollFds' = Append(pollFds, e) /\ e.fd = newFd
  BY DEF Register
<1> HIDE DEF e
<1>3. /\ DOMAIN pollFds' = 1..(Len(pollFds) + 1)
      /\ \A j \in DOMAIN pollFds : pollFds'[j] = pollFds[j]
      /\ pollFds'[Len(pollFds) + 1] = e
  BY <1>1, <1>2
<1> QED
  BY <1>1, <1>2, <1>3 DEF Register, hist

\* A read takes the first pieces and leaves the others.
LEMMA TakenAndLeft ==
  ASSUME TypeOK, NEW c \in Conns
  PROVE  \E n \in 0..Len(inbox[c]) :
           /\ inbox[c] # <<>> => n > 0
           /\ Taken(c) \in Seq(Piece) /\ Len(Taken(c)) = n
           /\ Left(c) \in Seq(Piece) /\ Len(Left(c)) = Len(inbox[c]) - n
           /\ \A j \in 1..n : Taken(c)[j] = inbox[c][j]
           /\ \A j \in 1..(Len(inbox[c]) - n) : Left(c)[j] = inbox[c][n + j]
<1> DEFINE s == inbox[c]
           n == IF Len(s) < ReadMax THEN Len(s) ELSE ReadMax
<1>1. s \in Seq(Piece) /\ ReadMax \in Nat \ {0}
  BY ServerAssumption DEF TypeOK
<1>2. n \in 0..Len(s) /\ (s # <<>> => n > 0)
  BY <1>1
<1>3. Taken(c) = SubSeq(s, 1, n)
  BY DEF Taken
<1> HIDE DEF n, s
<1>4. /\ SubSeq(s, 1, n) \in Seq(Piece) /\ Len(SubSeq(s, 1, n)) = n
      /\ \A j \in 1..n : SubSeq(s, 1, n)[j] = s[j]
  BY <1>1, <1>2
<1>5. Left(c) = SubSeq(s, n + 1, Len(s))
  BY <1>3, <1>4 DEF Left, s
<1>6. SubSeq(s, n + 1, Len(s)) \in Seq(Piece)
  BY <1>1, <1>2, PartOf
<1>7. Len(SubSeq(s, n + 1, Len(s))) = Len(s) - n
  BY <1>1, <1>2
<1>8. \A j \in 1..(Len(s) - n) : SubSeq(s, n + 1, Len(s))[j] = s[n + j]
  BY <1>1, <1>2
<1> QED
  BY <1>2, <1>3, <1>4, <1>5, <1>6, <1>7, <1>8 DEF s

LEMMA ReadDataFacts ==
  ASSUME IInv, NEW i, ReadData(i)
  PROVE  \E f \in Fds, c \in Conns, d \in Conns :
           LET r == clients[f]
               raw == r.raw \o Taken(c)
               q == Parsed(r, raw, d)
           IN  /\ Listed(f) /\ sock[f] = c /\ fdOf[c] = f /\ inbox[c] # <<>>
               /\ r \in Client /\ r.fd = f /\ q \in Client /\ q.fd = f /\ q.raw = raw
               /\ IF ~r.inBody /\ HeaderEnd(raw) # 0 THEN d \in Authors(raw) ELSE d = c
               /\ clients' = [clients EXCEPT ![f] = q]
               /\ IF EndOfConnection(r, q) THEN queue' = Append(queue, f) ELSE queue' = queue
               /\ inbox' = [inbox EXCEPT ![c] = Left(c)]
               /\ SameLoop
               /\ UNCHANGED <<backlog, sock, sent, peer, running, wpc, replies, fdOf>>
<1> DEFINE f == pollFds[i].fd
           r == Found(f)
           c == sock[r.fd]
           raw == r.raw \o Taken(c)
           header == ~r.inBody /\ HeaderEnd(raw) # 0
<1>1. TypeOK /\ RecordIsLocal /\ Reads(i, {"pieces"})
  BY DEF IInv, ReadData
<1>2. f \in Fds /\ r.fd = f /\ c = sock[f] /\ c \in Conns /\ fdOf[c] = f
  BY <1>1, PiecesAreLocal
<1>3. r = clients[f] /\ r \in Client
  BY <1>1, <1>2, FoundType, ServerAssumption DEF Found, Ghost, Fresh
<1>4. PICK d \in IF header THEN Authors(raw) ELSE {c} :
        /\ clients' = [clients EXCEPT ![f] = Parsed(r, raw, d)]
        /\ IF EndOfConnection(r, Parsed(r, raw, d))
             THEN Pool!Submit(Parsed(r, raw, d).fd) ELSE UNCHANGED <<queue, running>>
  BY DEF ReadData
<1>5. raw \in Seq(Piece)
  <2>1. r.raw \in Seq(Piece) /\ Taken(c) \in Seq(Piece)
    BY <1>1, <1>2, <1>3, TakenLeft DEF Client
  <2> QED
    BY <2>1
<1>6. d \in Conns
  BY <1>2, <1>4, <1>5, AuthorsAreConns
<1>7. Parsed(r, raw, d) \in Client /\ Parsed(r, raw, d).fd = f /\ Parsed(r, raw, d).raw = raw
  <2> HIDE DEF r, raw, f
  <2> QED
    BY <1>2, <1>3, <1>5, <1>6, ParsedType
<1>8. inbox[c] # <<>>
  BY <1>1, <1>2, ServerAssumption DEF Reads, Outcome
<1>9. Listed(f) /\ SameLoop
  <2>1. At(i) /\ pollFds' = Visited(i) /\ UNCHANGED <<lpc, newFd>>
    BY <1>1 DEF ReadData, Reads
  <2> QED
    BY <1>1, <2>1, VisitedEntries DEF Listed, SameLoop
<1>10. /\ inbox' = [inbox EXCEPT ![c] = Left(c)]
       /\ UNCHANGED <<backlog, sock, sent, peer, wpc, replies, fdOf>>
  BY DEF ReadData, hist
<1>11. /\ running' = running
       /\ IF EndOfConnection(r, Parsed(r, raw, d)) THEN queue' = Append(queue, f) ELSE queue' = queue
  <2> DEFINE q == Parsed(r, raw, d)
  <2>1. q.fd = f
    BY <1>7
  <2>2. IF EndOfConnection(r, q) THEN Pool!Submit(q.fd) ELSE UNCHANGED <<queue, running>>
    BY <1>4
  <2> HIDE DEF q, f, r
  <2>3. /\ running' = running
        /\ IF EndOfConnection(r, q) THEN queue' = Append(queue, f) ELSE queue' = queue
    BY <2>1, <2>2 DEF Pool!Submit
  <2> QED
    BY <2>3 DEF q
<1>12. IF header THEN d \in Authors(raw) ELSE d = c
  BY <1>4
<1> QED
  <2> HIDE DEF f, header
  <2>1. r = clients[f]
    BY <1>3
  <2> QED
    BY <1>2, <1>3, <1>4, <1>6, <1>7, <1>8, <1>9, <1>10, <1>11, <1>12 DEF header

LEMMA ReadEndsFacts ==
  ASSUME IInv, NEW i, ReadEnds(i)
  PROVE  LET f == pollFds[i].fd
         IN  /\ f \in Fds /\ i \in DOMAIN pollFds /\ pollFds \in Seq(Entry)
             /\ DOMAIN pollFds' = 1..(Len(pollFds) - 1)
             /\ \A j \in DOMAIN pollFds' : pollFds'[j] = pollFds[IF j < i THEN j ELSE j + 1]
             /\ \/ Found(f).fd = Stdin /\ clients' = [clients EXCEPT ![f] = Found(f)]
                \/ /\ Found(f).fd = f /\ clients' = [clients EXCEPT ![f] = NoClient]
                   /\ sock[f] = NoConn \/ peer[sock[f]] = "closed"
             /\ UNCHANGED <<net, lpc, newFd, queue, running, wpc, replies, fdOf>>
<1> DEFINE f == pollFds[i].fd
           r == Found(f)
<1>1. TypeOK /\ RecordIsLocal /\ Reads(i, {"end", "EBADF"})
  BY DEF IInv, ReadEnds
<1>2. f \in Fds /\ i \in DOMAIN pollFds /\ r.fd \in {f, Stdin} /\ pollFds \in Seq(Entry)
  BY <1>1, ReadsClient, FoundType DEF TypeOK
<1>3. /\ DOMAIN pollFds' = 1..(Len(pollFds) - 1)
      /\ \A j \in DOMAIN pollFds' : pollFds'[j] = pollFds[IF j < i THEN j ELSE j + 1]
  <2> DEFINE s == pollFds
  <2>1. pollFds' = SubSeq(s, 1, i - 1) \o SubSeq(s, i + 1, Len(s))
    BY DEF ReadEnds, Dropped, RemoveAt
  <2>2. s \in Seq(Entry) /\ i \in 1..Len(s)
    BY <1>2
  <2> HIDE DEF s
  <2>3. /\ SubSeq(s, 1, i - 1) \in Seq(Entry) /\ Len(SubSeq(s, 1, i - 1)) = i - 1
        /\ \A j \in 1..(i - 1) : SubSeq(s, 1, i - 1)[j] = s[j]
    BY <2>2
  <2>4. SubSeq(s, i + 1, Len(s)) \in Seq(Entry)
    <3>1. i + 1 \in 1..(Len(s) + 1) /\ Len(s) \in 0..Len(s)
      BY <2>2
    <3> QED
      BY <2>2, <3>1, PartOf
  <2>5. /\ Len(SubSeq(s, i + 1, Len(s))) = Len(s) - i
        /\ \A j \in 1..(Len(s) - i) : SubSeq(s, i + 1, Len(s))[j] = s[i + j]
    BY <2>2
  <2> DEFINE a == SubSeq(s, 1, i - 1)
             b == SubSeq(s, i + 1, Len(s))
  <2>6. /\ a \in Seq(Entry) /\ Len(a) = i - 1 /\ \A j \in 1..(i - 1) : a[j] = s[j]
        /\ b \in Seq(Entry) /\ Len(b) = Len(s) - i
        /\ \A j \in 1..(Len(s) - i) : b[j] = s[i + j]
        /\ pollFds' = a \o b
    BY <2>1, <2>3, <2>4, <2>5
  <2> HIDE DEF a, b
  <2>7. DOMAIN pollFds' = 1..(Len(s) - 1)
    BY <2>2, <2>6
  <2>8. ASSUME NEW j \in 1..(Len(s) - 1), j < i PROVE pollFds'[j] = s[j]
    BY <2>2, <2>6, <2>8
  <2>9. ASSUME NEW j \in 1..(Len(s) - 1), ~(j < i) PROVE pollFds'[j] = s[j + 1]
    <3>1. /\ j - (i - 1) \in 1..(Len(s) - i) /\ i + (j - (i - 1)) = j + 1
          /\ pollFds'[j] = b[j - (i - 1)]
      BY <2>2, <2>6, <2>9
    <3> QED
      BY <2>6, <3>1
  <2> QED
    BY <2>7, <2>8, <2>9 DEF s
<1>4. /\ clients' = [clients EXCEPT ![f] = IF r.fd = Stdin THEN r ELSE NoClient]
      /\ UNCHANGED <<net, lpc, newFd, queue, running, wpc, replies, fdOf>>
  BY DEF ReadEnds, hist
<1>5. r.fd # Stdin => sock[f] = NoConn \/ peer[sock[f]] = "closed"
  BY <1>1, <1>2, ServerAssumption DEF Reads, Outcome
<1> HIDE DEF r
<1> QED
  BY <1>2, <1>3, <1>4, <1>5 DEF r

LEMMA BeginFacts ==
  ASSUME IInv, NEW w \in Workers, Begin(w)
  PROVE  /\ queue \in Seq(Fds) /\ 1 \in DOMAIN queue /\ queue[1] \in Fds
         /\ running[w] = NoFd /\ running' = [running EXCEPT ![w] = queue[1]]
         /\ DOMAIN queue' = 1..(Len(queue) - 1)
         /\ \A j \in DOMAIN queue' : j + 1 \in DOMAIN queue /\ queue'[j] = queue[j + 1]
         /\ wpc[w] = "idle" /\ wpc' = [wpc EXCEPT ![w] = "lookup"]
         /\ SameLoop /\ UNCHANGED <<net, clients, replies, fdOf>>
<1>1. queue \in Seq(Fds) /\ queue # <<>> /\ queue' = Tail(queue)
  BY DEF IInv, TypeOK, Begin, Pool!Start
<1>2. /\ 1 \in DOMAIN queue /\ queue[1] \in Fds /\ Head(queue) = queue[1]
      /\ DOMAIN queue' = 1..(Len(queue) - 1)
      /\ \A j \in DOMAIN queue' : j + 1 \in DOMAIN queue /\ queue'[j] = queue[j + 1]
  BY <1>1
<1>3. /\ running[w] = NoFd /\ running' = [running EXCEPT ![w] = queue[1]]
      /\ wpc[w] = "idle" /\ wpc' = [wpc EXCEPT ![w] = "lookup"]
  BY <1>2 DEF Begin, Pool!Start, Step
<1>4. SameLoop /\ UNCHANGED <<net, clients, replies, fdOf>>
  BY DEF Begin, loop, hist, SameLoop
<1> QED
  BY <1>1, <1>2, <1>3, <1>4

LEMMA RespondFacts ==
  ASSUME IInv, NEW w \in Workers, Respond(w)
  PROVE  LET f == running[w]
             c == sock[f]
         IN  /\ f \in Fds /\ c \in Conns /\ fdOf[c] = f
             /\ wpc[w] \in {"respond", "retry"} /\ wpc' = [wpc EXCEPT ![w] = "close"]
             /\ view[w].from \in Conns \cup {Garbled}
             /\ \/ replies' = [replies EXCEPT ![c] = Append(@, view[w].from)]
                \/ replies' = replies
             /\ SameLoop /\ UNCHANGED <<net, clients, queue, running, fdOf>>
<1>1. TypeOK /\ ViewIsLocal /\ SockIsFdOf
  BY DEF IInv
<1>2. /\ wpc[w] \in {"respond", "retry"} /\ wpc' = [wpc EXCEPT ![w] = "close"]
      /\ SockOf(view[w].to) # NoConn
      /\ \/ replies' = [replies EXCEPT ![SockOf(view[w].to)] = Append(@, view[w].from)]
         \/ replies' = replies
  BY DEF Respond, Step
<1>3. running[w] \in Fds /\ view[w].to = running[w]
  BY <1>1, <1>2, ServerAssumption DEF ViewIsLocal, SockOf, TypeOK
<1>4. SockOf(view[w].to) = sock[running[w]]
  BY <1>3 DEF SockOf
<1>5. sock[running[w]] \in Conns /\ fdOf[sock[running[w]]] = running[w]
  BY <1>1, <1>2, <1>3, <1>4 DEF SockIsFdOf, TypeOK
<1>6. view[w].from \in Conns \cup {Garbled}
  BY <1>1, <1>2 DEF ViewIsLocal, TypeOK
<1>7. SameLoop /\ UNCHANGED <<net, clients, queue, running, fdOf>>
  BY DEF Respond, loop, SameLoop
<1> QED
  BY <1>2, <1>3, <1>4, <1>5, <1>6, <1>7

LEMMA CloseFacts ==
  ASSUME IInv, NEW w \in Workers, Close(w)
  PROVE  LET f == running[w]
         IN  /\ f \in Fds
             /\ wpc[w] = "close" /\ wpc' = [wpc EXCEPT ![w] = "idle"]
             /\ running' = [running EXCEPT ![w] = NoFd] /\ queue' = queue
             /\ sock' = [sock EXCEPT ![f] = NoConn]
             /\ inbox' = [c \in Conns |-> IF c = sock[f] THEN <<>> ELSE inbox[c]]
             /\ SameLoop /\ UNCHANGED <<backlog, sent, peer, clients, replies, fdOf>>
<1>1. wpc[w] = "close" /\ wpc' = [wpc EXCEPT ![w] = "idle"]
  BY DEF Close, Step
<1>2. running[w] \in Fds
  BY <1>1 DEF IInv, ViewIsLocal, TypeOK
<1> QED
  BY <1>1, <1>2 DEF Close, Pool!Finish, loop, hist, SameLoop

-----------------------------------------------------------------------------
(* UseInv. *)

LEMMA InitUse == Init => UseInv
<1> SUFFICES ASSUME Init PROVE UseInv
  OBVIOUS
<1>1. /\ NoFd \notin Fds /\ Listen \notin Fds
      /\ \A f \in Fds : Users(f) = {}
  BY ServerAssumption DEF Init, Users
<1>2. \A f \in Fds : ~Touched(f)
  <2>1. \A i \in DOMAIN pollFds : pollFds[i].fd = Listen
    BY DEF Init
  <2> QED
    BY <1>1, <2>1 DEF Init, Pool!PoolInit, Touched, Dispatched, Listed
<1>3. SendersSent /\ GhostsAreEmpty
  BY DEF Init, SendersSent, GhostsAreEmpty
<1>4. NewFdIsBrief /\ AcceptedIsOpen
  BY <1>1 DEF Init, NewFdIsBrief, AcceptedIsOpen
<1> QED
  BY <1>2, <1>3, <1>4 DEF UseInv, TouchedWasUsed

\* A record that operator[] or emplace inserts holds nothing yet.
LEMMA InsertedIsEmpty ==
  ASSUME IInv, NEW f \in Fds
  PROVE  /\ Ghost # NoClient /\ Ghost.fd = Stdin /\ Ghost.raw = <<>>
         /\ Fresh(f) # NoClient /\ Fresh(f).fd = f /\ Fresh(f).raw = <<>>
         /\ Found(f) # NoClient
         /\ clients[f] # NoClient => Found(f) = clients[f] /\ Emplaced(f) = clients[f]
         /\ clients[f] = NoClient => Found(f) = Ghost /\ Emplaced(f) = Fresh(f)
<1>1. Ghost \in Client /\ Fresh(f) \in Client
  BY DEF Ghost, Fresh, Client
<1> QED
  BY <1>1, ServerAssumption DEF Found, Emplaced, Ghost, Fresh

\* Records change in these ways only.
LEMMA ClientsChange ==
  ASSUME IInv, [Next]_vars
  PROVE  \/ clients' = clients
         \/ \E f \in Fds :
              \/ clients' = [clients EXCEPT ![f] = Found(f)]
              \/ clients' = [clients EXCEPT ![f] = Emplaced(f)]
              \/ clients' = [clients EXCEPT ![f] = NoClient]
              \/ \E q \in Client, c \in Conns :
                   /\ clients' = [clients EXCEPT ![f] = q] /\ q.fd = f
                   /\ clients[f] \in Client /\ q.raw = clients[f].raw \o Taken(c)
                   /\ inbox[c] # <<>>
<1>1. CASE Quiet
  BY <1>1 DEF Quiet
<1>2. CASE Register
  BY <1>2, RegisterFacts
<1>3. ASSUME NEW f \in Fds, Inserts(f) PROVE clients' = [clients EXCEPT ![f] = Found(f)]
  BY <1>3 DEF Inserts
<1>4. ASSUME NEW c \in Conns, Connect(c) \/ Send(c) \/ HangUp(c) PROVE clients' = clients
  BY <1>4 DEF Connect, Send, HangUp, loop
<1>5. ASSUME NEW i, Accept(i) PROVE clients' = clients
  BY <1>5, AcceptFacts
<1>6. ASSUME NEW i, ReadData(i)
      PROVE  \E f \in Fds : \E q \in Client, c \in Conns :
                   /\ clients' = [clients EXCEPT ![f] = q] /\ q.fd = f
                   /\ clients[f] \in Client /\ q.raw = clients[f].raw \o Taken(c)
                   /\ inbox[c] # <<>>
  <2>1. PICK f \in Fds, c \in Conns, d \in Conns :
          LET raw == clients[f].raw \o Taken(c)
              q == Parsed(clients[f], raw, d)
          IN /\ clients[f] \in Client /\ q \in Client /\ q.fd = f /\ q.raw = raw
             /\ clients' = [clients EXCEPT ![f] = q] /\ inbox[c] # <<>>
    BY <1>6, ReadDataFacts
  <2> QED
    BY <2>1
<1>7. ASSUME NEW i, ReadEnds(i)
      PROVE  \E f \in Fds : \/ clients' = [clients EXCEPT ![f] = Found(f)]
                            \/ clients' = [clients EXCEPT ![f] = NoClient]
  BY <1>7, ReadEndsFacts
<1>8. ASSUME NEW w \in Workers, Begin(w) \/ Respond(w) \/ Close(w) PROVE clients' = clients
  BY <1>8, BeginFacts, RespondFacts, CloseFacts
<1> QED
  BY <1>1, <1>2, <1>3, <1>4, <1>5, <1>6, <1>7, <1>8, StepKinds

LEMMA GhostsStep ==
  ASSUME IInv, GhostsAreEmpty, [Next]_vars
  PROVE  GhostsAreEmpty'
<1>1. Stdin \notin Fds /\ clients \in [Fds -> Client \cup {NoClient}]
  BY ServerAssumption DEF IInv, TypeOK
<1>2. \A f \in Fds : \/ clients'[f] = clients[f] \/ clients'[f] = Found(f)
                     \/ clients'[f] = Emplaced(f) \/ clients'[f] = NoClient
                     \/ clients'[f].fd = f
  BY <1>1, ClientsChange
<1> SUFFICES ASSUME NEW f \in Fds, clients'[f] # NoClient, clients'[f].fd = Stdin
             PROVE  clients'[f] = Ghost
  BY DEF GhostsAreEmpty, Ghost, Fresh
<1> QED
  BY <1>1, <1>2, InsertedIsEmpty DEF GhostsAreEmpty

\* Nobody takes back what it sent.
LEMMA SentGrows ==
  ASSUME IInv, [Next]_vars
  PROVE  /\ \A c \in Conns : sent'[c] >= sent[c]
         /\ \A c \in Conns : inbox'[c] # <<>> => inbox[c] # <<>> \/ sent'[c] > 0
<1>0. TypeOK
  BY DEF IInv
<1>1. sent \in [Conns -> Nat]
  BY <1>0 DEF TypeOK
<1>2. CASE Quiet \/ Register \/ \E f \in Fds : Inserts(f)
  BY <1>1, <1>2, RegisterFacts DEF Quiet, Inserts, net
<1>3. ASSUME NEW c \in Conns, Connect(c) \/ HangUp(c) PROVE UNCHANGED <<sent, inbox>>
  BY <1>3 DEF Connect, HangUp
<1>4. ASSUME NEW c \in Conns, Send(c)
      PROVE  /\ sent' = [sent EXCEPT ![c] = @ + 1]
             /\ \E p : inbox' = [inbox EXCEPT ![c] = Append(@, p)]
  BY <1>4 DEF Send
<1>5. ASSUME NEW i, Accept(i) \/ ReadEnds(i) PROVE UNCHANGED <<sent, inbox>>
  BY <1>5, AcceptFacts, ReadEndsFacts DEF net
<1>6. ASSUME NEW i, ReadData(i)
      PROVE  /\ sent' = sent
             /\ \E c \in Conns : inbox[c] # <<>> /\ inbox' = [inbox EXCEPT ![c] = Left(c)]
  BY <1>6, ReadDataFacts
<1>7. ASSUME NEW w \in Workers, Begin(w) \/ Respond(w) PROVE UNCHANGED <<sent, inbox>>
  BY <1>7, BeginFacts, RespondFacts DEF net
<1>8. ASSUME NEW w \in Workers, Close(w)
      PROVE  /\ sent' = sent
             /\ \A c \in Conns : inbox'[c] = <<>> \/ inbox'[c] = inbox[c]
  BY <1>8, CloseFacts
<1>9. inbox \in [Conns -> Seq(Piece)]
  BY <1>0 DEF TypeOK
<1>10. CASE \E c \in Conns : Send(c)
  <2>1. PICK c \in Conns : /\ sent' = [sent EXCEPT ![c] = @ + 1]
                           /\ \E p : inbox' = [inbox EXCEPT ![c] = Append(@, p)]
    BY <1>4, <1>10
  <2> QED
    BY <1>1, <1>9, <2>1
<1>11. CASE \E i : ReadData(i)
  <2>1. PICK c \in Conns : /\ sent' = sent /\ inbox[c] # <<>>
                           /\ inbox' = [inbox EXCEPT ![c] = Left(c)]
    BY <1>6, <1>11
  <2> QED
    BY <1>1, <1>9, <2>1
<1>12. CASE \E c \in Conns : Connect(c) \/ HangUp(c)
  BY <1>1, <1>3, <1>12
<1>13. CASE \E i : Accept(i) \/ ReadEnds(i)
  BY <1>1, <1>5, <1>13
<1>14. CASE \E w \in Workers : Begin(w) \/ Respond(w)
  BY <1>1, <1>7, <1>14
<1>15. CASE \E w \in Workers : Close(w)
  BY <1>1, <1>8, <1>15
<1> QED
  BY <1>2, <1>10, <1>11, <1>12, <1>13, <1>14, <1>15, StepKinds

LEMMA SendersStep ==
  ASSUME IInv, SendersSent, [Next]_vars
  PROVE  SendersSent'
<1>0. TypeOK /\ InboxIsOwn /\ sent \in [Conns -> Nat] /\ (sent \in [Conns -> Nat])'
  <2>1. TypeOK /\ InboxIsOwn /\ TypeOK'
    BY NextIInv DEF IInv
  <2> QED
    BY <2>1 DEF TypeOK
<1>1. \A c \in Conns : inbox'[c] # <<>> => sent'[c] > 0
  BY <1>0, SentGrows DEF SendersSent
<1>2. ASSUME NEW f \in Fds, clients'[f] # NoClient, NEW j \in DOMAIN clients'[f].raw
      PROVE  sent'[clients'[f].raw[j].from] > 0
  <2>1. clients \in [Fds -> Client \cup {NoClient}]
    BY <1>0 DEF TypeOK
  <2>2. CASE clients'[f] = clients[f]
    <3>1. clients[f].raw \in Seq(Piece)
      BY <1>2, <2>1, <2>2 DEF Client
    <3>2. clients[f].raw[j].from \in Conns
      <4>1. \A k \in DOMAIN clients[f].raw : clients[f].raw[k] \in Piece
        BY <3>1
      <4>2. j \in DOMAIN clients[f].raw
        BY <1>2, <2>2
      <4> QED
        BY <4>1, <4>2 DEF Piece
    <3>3. sent[clients[f].raw[j].from] > 0
      BY <1>2, <2>2 DEF SendersSent
    <3> QED
      BY <1>0, <2>2, <3>2, <3>3, SentGrows
  <2>3. CASE clients'[f].raw = <<>>
    BY <1>2, <2>3
  <2>4. CASE \E q \in Client, c \in Conns :
               /\ clients'[f] = q /\ clients[f] \in Client
               /\ q.raw = clients[f].raw \o Taken(c) /\ inbox[c] # <<>>
    <3>1. PICK q \in Client, c \in Conns :
               /\ clients'[f] = q /\ clients[f] \in Client
               /\ q.raw = clients[f].raw \o Taken(c) /\ inbox[c] # <<>>
      BY <2>4
    <3>2. clients[f].raw \in Seq(Piece) /\ Taken(c) \in Seq(Piece)
      BY <1>0, <3>1, TakenLeft DEF Client
    <3>3. \/ \E k \in DOMAIN clients[f].raw : q.raw[j] = clients[f].raw[k]
          \/ \E k \in DOMAIN Taken(c) : q.raw[j] = Taken(c)[k]
      <4>1. j \in DOMAIN q.raw
        BY <1>2, <3>1
      <4> DEFINE s == clients[f].raw
                 t == Taken(c)
      <4>2. s \in Seq(Piece) /\ t \in Seq(Piece) /\ q.raw = s \o t
        BY <3>1, <3>2
      <4> HIDE DEF s, t
      <4>3. \A k \in DOMAIN (s \o t) :
              \/ \E m \in DOMAIN s : (s \o t)[k] = s[m]
              \/ \E m \in DOMAIN t : (s \o t)[k] = t[m]
        BY <4>2, ConcatParts
      <4>4. \/ \E k \in DOMAIN s : q.raw[j] = s[k]
            \/ \E k \in DOMAIN t : q.raw[j] = t[k]
        BY <4>1, <4>2, <4>3
      <4> QED
        BY <4>4 DEF s, t
    <3>4. CASE \E k \in DOMAIN clients[f].raw : q.raw[j] = clients[f].raw[k]
      <4>1. PICK k \in DOMAIN clients[f].raw : q.raw[j] = clients[f].raw[k]
        BY <3>4
      <4>2. clients[f].raw[k].from \in Conns
        <5>1. \A m \in DOMAIN clients[f].raw : clients[f].raw[m] \in Piece
          BY <3>2
        <5> QED
          BY <4>1, <5>1 DEF Piece
      <4>3. sent[clients[f].raw[k].from] > 0
        BY <3>1, <4>1, ServerAssumption DEF SendersSent
      <4> QED
        BY <1>0, <3>1, <4>1, <4>2, <4>3, SentGrows
    <3>5. CASE \E k \in DOMAIN Taken(c) : q.raw[j] = Taken(c)[k]
      <4>1. q.raw[j].from = c
        <5>1. PICK k \in DOMAIN Taken(c) : q.raw[j] = Taken(c)[k]
          BY <3>5
        <5>2. PICK m \in DOMAIN inbox[c] : Taken(c)[k] = inbox[c][m]
          BY <1>0, <5>1, TakenLeft
        <5> QED
          BY <1>0, <5>1, <5>2 DEF InboxIsOwn
      <4>2. sent[c] > 0
        BY <3>1 DEF SendersSent
      <4> QED
        BY <1>0, <3>1, <4>1, <4>2, SentGrows
    <3> QED
      BY <3>3, <3>4, <3>5
  <2>5. \/ clients' = clients
        \/ \E g \in Fds :
              \/ clients' = [clients EXCEPT ![g] = Found(g)]
              \/ clients' = [clients EXCEPT ![g] = Emplaced(g)]
              \/ clients' = [clients EXCEPT ![g] = NoClient]
              \/ \E q \in Client, c \in Conns :
                   /\ clients' = [clients EXCEPT ![g] = q]
                   /\ clients[g] \in Client /\ q.raw = clients[g].raw \o Taken(c)
                   /\ inbox[c] # <<>>
    BY ClientsChange
  <2>6. \/ clients'[f] = clients[f] \/ clients'[f] = Found(f) \/ clients'[f] = Emplaced(f)
        \/ \E q \in Client, c \in Conns :
               /\ clients'[f] = q /\ clients[f] \in Client
               /\ q.raw = clients[f].raw \o Taken(c) /\ inbox[c] # <<>>
    BY <1>2, <2>1, <2>5
  <2>7. \A r \in {Found(f), Emplaced(f)} : r = clients[f] \/ r.raw = <<>>
    BY InsertedIsEmpty
  <2> QED
    BY <2>2, <2>3, <2>4, <2>6, <2>7
<1> QED
  BY <1>1, <1>2 DEF SendersSent

\* The server has something of a descriptor because it had something of it, or
\* because it has registered it.
LEMMA TouchedStep ==
  ASSUME IInv, [Next]_vars, NEW f \in Fds, Touched(f)'
  PROVE  Touched(f) \/ (Register /\ f = newFd)
<1>0. /\ clients \in [Fds -> Client \cup {NoClient}] /\ running \in [Workers -> Fds \cup {NoFd}]
      /\ NoFd \notin Fds
  BY ServerAssumption DEF IInv, TypeOK
<1>1. CASE Quiet
  BY <1>1 DEF Quiet, SameLoop, Touched, Dispatched, Listed
<1>2. CASE Register
  <2>1. f # newFd => (Listed(f)' => Listed(f))
    BY <1>2, RegisterFacts DEF Listed
  <2>2. Dispatched(f)' => Dispatched(f)
    BY <1>2, RegisterFacts DEF Dispatched
  <2>3. f # newFd => clients'[f] = clients[f]
    BY <1>0, <1>2, RegisterFacts
  <2> QED
    BY <1>2, <2>1, <2>2, <2>3 DEF Touched
<1>3. ASSUME NEW g \in Fds, Inserts(g) PROVE Touched(f)
  <2>1. Touched(g) /\ (Listed(f)' => Listed(f)) /\ (Dispatched(f)' => Dispatched(f))
    BY <1>3 DEF Inserts, SameLoop, Touched, Dispatched, Listed
  <2>2. f # g => clients'[f] = clients[f]
    BY <1>0, <1>3 DEF Inserts
  <2> QED
    BY <2>1, <2>2 DEF Touched
<1>4. ASSUME NEW c \in Conns, Connect(c) \/ Send(c) \/ HangUp(c) PROVE Touched(f)
  BY <1>4 DEF Connect, Send, HangUp, loop, work, Touched, Dispatched, Listed
<1>5. ASSUME NEW i, Accept(i) PROVE Touched(f)
  <2>1. /\ DOMAIN pollFds' = DOMAIN pollFds
        /\ \A j \in DOMAIN pollFds : pollFds'[j].fd = pollFds[j].fd
        /\ UNCHANGED <<clients, queue, running>>
    BY <1>5, AcceptFacts
  <2> QED
    BY <2>1 DEF Touched, Dispatched, Listed
<1>6. ASSUME NEW i, ReadData(i) PROVE Touched(f)
  <2>1. PICK g \in Fds, q \in Client :
          /\ Listed(g) /\ clients' = [clients EXCEPT ![g] = q]
          /\ (queue' = Append(queue, g) \/ queue' = queue)
          /\ SameLoop /\ UNCHANGED running
    <3>1. PICK g \in Fds, c \in Conns, d \in Conns :
          LET raw == clients[g].raw \o Taken(c)
              q == Parsed(clients[g], raw, d)
          IN /\ Listed(g) /\ q \in Client
             /\ clients' = [clients EXCEPT ![g] = q]
             /\ (queue' = Append(queue, g) \/ queue' = queue)
             /\ SameLoop /\ UNCHANGED running
      BY <1>6, ReadDataFacts
    <3> QED
      BY <3>1
  <2>2. f # g => clients'[f] = clients[f]
    BY <1>0, <2>1
  <2>3. Listed(f)' => Listed(f)
    BY <2>1 DEF SameLoop, Listed
  <2>4. f # g => (Dispatched(f)' => Dispatched(f))
    <3>1. queue \in Seq(Fds)
      BY DEF IInv, TypeOK
    <3>2. ASSUME NEW j \in DOMAIN queue', queue'[j] # g PROVE j \in DOMAIN queue /\ queue'[j] = queue[j]
      BY <2>1, <3>1, <3>2
    <3> QED
      BY <2>1, <3>2 DEF Dispatched
  <2> QED
    BY <2>1, <2>2, <2>3, <2>4 DEF Touched
<1>7. ASSUME NEW i, ReadEnds(i) PROVE Touched(f)
  <2> DEFINE g == pollFds[i].fd
  <2>1. /\ g \in Fds /\ i \in DOMAIN pollFds /\ pollFds \in Seq(Entry)
        /\ DOMAIN pollFds' = 1..(Len(pollFds) - 1)
        /\ \A j \in DOMAIN pollFds' : pollFds'[j] = pollFds[IF j < i THEN j ELSE j + 1]
        /\ \E r : clients' = [clients EXCEPT ![g] = r]
        /\ UNCHANGED <<queue, running>>
    BY <1>7, ReadEndsFacts
  <2>2. \A j \in DOMAIN pollFds' : (IF j < i THEN j ELSE j + 1) \in DOMAIN pollFds
    BY <2>1
  <2>3. (Listed(f)' => Listed(f)) /\ (Dispatched(f)' => Dispatched(f))
    BY <2>1, <2>2 DEF Listed, Dispatched
  <2>4. f = g => Listed(f)
    BY <2>1 DEF Listed
  <2>5. f # g => clients'[f] = clients[f]
    BY <1>0, <2>1
  <2> QED
    BY <2>3, <2>4, <2>5 DEF Touched
<1>8. ASSUME NEW w \in Workers, Begin(w) PROVE Touched(f)
  <2>1. Dispatched(f)' => Dispatched(f)
    <3>1. \A j \in DOMAIN queue' : j + 1 \in DOMAIN queue /\ queue'[j] = queue[j + 1]
      BY <1>8, BeginFacts
    <3>2. \A v \in Workers : running'[v] = running[v] \/ (1 \in DOMAIN queue /\ running'[v] = queue[1])
      BY <1>0, <1>8, BeginFacts
    <3> QED
      BY <3>1, <3>2 DEF Dispatched
  <2>2. Listed(f)' => Listed(f)
    BY <1>8, BeginFacts DEF SameLoop, Listed
  <2>3. clients' = clients
    BY <1>8, BeginFacts
  <2> QED
    BY <2>1, <2>2, <2>3 DEF Touched
<1>9. ASSUME NEW w \in Workers, Respond(w) PROVE Touched(f)
  BY <1>9, RespondFacts DEF SameLoop, Touched, Dispatched, Listed
<1>10. ASSUME NEW w \in Workers, Close(w) PROVE Touched(f)
  <2>1. Dispatched(f)' => Dispatched(f)
    <3>1. queue' = queue /\ \A v \in Workers : running'[v] = running[v] \/ running'[v] = NoFd
      BY <1>0, <1>10, CloseFacts
    <3> QED
      BY <1>0, <3>1 DEF Dispatched
  <2> QED
    BY <1>10, <2>1, CloseFacts DEF SameLoop, Touched, Listed
<1> QED
  BY <1>1, <1>2, <1>3, <1>4, <1>5, <1>6, <1>7, <1>8, <1>9, <1>10, StepKinds

\* Only accepting gives a descriptor to a connection, and only a worker that
\* has a descriptor closes it.
LEMMA SockStep ==
  ASSUME IInv, [Next]_vars
  PROVE  \/ \E i : Accept(i)
         \/ fdOf' = fdOf /\ \A f \in Fds : sock'[f] = sock[f] \/ (sock'[f] = NoConn /\ Touched(f))
<1>1. CASE Quiet \/ Register \/ \E f \in Fds : Inserts(f)
  BY <1>1, RegisterFacts DEF Quiet, Inserts, net
<1>2. ASSUME NEW c \in Conns, Connect(c) \/ Send(c) \/ HangUp(c) PROVE UNCHANGED <<fdOf, sock>>
  BY <1>2 DEF Connect, Send, HangUp, hist
<1>3. ASSUME NEW i, ReadData(i) \/ ReadEnds(i) PROVE UNCHANGED <<fdOf, sock>>
  BY <1>3, ReadDataFacts, ReadEndsFacts DEF net
<1>4. ASSUME NEW w \in Workers, Begin(w) \/ Respond(w) PROVE UNCHANGED <<fdOf, sock>>
  BY <1>4, BeginFacts, RespondFacts DEF net
<1>5. ASSUME NEW w \in Workers, Close(w)
      PROVE fdOf' = fdOf /\ \A f \in Fds : sock'[f] = sock[f] \/ (sock'[f] = NoConn /\ Touched(f))
  <2>1. sock \in [Fds -> Conns \cup {NoConn}]
    BY DEF IInv, TypeOK
  <2> QED
    BY <1>5, <2>1, CloseFacts DEF Touched, Dispatched
<1> QED
  BY <1>1, <1>2, <1>3, <1>4, <1>5, StepKinds

\* The loop has a new descriptor until it registers it.
LEMMA NewFdStep ==
  ASSUME IInv, [Next]_vars
  PROVE  \/ \E i : Accept(i) 
         \/ Register
         \/ newFd' = newFd /\ (lpc' = "accepted") = (lpc = "accepted")
<1>1. CASE Quiet \/ \E f \in Fds : Inserts(f)
  BY <1>1 DEF Quiet, Inserts, SameLoop
<1>2. ASSUME NEW c \in Conns, Connect(c) \/ Send(c) \/ HangUp(c) PROVE UNCHANGED <<newFd, lpc>>
  BY <1>2 DEF Connect, Send, HangUp, loop
<1>3. ASSUME NEW i, ReadData(i) PROVE SameLoop
  BY <1>3, ReadDataFacts
<1>4. ASSUME NEW i, ReadEnds(i) PROVE UNCHANGED <<newFd, lpc>>
  BY <1>4, ReadEndsFacts
<1>5. ASSUME NEW w \in Workers, Begin(w) \/ Respond(w) \/ Close(w) PROVE SameLoop
  BY <1>5, BeginFacts, RespondFacts, CloseFacts
<1> QED
  BY <1>1, <1>2, <1>3, <1>4, <1>5, StepKinds DEF SameLoop

LEMMA UseStep ==
  ASSUME IInv, UseInv, [Next]_vars
  PROVE  UseInv'
<1>1. SendersSent' /\ GhostsAreEmpty'
  BY SendersStep, GhostsStep DEF UseInv
<1>2. NoFd \notin Fds /\ NoConn \notin Conns /\ sock \in [Fds -> Conns \cup {NoConn}]
  BY ServerAssumption DEF IInv, TypeOK
<1>3. ASSUME NEW i, Accept(i) PROVE UseInv'
  <2>1. PICK f \in Fds, c \in Conns :
          /\ sock' = [sock EXCEPT ![f] = c]
          /\ c \notin Users(f) /\ Users(f)' = Users(f) \cup {c}
          /\ \A g \in Fds : g # f => Users(g)' = Users(g)
          /\ newFd' = f /\ lpc = "scan" /\ lpc' = "accepted"
    BY <1>3, AcceptFacts
  <2>2. ~Register
    BY <2>1 DEF Register
  <2>4. \A g \in Fds : Touched(g)' => Users(g) # {}
    BY <2>2, TouchedStep DEF UseInv, TouchedWasUsed
  <2>5. TouchedWasUsed'
    <3>1. \A g \in Fds : Users(g) \subseteq Users(g)'
      BY <2>1
    <3>2. Users(f) # {} => Two(f)'
      BY <2>1 DEF Two
    <3> QED
      BY <2>1, <2>4, <3>1, <3>2 DEF TouchedWasUsed
  <2>6. NewFdIsBrief' /\ AcceptedIsOpen'
    BY <1>2, <2>1 DEF NewFdIsBrief, AcceptedIsOpen
  <2> QED
    BY <1>1, <2>5, <2>6 DEF UseInv
<1>4. CASE Register
  <2>1. newFd' = NoFd /\ lpc' = "scan" /\ newFd \in Fds /\ fdOf' = fdOf
    BY <1>4, RegisterFacts
  <2>2. \A f : Users(f)' = Users(f)
    BY <2>1, SameUsers
  <2>3. TouchedWasUsed'
    BY <1>2, <2>1, <2>2, TouchedStep DEF UseInv, TouchedWasUsed, AcceptedIsOpen
  <2> QED
    BY <1>1, <1>2, <2>1, <2>2, <2>3 DEF UseInv, NewFdIsBrief, AcceptedIsOpen
<1>5. CASE ~Register /\ ~\E i : Accept(i)
  <2>1. newFd' = newFd /\ (lpc' = "accepted") = (lpc = "accepted")
    BY <1>5, NewFdStep
  <2>2. /\ fdOf' = fdOf
        /\ \A f \in Fds : sock'[f] = sock[f] \/ Touched(f)
    BY <1>5, SockStep
  <2>3. \A f : Users(f)' = Users(f) /\ Two(f)' = Two(f)
    BY <2>2, SameUsers
  <2>4. \A f \in Fds : Touched(f)' => Touched(f)
    BY <1>5, TouchedStep
  <2>5. TouchedWasUsed' /\ NewFdIsBrief'
    BY <2>1, <2>3, <2>4 DEF UseInv, TouchedWasUsed, NewFdIsBrief
  <2>6. AcceptedIsOpen'
    BY <2>1, <2>2, <2>3 DEF UseInv, AcceptedIsOpen, TouchedWasUsed
  <2> QED
    BY <1>1, <2>5, <2>6 DEF UseInv
<1> QED
  BY <1>3, <1>4, <1>5

-----------------------------------------------------------------------------
(* LoopKnowsItsClients. *)

LoopInv == SoleEntry /\ LoopKnowsItsClients

SameEntries ==
  /\ DOMAIN pollFds' = DOMAIN pollFds
  /\ \A j \in DOMAIN pollFds : pollFds'[j].fd = pollFds[j].fd

LEMMA EntriesStep ==
  ASSUME IInv, [Next]_vars
  PROVE  SameEntries \/ Register \/ \E i : ReadEnds(i)
<1>1. CASE Quiet \/ \E f \in Fds : Inserts(f)
  BY <1>1 DEF Quiet, Inserts, SameLoop, SameEntries
<1>2. ASSUME NEW c \in Conns, Connect(c) \/ Send(c) \/ HangUp(c) PROVE SameEntries
  BY <1>2 DEF Connect, Send, HangUp, loop, SameEntries
<1>3. ASSUME NEW i, Accept(i) \/ ReadData(i) PROVE SameEntries
  BY <1>3, AcceptFacts, ReadDataFacts DEF SameLoop, SameEntries
<1>4. ASSUME NEW w \in Workers, Begin(w) \/ Respond(w) \/ Close(w) PROVE SameEntries
  BY <1>4, BeginFacts, RespondFacts, CloseFacts DEF SameLoop, SameEntries
<1> QED
  BY <1>1, <1>2, <1>3, <1>4, StepKinds

\* A second user stays a second user; who is the only one was it before, or has
\* just been given a descriptor the server has nothing of.
LEMMA UsersStep ==
  ASSUME IInv, UseInv, [Next]_vars, NEW f \in Fds
  PROVE  /\ Two(f) => Two(f)'
         /\ Users(f) \subseteq Users(f)'
         /\ \A c : SoleUser(c, f)' => SoleUser(c, f) \/ (~Touched(f) /\ ~Touched(f)' /\ f = newFd')
<1>1. ASSUME NEW i, Accept(i)
      PROVE  /\ (Two(f) => Two(f)') /\ Users(f) \subseteq Users(f)'
             /\ \A c : SoleUser(c, f)' => SoleUser(c, f) \/ (~Touched(f) /\ ~Touched(f)' /\ f = newFd')
  <2>1. PICK g \in Fds, d \in Conns :
          /\ d \notin Users(g) /\ Users(g)' = Users(g) \cup {d}
          /\ \A h \in Fds : h # g => Users(h)' = Users(h)
          /\ newFd' = g /\ lpc = "scan"
    BY <1>1, AcceptFacts
  <2>2. ~Register
    BY <2>1 DEF Register
  <2>3. (Two(f) => Two(f)') /\ Users(f) \subseteq Users(f)'
    BY <2>1 DEF Two
  <2>4. ASSUME NEW c, SoleUser(c, f)', ~SoleUser(c, f) PROVE ~Touched(f) /\ ~Touched(f)' /\ f = newFd'
    <3>1. f = g
      BY <2>1, <2>4 DEF SoleUser
    <3>2. Users(f) = {}
      BY <2>1, <2>4, <3>1 DEF SoleUser
    <3>3. ~Touched(f)
      BY <3>2 DEF UseInv, TouchedWasUsed
    <3> QED
      BY <2>1, <2>2, <3>1, <3>3, TouchedStep
  <2> QED
    BY <2>1, <2>3, <2>4 DEF Two
<1>2. CASE fdOf' = fdOf
  BY <1>2, SameUsers
<1>3. CASE \E i : Accept(i)
  <2>1. PICK i : Accept(i)
    BY <1>3
  <2> QED
    BY <1>1, <2>1
<1> QED
  BY <1>2, <1>3, SockStep

LEMMA LoopInvStep ==
  ASSUME IInv, UseInv, LoopInv, [Next]_vars
  PROVE  LoopInv'
<1>1. /\ clients \in [Fds -> Client \cup {NoClient}] /\ fdOf \in [Conns -> Fds \cup {NoFd}]
      /\ fdOf' \in [Conns -> Fds \cup {NoFd}] /\ NoFd \notin Fds
  <2>1. TypeOK /\ TypeOK'
    BY NextIInv DEF IInv
  <2> QED
    BY <2>1, ServerAssumption DEF TypeOK
<1>2. SoleEntry'
  <2> SUFFICES ASSUME NEW f \in Fds, ~Two(f)', NEW i \in DOMAIN pollFds', NEW j \in DOMAIN pollFds',
                      pollFds'[i].fd = f, pollFds'[j].fd = f
               PROVE  i = j
    BY DEF SoleEntry
  <2>1. /\ ~Two(f)
        /\ \A k, m \in DOMAIN pollFds : pollFds[k].fd = f /\ pollFds[m].fd = f => k = m
    BY UsersStep DEF LoopInv, SoleEntry
  <2>2. CASE SameEntries
    BY <2>1, <2>2 DEF SameEntries
  <2>3. CASE Register
    <3>1. /\ newFd \in Fds /\ pollFds \in Seq(Entry) /\ DOMAIN pollFds' = 1..(Len(pollFds) + 1)
          /\ \A k \in DOMAIN pollFds : pollFds'[k] = pollFds[k]
          /\ pollFds'[Len(pollFds) + 1].fd = newFd
      BY <2>3, RegisterFacts
    <3>2. f = newFd => ~Listed(f)
      BY <2>1 DEF UseInv, TouchedWasUsed, Touched
    <3> QED
      BY <2>1, <3>1, <3>2 DEF Listed
  <2>4. CASE \E k : ReadEnds(k)
    <3>1. PICK k : ReadEnds(k)
      BY <2>4
    <3>2. /\ k \in DOMAIN pollFds /\ pollFds \in Seq(Entry)
          /\ DOMAIN pollFds' = 1..(Len(pollFds) - 1)
          /\ \A m \in DOMAIN pollFds' : pollFds'[m] = pollFds[IF m < k THEN m ELSE m + 1]
      BY <3>1, ReadEndsFacts
    <3> DEFINE at(m) == IF m < k THEN m ELSE m + 1
    <3>3. /\ \A m \in DOMAIN pollFds' : at(m) \in DOMAIN pollFds /\ pollFds'[m] = pollFds[at(m)]
          /\ (at(i) = at(j) => i = j)
      BY <3>2
    <3> HIDE DEF at
    <3> QED
      BY <2>1, <3>3
  <2> QED
    BY <2>2, <2>3, <2>4, EntriesStep
<1>3. LoopKnowsItsClients'
  <2> SUFFICES ASSUME NEW j \in DOMAIN pollFds', NEW c \in Conns, NEW f \in Fds,
                      f = pollFds'[j].fd, SoleUser(c, f)'
               PROVE  clients'[f] # NoClient /\ clients'[f].fd = f
    BY <1>1 DEF LoopKnowsItsClients, SoleUser, Users
  <2>1. Touched(f)'
    BY DEF Touched, Listed
  <2>2. SoleUser(c, f) /\ ~Two(f)
    BY <2>1, UsersStep, SoleIsNotTwo
  <2>3. CASE Register
    <3>1. /\ newFd \in Fds /\ pollFds \in Seq(Entry) /\ DOMAIN pollFds' = 1..(Len(pollFds) + 1)
          /\ \A k \in DOMAIN pollFds : pollFds'[k] = pollFds[k]
          /\ pollFds'[Len(pollFds) + 1].fd = newFd
          /\ clients' = [clients EXCEPT ![newFd] = Emplaced(newFd)]
      BY <2>3, RegisterFacts
    <3>2. CASE f = newFd
      <4>1. clients[f] = NoClient
        BY <2>2, <3>2 DEF UseInv, TouchedWasUsed, Touched
      <4> QED
        BY <1>1, <3>1, <3>2, <4>1, InsertedIsEmpty
    <3>3. CASE f # newFd
      <4>1. j \in DOMAIN pollFds /\ pollFds[j].fd = f
        BY <3>1, <3>3
      <4> QED
        BY <1>1, <2>2, <3>1, <3>3, <4>1 DEF LoopInv, LoopKnowsItsClients
    <3> QED
      BY <3>2, <3>3
  <2>4. CASE \E k : ReadEnds(k)
    <3>1. PICK k : ReadEnds(k)
      BY <2>4
    <3> DEFINE g == pollFds[k].fd
    <3>2. /\ k \in DOMAIN pollFds /\ pollFds \in Seq(Entry)
          /\ DOMAIN pollFds' = 1..(Len(pollFds) - 1)
          /\ \A m \in DOMAIN pollFds' : pollFds'[m] = pollFds[IF m < k THEN m ELSE m + 1]
          /\ \E r : clients' = [clients EXCEPT ![g] = r]
      BY <3>1, ReadEndsFacts
    <3>3. PICK m \in DOMAIN pollFds : m # k /\ pollFds[m].fd = f
      BY <3>2
    <3>4. f # g
      BY <2>2, <3>2, <3>3 DEF LoopInv, SoleEntry
    <3> QED
      BY <1>1, <2>2, <3>2, <3>3, <3>4 DEF LoopInv, LoopKnowsItsClients
  <2>5. CASE ~Register /\ ~\E k : ReadEnds(k)
    <3>1. j \in DOMAIN pollFds /\ pollFds[j].fd = f
      BY <2>5, EntriesStep DEF SameEntries
    <3>2. clients[f] # NoClient /\ clients[f].fd = f
      BY <2>2, <3>1 DEF LoopInv, LoopKnowsItsClients
    <3>3. clients'[f] = clients[f] \/ (clients'[f] \in Client /\ clients'[f].fd = f)
      <4>1. CASE \E g \in Fds : \E q \in Client : clients' = [clients EXCEPT ![g] = q] /\ q.fd = g
        <5>1. PICK g \in Fds, q \in Client : clients' = [clients EXCEPT ![g] = q] /\ q.fd = g
          BY <4>1
        <5>2. CASE f = g
          BY <1>1, <5>1, <5>2
        <5> QED
          BY <1>1, <5>1, <5>2
      <4>2. CASE clients' = clients \/ \E g \in Fds : clients' = [clients EXCEPT ![g] = Found(g)]
        BY <1>1, <3>2, <4>2 DEF Found
      <4>3. ASSUME NEW i, ReadData(i)
            PROVE  \E g \in Fds : \E q \in Client : clients' = [clients EXCEPT ![g] = q] /\ q.fd = g
        <5>1. PICK g \in Fds, e \in Conns, d \in Conns :
               LET q == Parsed(clients[g], clients[g].raw \o Taken(e), d)
               IN q \in Client /\ q.fd = g /\ clients' = [clients EXCEPT ![g] = q]
          BY <4>3, ReadDataFacts
        <5> QED
          BY <5>1
      <4>4. CASE ~\E i : ReadData(i)
        <5>1. ASSUME NEW e \in Conns, Connect(e) \/ Send(e) \/ HangUp(e) PROVE clients' = clients
          BY <5>1 DEF Connect, Send, HangUp, loop
        <5>2. ASSUME NEW i, Accept(i) PROVE clients' = clients
          BY <5>2, AcceptFacts
        <5>3. ASSUME NEW w \in Workers, Begin(w) \/ Respond(w) \/ Close(w) PROVE clients' = clients
          BY <5>3, BeginFacts, RespondFacts, CloseFacts
        <5> QED
          BY <2>5, <4>2, <4>4, <5>1, <5>2, <5>3, StepKinds DEF Quiet, Inserts
      <4> QED
        BY <4>1, <4>3, <4>4
    <3> QED
      BY <3>2, <3>3, ServerAssumption
  <2> QED
    BY <2>3, <2>4, <2>5
<1> QED
  BY <1>2, <1>3 DEF LoopInv

\* As long as no descriptor was used twice the loop knows whom it polls.
THEOREM ClientsKnown == Spec => []LoopKnowsItsClients
<1>1. Init => IInv /\ UseInv /\ LoopInv
  <2> SUFFICES ASSUME Init PROVE LoopInv
    BY InitIInv, InitUse
  <2>1. /\ \A i \in DOMAIN pollFds : i = 1 /\ pollFds[i].fd = Listen
        /\ \A c \in Conns : fdOf[c] = NoFd
    BY DEF Init
  <2> QED
    BY <2>1, ServerAssumption DEF LoopInv, SoleEntry, LoopKnowsItsClients, SoleUser, Users
<1>2. IInv /\ UseInv /\ LoopInv /\ [Next]_vars => (IInv /\ UseInv /\ LoopInv)'
  BY NextIInv, UseStep, LoopInvStep
<1>3. LoopInv => LoopKnowsItsClients
  BY DEF LoopInv
<1> QED
  BY <1>1, <1>2, <1>3, PTL DEF Spec

-----------------------------------------------------------------------------
(* StayersPolled. *)

\* Nothing but the end of the process takes a ghost away.
LEMMA GhostsStay ==
  ASSUME IInv, [Next]_vars, NEW f \in Fds, clients[f] = Ghost
  PROVE  clients'[f] = Ghost
<1>1. /\ clients \in [Fds -> Client \cup {NoClient}] /\ Stdin \notin Fds
      /\ Ghost # NoClient /\ Ghost.fd = Stdin
  BY InsertedIsEmpty, ServerAssumption DEF IInv, TypeOK
<1>2. CASE Quiet
  BY <1>2 DEF Quiet
<1>3. CASE Register
  BY <1>1, <1>3, RegisterFacts DEF Emplaced
<1>4. ASSUME NEW g \in Fds, Inserts(g) PROVE clients'[f] = Ghost
  BY <1>1, <1>4 DEF Inserts, Found
<1>5. ASSUME NEW c \in Conns, Connect(c) \/ Send(c) \/ HangUp(c) PROVE clients' = clients
  BY <1>5 DEF Connect, Send, HangUp, loop
<1>6. ASSUME NEW i, Accept(i) PROVE clients' = clients
  BY <1>6, AcceptFacts
<1>7. ASSUME NEW i, ReadData(i) PROVE clients'[f] = Ghost
  <2>1. PICK g \in Fds, e \in Conns, d \in Conns :
          LET q == Parsed(clients[g], clients[g].raw \o Taken(e), d)
          IN clients[g].fd = g /\ clients' = [clients EXCEPT ![g] = q]
    BY <1>7, ReadDataFacts
  <2>2. f # g
    BY <1>1, <2>1
  <2> QED
    BY <1>1, <2>1, <2>2
<1>8. ASSUME NEW i, ReadEnds(i) PROVE clients'[f] = Ghost
  <2>1. \E g \in Fds : \/ Found(g).fd = Stdin /\ clients' = [clients EXCEPT ![g] = Found(g)]
                       \/ Found(g).fd = g /\ clients' = [clients EXCEPT ![g] = NoClient]
    BY <1>8, ReadEndsFacts
  <2> QED
    BY <1>1, <2>1 DEF Found
<1>9. ASSUME NEW w \in Workers, Begin(w) \/ Respond(w) \/ Close(w) PROVE clients' = clients
  BY <1>9, BeginFacts, RespondFacts, CloseFacts
<1> QED
  BY <1>2, <1>3, <1>4, <1>5, <1>6, <1>7, <1>8, <1>9, StepKinds

\* Who is on a descriptor and has not hung up had not hung up before.
LEMMA PeerStep ==
  ASSUME IInv, [Next]_vars, NEW c \in Conns, fdOf[c] # NoFd, peer'[c] = "open"
  PROVE  peer[c] = "open"
<1>1. peer \in [Conns -> {"new", "open", "closed"}] /\ peer[c] # "new"
  BY DEF IInv, TypeOK, BacklogIsNew
<1>2. CASE Quiet \/ Register \/ \E f \in Fds : Inserts(f)
  BY <1>2, RegisterFacts DEF Quiet, Inserts, net
<1>3. ASSUME NEW d \in Conns, Connect(d) \/ Send(d) \/ HangUp(d) PROVE peer[c] = "open"
  BY <1>1, <1>3 DEF Connect, Send, HangUp
<1>4. ASSUME NEW i, Accept(i) \/ ReadData(i) \/ ReadEnds(i) PROVE peer' = peer
  BY <1>4, AcceptFacts, ReadDataFacts, ReadEndsFacts DEF net
<1>5. ASSUME NEW w \in Workers, Begin(w) \/ Respond(w) \/ Close(w) PROVE peer' = peer
  BY <1>5, BeginFacts, RespondFacts, CloseFacts DEF net
<1> QED
  BY <1>2, <1>3, <1>4, <1>5, StepKinds

LEMMA StayersStep ==
  ASSUME IInv, UseInv, StayersPolled, [Next]_vars
  PROVE  StayersPolled'
<1>1. /\ clients \in [Fds -> Client \cup {NoClient}] /\ sock \in [Fds -> Conns \cup {NoConn}]
      /\ NoFd \notin Fds /\ NoConn \notin Conns
      /\ \A f \in Fds : sock[f] # NoConn => fdOf[sock[f]] = f
  BY ServerAssumption DEF IInv, TypeOK, SockIsFdOf
<1> SUFFICES ASSUME NEW f \in Fds, sock'[f] # NoConn, peer'[sock'[f]] = "open", clients'[f] # Ghost,
                    f # newFd'
             PROVE  Listed(f)'
  BY DEF StayersPolled, Listed, Ghost, Fresh
<1>2. clients[f] # Ghost
  BY GhostsStay
<1>3. CASE \E i : Accept(i)
  <2>1. PICK g \in Fds, c \in Conns :
          /\ sock' = [sock EXCEPT ![g] = c] /\ newFd' = g /\ lpc = "scan" /\ peer' = peer
          /\ DOMAIN pollFds' = DOMAIN pollFds
          /\ \A j \in DOMAIN pollFds : pollFds'[j].fd = pollFds[j].fd
    BY <1>3, AcceptFacts
  <2>2. sock[f] # NoConn /\ peer[sock[f]] = "open" /\ f # newFd
    BY <1>1, <2>1 DEF UseInv, NewFdIsBrief
  <2> QED
    BY <1>2, <2>1, <2>2 DEF StayersPolled, Listed
<1>4. CASE ~\E i : Accept(i)
  <2>1. sock'[f] = sock[f] /\ sock[f] \in Conns
    BY <1>1, <1>4, SockStep
  <2>2. peer[sock[f]] = "open"
    BY <1>1, <2>1, PeerStep
  <2>3. f = newFd \/ Listed(f)
    BY <1>2, <2>1, <2>2 DEF StayersPolled, Listed
  <2>4. CASE Register
    <3>1. /\ pollFds \in Seq(Entry) /\ DOMAIN pollFds' = 1..(Len(pollFds) + 1)
          /\ \A k \in DOMAIN pollFds : pollFds'[k] = pollFds[k]
          /\ pollFds'[Len(pollFds) + 1].fd = newFd
      BY <2>4, RegisterFacts
    <3> QED
      BY <2>3, <3>1 DEF Listed
  <2>5. CASE \E i : ReadEnds(i)
    <3>1. PICK i : ReadEnds(i)
      BY <2>5
    <3> DEFINE g == pollFds[i].fd
    <3>2. /\ g \in Fds /\ i \in DOMAIN pollFds /\ pollFds \in Seq(Entry)
          /\ DOMAIN pollFds' = 1..(Len(pollFds) - 1)
          /\ \A j \in DOMAIN pollFds' : pollFds'[j] = pollFds[IF j < i THEN j ELSE j + 1]
          /\ \/ Found(g).fd = Stdin /\ clients' = [clients EXCEPT ![g] = Found(g)]
             \/ sock[g] = NoConn \/ peer[sock[g]] = "closed"
          /\ newFd' = newFd
      BY <3>1, ReadEndsFacts
    <3>3. f # g
      <4>1. Found(g).fd = Stdin => Found(g) = Ghost
        BY <3>2 DEF UseInv, GhostsAreEmpty, Found
      <4> QED
        BY <1>1, <2>1, <2>2, <3>2, <4>1
    <3>4. PICK j \in DOMAIN pollFds : pollFds[j].fd = f /\ j # i
      BY <2>3, <3>2, <3>3 DEF Listed
    <3> DEFINE k == IF j < i THEN j ELSE j - 1
    <3>5. k \in DOMAIN pollFds' /\ (IF k < i THEN k ELSE k + 1) = j
      BY <3>2, <3>4
    <3>6. pollFds'[k].fd = f
      BY <3>2, <3>4, <3>5
    <3> QED
      BY <3>5, <3>6 DEF Listed
  <2>6. CASE ~Register /\ ~\E i : ReadEnds(i)
    <3>1. newFd' = newFd /\ SameEntries
      BY <1>4, <2>6, NewFdStep, EntriesStep
    <3> QED
      BY <2>3, <3>1 DEF SameEntries, Listed
  <2> QED
    BY <2>4, <2>5, <2>6
<1> QED
  BY <1>3, <1>4

\* The loop polls every connection whose client stays, unless its record is a ghost.
THEOREM StayersArePolled == Spec => []StayersPolled
<1>1. Init => IInv /\ UseInv /\ StayersPolled
  BY InitIInv, InitUse DEF Init, StayersPolled
<1>2. IInv /\ UseInv /\ StayersPolled /\ [Next]_vars => (IInv /\ UseInv /\ StayersPolled)'
  BY NextIInv, UseStep, StayersStep
<1> QED
  BY <1>1, <1>2, PTL DEF Spec

-----------------------------------------------------------------------------
(* DispatchedComplete. *)

\* The piece that ends the header, in the pieces of a request.
FirstEoh(s) == SelectInSeq(s, LAMBDA k : k = "eoh")

LEMMA FirstEohIs ==
  ASSUME NEW s \in Seq({"head", "eoh", "body"})
  PROVE  /\ FirstEoh(s) \in 0..Len(s)
         /\ FirstEoh(s) = 0 => \A i \in 1..Len(s) : s[i] # "eoh"
         /\ FirstEoh(s) # 0 => s[FirstEoh(s)] = "eoh"
         /\ FirstEoh(s) # 0 => \A i \in 1..Len(s) : s[i] = "eoh" => FirstEoh(s) <= i
<1> DEFINE I == {i \in 1..Len(s) : s[i] = "eoh"}
<1>1. FirstEoh(s) = IF I # {} THEN Min(I) ELSE 0
  BY DEF FirstEoh, SelectInSeq
<1>2. I \in SUBSET Nat
  OBVIOUS
<1>3. I # {} => Min(I) \in I /\ \A i \in I : Min(I) <= i
  BY <1>2, MinMember
<1> QED
  BY <1>1, <1>3

LEMMA HeaderEndIs ==
  ASSUME NEW raw \in Seq(Piece)
  PROVE  /\ HeaderEnd(raw) \in 0..Len(raw)
         /\ HeaderEnd(raw) = 0 => \A i \in 1..Len(raw) : raw[i].kind # "eoh"
         /\ HeaderEnd(raw) # 0 => raw[HeaderEnd(raw)].kind = "eoh"
         /\ HeaderEnd(raw) # 0 => \A i \in 1..Len(raw) : raw[i].kind = "eoh" => HeaderEnd(raw) <= i
<1> DEFINE I == {i \in 1..Len(raw) : raw[i].kind = "eoh"}
<1>1. HeaderEnd(raw) = IF I # {} THEN Min(I) ELSE 0
  BY DEF HeaderEnd, SelectInSeq
<1>2. I \in SUBSET Nat
  OBVIOUS
<1>3. I # {} => Min(I) \in I /\ \A i \in I : Min(I) <= i
  BY <1>2, MinMember
<1> QED
  BY <1>1, <1>3

\* Requests and what was taken of them.
LEMMA RequestType ==
  ASSUME NEW c \in Conns
  PROVE  /\ Request[c] \in Seq({"head", "eoh", "body"})
         /\ \A n \in 0..Len(Request[c]) :
              /\ SubSeq(Request[c], 1, n) \in Seq({"head", "eoh", "body"})
              /\ Len(SubSeq(Request[c], 1, n)) = n
              /\ \A i \in 1..n : SubSeq(Request[c], 1, n)[i] = Request[c][i]
<1>1. Request[c] \in Seq({"head", "eoh", "body"})
  BY ServerAssumption
<1> DEFINE s == Request[c]
           K == {"head", "eoh", "body"}
<1> HIDE DEF s, K
<1>2. ASSUME s \in Seq(K), NEW n \in 0..Len(s)
      PROVE  /\ SubSeq(s, 1, n) \in Seq(K) /\ Len(SubSeq(s, 1, n)) = n
             /\ \A i \in 1..n : SubSeq(s, 1, n)[i] = s[i]
  BY <1>2
<1> QED
  BY <1>1, <1>2 DEF s, K

\* More of a request than is complete is complete.
LEMMA CompleteStays ==
  ASSUME NEW c \in Conns, NEW m \in 0..Len(Request[c]), NEW n \in m..Len(Request[c]),
         CompleteIn(c, SubSeq(Request[c], 1, m))
  PROVE  CompleteIn(c, SubSeq(Request[c], 1, n))
<1> DEFINE s == SubSeq(Request[c], 1, m)
           t == SubSeq(Request[c], 1, n)
<1>1. Request[c] \in Seq({"head", "eoh", "body"}) /\ Length[c] \in Int
  BY ServerAssumption
<1>2. n \in 0..Len(Request[c])
  BY <1>1
<1>3. /\ s \in Seq({"head", "eoh", "body"}) /\ Len(s) = m /\ \A i \in 1..m : s[i] = Request[c][i]
      /\ t \in Seq({"head", "eoh", "body"}) /\ Len(t) = n /\ \A i \in 1..n : t[i] = Request[c][i]
  BY <1>2, RequestType
<1> HIDE DEF s, t
<1>4. FirstEoh(s) # 0 /\ Len(s) - FirstEoh(s) >= Length[c]
  BY DEF CompleteIn, FirstEoh, s
<1>5. FirstEoh(t) = FirstEoh(s)
  <2> DEFINE h == FirstEoh(s)
             k == FirstEoh(t)
  <2>1. /\ h \in 0..Len(s) /\ h # 0
        /\ h # 0 => s[h] = "eoh" /\ \A i \in 1..Len(s) : s[i] = "eoh" => h <= i
    BY <1>3, <1>4, FirstEohIs
  <2>2. /\ k \in 0..Len(t)
        /\ k = 0 => \A i \in 1..Len(t) : t[i] # "eoh"
        /\ k # 0 => t[k] = "eoh" /\ \A i \in 1..Len(t) : t[i] = "eoh" => k <= i
    BY <1>3, FirstEohIs
  <2> HIDE DEF h, k
  <2>3. h \in 1..m /\ h \in 1..n /\ t[h] = "eoh"
    BY <1>2, <1>3, <2>1
  <2>4. k \in 1..h /\ t[k] = "eoh"
    BY <1>3, <2>2, <2>3
  <2>5. k \in 1..m /\ s[k] = "eoh"
    BY <1>2, <1>3, <2>3, <2>4
  <2>6. h <= k
    BY <1>3, <2>1, <2>5
  <2> QED
    BY <2>3, <2>4, <2>6 DEF h, k
<1>6. FirstEoh(s) \in Nat /\ m <= n /\ m \in Nat /\ n \in Nat
  BY <1>1, <1>3, FirstEohIs
<1> QED
  BY <1>1, <1>3, <1>4, <1>5, <1>6 DEF CompleteIn, FirstEoh, t

\* What happens to what was sent and read.
LEMMA InboxStep ==
  ASSUME IInv, [Next]_vars
  PROVE  \/ UNCHANGED <<inbox, sent>>
         \/ \E c \in Conns : Send(c)
         \/ \E i : ReadData(i)
         \/ \E w \in Workers : Close(w)
<1>1. CASE Quiet \/ Register \/ \E f \in Fds : Inserts(f)
  BY <1>1, RegisterFacts DEF Quiet, Inserts, net
<1>2. ASSUME NEW c \in Conns, Connect(c) \/ HangUp(c) PROVE UNCHANGED <<inbox, sent>>
  BY <1>2 DEF Connect, HangUp
<1>3. ASSUME NEW i, Accept(i) \/ ReadEnds(i) PROVE UNCHANGED <<inbox, sent>>
  BY <1>3, AcceptFacts, ReadEndsFacts DEF net
<1>4. ASSUME NEW w \in Workers, Begin(w) \/ Respond(w) PROVE UNCHANGED <<inbox, sent>>
  BY <1>4, BeginFacts, RespondFacts DEF net
<1> QED
  BY <1>1, <1>2, <1>3, <1>4, StepKinds

LEMMA SendFacts ==
  ASSUME IInv, NEW c \in Conns, Send(c)
  PROVE  /\ sent[c] < Len(Request[c]) /\ sent' = [sent EXCEPT ![c] = @ + 1]
         /\ \E p \in Piece : /\ p.from = c /\ p.kind = Request[c][sent[c] + 1]
                             /\ inbox' = [inbox EXCEPT ![c] = Append(@, p)]
         /\ UNCHANGED <<sock, peer, pollFds, clients, lpc, newFd, queue, running, wpc, replies, fdOf>>
<1>1. sent[c] \in Nat /\ Request[c] \in Seq({"head", "eoh", "body"})
  BY ServerAssumption DEF IInv, TypeOK
<1> DEFINE k == Request[c][sent[c] + 1]
           p == [from |-> c, kind |-> k]
<1>2. k \in {"head", "eoh", "body"}
  BY <1>1 DEF Send
<1>3. p \in Piece /\ p.from = c /\ p.kind = k
  BY <1>2 DEF Piece
<1>4. inbox' = [inbox EXCEPT ![c] = Append(@, p)]
  BY DEF Send
<1> HIDE DEF p
<1> QED
  BY <1>3, <1>4 DEF Send, loop, work, hist

LEMMA InboxInOrderStep ==
  ASSUME IInv, InboxInOrder, [Next]_vars
  PROVE  InboxInOrder'
<1>1. inbox \in [Conns -> Seq(Piece)] /\ sent \in [Conns -> Nat]
  BY DEF IInv, TypeOK
<1>2. \A c \in Conns : Request[c] \in Seq({"head", "eoh", "body"})
  BY ServerAssumption
<1> SUFFICES ASSUME NEW c \in Conns
             PROVE  /\ sent'[c] <= Len(Request[c]) /\ Len(inbox'[c]) <= sent'[c]
                    /\ \A i \in DOMAIN inbox'[c] :
                         inbox'[c][i].kind = Request[c][sent'[c] - Len(inbox'[c]) + i]
  BY DEF InboxInOrder
<1>3. /\ sent[c] <= Len(Request[c]) /\ Len(inbox[c]) <= sent[c]
      /\ \A i \in DOMAIN inbox[c] : inbox[c][i].kind = Request[c][sent[c] - Len(inbox[c]) + i]
  BY DEF InboxInOrder
<1>4. CASE inbox'[c] = inbox[c] /\ sent'[c] = sent[c]
  BY <1>3, <1>4
<1>5. CASE inbox'[c] = <<>> /\ sent'[c] = sent[c]
  BY <1>1, <1>3, <1>5
<1>6. CASE \E d \in Conns : Send(d)
  <2>1. PICK d \in Conns : Send(d)
    BY <1>6
  <2>2. CASE d # c
    BY <1>1, <1>4, <2>1, <2>2, SendFacts
  <2>3. CASE d = c
    <3>1. PICK p \in Piece : p.kind = Request[c][sent[c] + 1] /\ inbox' = [inbox EXCEPT ![c] = Append(@, p)]
      BY <2>1, <2>3, SendFacts
    <3>2. sent'[c] = sent[c] + 1 /\ sent[c] < Len(Request[c])
      BY <1>1, <2>1, <2>3, SendFacts
    <3>3. inbox'[c] = Append(inbox[c], p) /\ inbox[c] \in Seq(Piece)
      BY <1>1, <3>1
    <3>4. /\ Len(inbox'[c]) = Len(inbox[c]) + 1 /\ DOMAIN inbox'[c] = 1..(Len(inbox[c]) + 1)
          /\ inbox'[c][Len(inbox[c]) + 1] = p
          /\ \A i \in 1..Len(inbox[c]) : inbox'[c][i] = inbox[c][i]
      BY <3>3
    <3>5. /\ sent[c] \in Nat /\ Len(inbox[c]) \in Nat /\ Len(Request[c]) \in Nat
          /\ DOMAIN inbox[c] = 1..Len(inbox[c])
      BY <1>1, <1>2
    <3>6. sent'[c] - Len(inbox'[c]) = sent[c] - Len(inbox[c])
      <4>1. Len(inbox'[c]) = Len(inbox[c]) + 1
        BY <3>4
      <4> HIDE DEF InboxInOrder
      <4> QED
        BY <3>2, <3>5, <4>1, Z3
    <3>7. ASSUME NEW i \in DOMAIN inbox'[c]
          PROVE  inbox'[c][i].kind = Request[c][sent'[c] - Len(inbox'[c]) + i]
      <4>1. CASE i = Len(inbox[c]) + 1
        <5>1. sent'[c] - Len(inbox'[c]) + i = sent[c] + 1
          BY <3>5, <3>6, <4>1
        <5> QED
          BY <3>1, <3>4, <4>1, <5>1
      <4>2. CASE i \in 1..Len(inbox[c])
        BY <1>3, <3>4, <3>5, <3>6, <4>2
      <4> QED
        BY <3>4, <3>5, <4>1, <4>2
    <3> QED
      BY <1>3, <3>2, <3>4, <3>5, <3>7
  <2> QED
    BY <2>2, <2>3
<1>7. CASE \E i : ReadData(i)
  <2>1. PICK e \in Conns : sent' = sent /\ inbox' = [inbox EXCEPT ![e] = Left(e)]
    BY <1>7, ReadDataFacts
  <2>2. CASE e # c
    BY <1>1, <1>4, <2>1, <2>2
  <2>3. CASE e = c
    <3>1. PICK n \in 0..Len(inbox[c]) :
            /\ Len(Left(c)) = Len(inbox[c]) - n /\ Left(c) \in Seq(Piece)
            /\ \A j \in 1..(Len(inbox[c]) - n) : Left(c)[j] = inbox[c][n + j]
      BY TakenAndLeft DEF IInv
    <3>2. inbox'[c] = Left(c) /\ sent'[c] = sent[c]
      BY <1>1, <2>1, <2>3
    <3>3. sent[c] \in Nat /\ Len(inbox[c]) \in Nat /\ Len(Request[c]) \in Nat /\ DOMAIN inbox[c] = 1..Len(inbox[c])
      BY <1>1, <1>2
    <3>4. ASSUME NEW i \in 1..(Len(inbox[c]) - n)
          PROVE  Left(c)[i].kind = Request[c][sent[c] - Len(Left(c)) + i]
      <4>1. n + i \in DOMAIN inbox[c] /\ sent[c] - Len(inbox[c]) + (n + i) = sent[c] - Len(Left(c)) + i
        BY <3>1, <3>3
      <4> QED
        BY <1>3, <3>1, <4>1
    <3>5. DOMAIN Left(c) = 1..(Len(inbox[c]) - n) /\ Len(Left(c)) <= sent[c]
      BY <1>3, <3>1, <3>3
    <3> QED
      BY <1>3, <3>2, <3>4, <3>5
  <2> QED
    BY <2>2, <2>3
<1>8. CASE \E w \in Workers : Close(w)
  <2>1. sent' = sent /\ (inbox'[c] = inbox[c] \/ inbox'[c] = <<>>)
    BY <1>8, CloseFacts
  <2> QED
    BY <1>4, <1>5, <2>1
<1> QED
  BY <1>4, <1>6, <1>7, <1>8, InboxStep

\* A connection whose descriptor the loop has just accepted is no other.
LEMMA NewFdIs ==
  ASSUME IInv, UseInv, NEW c \in Conns, newFd \in Fds, sock[newFd] = c
  PROVE  fdOf[c] = newFd /\ lpc = "accepted"
BY ServerAssumption DEF IInv, SockIsFdOf, UseInv, NewFdIsBrief

LEMMA UnreadStep ==
  ASSUME IInv, UseInv, UnreadBefore, [Next]_vars
  PROVE  UnreadBefore'
<1>1. /\ inbox \in [Conns -> Seq(Piece)] /\ sent \in [Conns -> Nat]
      /\ sock \in [Fds -> Conns \cup {NoConn}] /\ fdOf \in [Conns -> Fds \cup {NoFd}]
      /\ NoFd \notin Fds /\ NoConn \notin Conns
  BY ServerAssumption DEF IInv, TypeOK
<1> SUFFICES ASSUME NEW c \in Conns, fdOf'[c] = NoFd \/ (newFd' \in Fds /\ sock'[newFd'] = c)
             PROVE  Len(inbox'[c]) = sent'[c]
  BY DEF UnreadBefore
<1>2. fdOf[c] = NoFd \/ (newFd \in Fds /\ sock[newFd] = c)
  <2>1. CASE \E i : Accept(i)
    <3>1. PICK f \in Fds, d \in Conns :
            /\ sock' = [sock EXCEPT ![f] = d] /\ fdOf[d] = NoFd /\ fdOf' = [fdOf EXCEPT ![d] = f]
            /\ newFd' = f
      BY <2>1, AcceptFacts
    <3> QED
      BY <1>1, <3>1
  <2>2. CASE Register
    <3>1. newFd' = NoFd /\ fdOf' = fdOf
      BY <2>2, RegisterFacts
    <3> QED
      BY <1>1, <3>1
  <2>3. CASE ~Register /\ ~\E i : Accept(i)
    <3>1. newFd' = newFd /\ fdOf' = fdOf /\ \A f \in Fds : sock'[f] = sock[f] \/ sock'[f] = NoConn
      BY <2>3, NewFdStep, SockStep
    <3> QED
      BY <1>1, <3>1
  <2> QED
    BY <2>1, <2>2, <2>3
<1>3. Len(inbox[c]) = sent[c]
  BY <1>2 DEF UnreadBefore
<1>4. CASE inbox'[c] = inbox[c] /\ sent'[c] = sent[c]
  BY <1>3, <1>4
<1>5. ASSUME NEW d \in Conns, Send(d) PROVE Len(inbox'[c]) = sent'[c]
  <2>1. PICK p \in Piece : inbox' = [inbox EXCEPT ![d] = Append(@, p)] /\ sent' = [sent EXCEPT ![d] = @ + 1]
    BY <1>5, SendFacts
  <2>2. CASE d # c
    BY <1>1, <1>3, <2>1, <2>2
  <2>3. CASE d = c
    <3>1. inbox'[c] = Append(inbox[c], p) /\ sent'[c] = sent[c] + 1 /\ inbox[c] \in Seq(Piece)
      BY <1>1, <2>1, <2>3
    <3>2. Len(inbox'[c]) = Len(inbox[c]) + 1
      BY <3>1
    <3> QED
      BY <1>3, <3>1, <3>2
  <2> QED
    BY <2>2, <2>3
<1>6. ASSUME NEW i, ReadData(i) PROVE Len(inbox'[c]) = sent'[c]
  <2>1. PICK f \in Fds, e \in Conns : fdOf[e] = f /\ inbox' = [inbox EXCEPT ![e] = Left(e)] /\ sent' = sent
    BY <1>6, ReadDataFacts
  <2>2. lpc = "scan"
    BY <1>6 DEF ReadData, Reads, At
  <2>3. e # c
    BY <1>1, <1>2, <2>1, <2>2, NewFdIs
  <2> QED
    BY <1>1, <1>3, <2>1, <2>3
<1>7. ASSUME NEW w \in Workers, Close(w) PROVE Len(inbox'[c]) = sent'[c]
  <2>1. /\ running[w] \in Fds /\ sent' = sent /\ sock' = [sock EXCEPT ![running[w]] = NoConn]
        /\ inbox' = [d \in Conns |-> IF d = sock[running[w]] THEN <<>> ELSE inbox[d]]
        /\ fdOf' = fdOf /\ newFd' = newFd
    BY <1>7, CloseFacts DEF SameLoop
  <2>2. sock[running[w]] = c => fdOf[c] = running[w]
    BY <1>1, <2>1 DEF IInv, SockIsFdOf
  <2>3. newFd \in Fds /\ sock[newFd] = c => fdOf[c] = newFd
    BY NewFdIs
  <2>4. c # sock[running[w]]
    BY <1>1, <1>2, <2>1, <2>2, <2>3
  <2> QED
    BY <1>1, <1>3, <2>1, <2>4
<1> QED
  BY <1>4, <1>5, <1>6, <1>7, InboxStep

-----------------------------------------------------------------------------
\* A connection that is on a descriptor it alone had was there before the step,
\* or has just been accepted.
LEMMA SatThere ==
  ASSUME IInv, UseInv, [Next]_vars, NEW c \in Conns, NEW f \in Fds,
         SoleUser(c, f)', sock'[f] = c, Touched(f)'
  PROVE  /\ SoleUser(c, f) /\ ~Two(f) /\ fdOf[c] = f /\ sock[f] = c
         /\ \A g \in Fds : sock[g] = c => g = f
<1>1. NoConn \notin Conns
  BY ServerAssumption
<1>2. SoleUser(c, f)
  BY UsersStep
<1>3. sock[f] = c
  <2>1. ASSUME NEW i, Accept(i) PROVE sock[f] = c
    <3>1. PICK g \in Fds, d \in Conns :
            /\ sock' = [sock EXCEPT ![g] = d] /\ fdOf[d] = NoFd /\ d \notin Users(g) /\ Users(g)' = Users(g) \cup {d}
      BY <2>1, AcceptFacts
    <3>2. g # f
      BY <1>2, <3>1 DEF SoleUser
    <3>3. sock \in [Fds -> Conns \cup {NoConn}]
      BY DEF IInv, TypeOK
    <3> QED
      BY <3>1, <3>2, <3>3
  <2> QED
    BY <1>1, <2>1, SockStep
<1>4. ~Two(f) /\ fdOf[c] = f
  BY <1>2, SoleIsNotTwo
<1> QED
  BY <1>1, <1>2, <1>3, <1>4 DEF IInv, SockIsFdOf

\* What is left of its request, and its record, change by these steps only.
LEMMA RecordChange ==
  ASSUME IInv, UseInv, [Next]_vars, NEW c \in Conns, NEW f \in Fds, Recorded(c, f)'
  PROVE  \/ /\ Register /\ f = newFd /\ SoleUser(c, f) /\ sock[f] = c
            /\ clients'[f] = Fresh(f) /\ UNCHANGED <<inbox, sent>>
         \/ Recorded(c, f) /\ clients'[f] = clients[f] /\ inbox'[c] = inbox[c] /\ sent'[c] = sent[c]
         \/ Recorded(c, f) /\ clients'[f] = clients[f] /\ Send(c)
         \/ /\ Recorded(c, f) /\ sent' = sent /\ inbox[c] # <<>> /\ inbox'[c] = Left(c)
            /\ clients[f] \in Client
            /\ \E d \in Conns :
                 LET r == clients[f]
                     raw == r.raw \o Taken(c)
                 IN  /\ clients'[f] = Parsed(r, raw, d)
                     /\ Parsed(r, raw, d) \in Client /\ Parsed(r, raw, d).raw = raw
                     /\ IF ~r.inBody /\ HeaderEnd(raw) # 0 THEN d \in Authors(raw) ELSE d = c
<1>1. /\ clients \in [Fds -> Client \cup {NoClient}] /\ inbox \in [Conns -> Seq(Piece)]
      /\ sent \in [Conns -> Nat] /\ Stdin \notin Fds
  BY ServerAssumption DEF IInv, TypeOK
<1>2. SoleUser(c, f)' /\ sock'[f] = c /\ clients'[f] # NoClient /\ clients'[f].fd = f
  BY DEF Recorded
<1>3. /\ SoleUser(c, f) /\ ~Two(f) /\ fdOf[c] = f /\ sock[f] = c
      /\ \A g \in Fds : sock[g] = c => g = f
  BY <1>2, SatThere DEF Touched
<1>4. clients'[f] = clients[f] => Recorded(c, f)
  BY <1>2, <1>3 DEF Recorded
<1> DEFINE Same == Recorded(c, f) /\ clients'[f] = clients[f] /\ inbox'[c] = inbox[c] /\ sent'[c] = sent[c]
<1>5. CASE Quiet
  BY <1>4, <1>5 DEF Quiet, net
<1>6. CASE Register
  <2>1. newFd \in Fds /\ clients' = [clients EXCEPT ![newFd] = Emplaced(newFd)] /\ UNCHANGED <<inbox, sent>>
    BY <1>6, RegisterFacts DEF net
  <2>2. CASE f = newFd
    <3>1. clients[f] = NoClient
      BY <1>3, <2>2 DEF UseInv, TouchedWasUsed, Touched
    <3> QED
      BY <1>1, <1>3, <1>6, <2>1, <2>2, <3>1, InsertedIsEmpty
  <2>3. CASE f # newFd
    BY <1>1, <1>4, <2>1, <2>3
  <2> QED
    BY <2>2, <2>3
<1>7. ASSUME NEW g \in Fds, Inserts(g) PROVE Same
  <2>1. clients'[f] = clients[f]
    BY <1>1, <1>2, <1>7, InsertedIsEmpty DEF Inserts
  <2> QED
    BY <1>4, <1>7, <2>1 DEF Inserts, net
<1>8. ASSUME NEW d \in Conns, Connect(d) \/ HangUp(d) PROVE Same
  BY <1>4, <1>8 DEF Connect, HangUp, loop
<1>9. ASSUME NEW d \in Conns, Send(d) PROVE Same \/ (Recorded(c, f) /\ clients'[f] = clients[f] /\ Send(c))
  BY <1>1, <1>4, <1>9, SendFacts
<1>10. ASSUME NEW i, Accept(i) PROVE Same
  BY <1>4, <1>10, AcceptFacts
<1>11. ASSUME NEW i, ReadEnds(i) PROVE Same
  <2>1. /\ UNCHANGED <<inbox, sent>>
        /\ \E g \in Fds : \/ Found(g).fd = Stdin /\ clients' = [clients EXCEPT ![g] = Found(g)]
                          \/ clients' = [clients EXCEPT ![g] = NoClient]
    BY <1>11, ReadEndsFacts DEF net
  <2>2. clients'[f] = clients[f]
    BY <1>1, <1>2, <2>1
  <2> QED
    BY <1>4, <2>1, <2>2
<1>12. ASSUME NEW w \in Workers, Begin(w) \/ Respond(w) PROVE Same
  BY <1>4, <1>12, BeginFacts, RespondFacts DEF net
<1>13. ASSUME NEW w \in Workers, Close(w) PROVE Same
  <2>1. /\ running[w] \in Fds /\ sent' = sent /\ sock' = [sock EXCEPT ![running[w]] = NoConn]
        /\ inbox' = [d \in Conns |-> IF d = sock[running[w]] THEN <<>> ELSE inbox[d]]
        /\ clients' = clients
    BY <1>13, CloseFacts
  <2>2. running[w] # f
    BY <1>2, <2>1, ServerAssumption DEF IInv, TypeOK
  <2>3. sock[running[w]] # c
    BY <1>3, <2>1, <2>2
  <2> QED
    BY <1>1, <1>4, <2>1, <2>3
<1>14. ASSUME NEW i, ReadData(i), ~Same
       PROVE  /\ Recorded(c, f) /\ sent' = sent /\ inbox[c] # <<>> /\ inbox'[c] = Left(c)
              /\ clients[f] \in Client
              /\ \E d \in Conns :
                   LET r == clients[f]
                       raw == r.raw \o Taken(c)
                   IN  /\ clients'[f] = Parsed(r, raw, d)
                       /\ Parsed(r, raw, d) \in Client /\ Parsed(r, raw, d).raw = raw
                       /\ IF ~r.inBody /\ HeaderEnd(raw) # 0 THEN d \in Authors(raw) ELSE d = c
  <2>1. PICK g \in Fds, e \in Conns, d \in Conns :
           LET r == clients[g]
               raw == r.raw \o Taken(e)
               q == Parsed(r, raw, d)
           IN  /\ sock[g] = e /\ fdOf[e] = g /\ inbox[e] # <<>>
               /\ r \in Client /\ r.fd = g /\ q \in Client /\ q.raw = raw
               /\ IF ~r.inBody /\ HeaderEnd(raw) # 0 THEN d \in Authors(raw) ELSE d = e
               /\ clients' = [clients EXCEPT ![g] = q]
               /\ inbox' = [inbox EXCEPT ![e] = Left(e)]
               /\ sent' = sent
    <3> HIDE DEF Same
    <3> QED
      BY <1>14, ReadDataFacts
  <2>2. CASE g # f
    <3>1. e # c
      BY <1>3, <2>1, <2>2
    <3>2. clients'[f] = clients[f] /\ inbox'[c] = inbox[c] /\ sent' = sent
      <4> HIDE DEF Same
      <4> QED
        BY <1>1, <2>1, <2>2, <3>1
    <3> QED
      BY <1>4, <1>14, <3>2
  <2>3. CASE g = f
    <3>1. e = c
      BY <1>3, <2>1, <2>3
    <3>2. /\ clients[f] \in Client /\ clients[f].fd = f /\ inbox[c] # <<>> /\ sent' = sent
          /\ inbox'[c] = Left(c)
          /\ clients'[f] = Parsed(clients[f], clients[f].raw \o Taken(c), d)
      BY <1>1, <2>1, <2>3, <3>1
    <3>3. Recorded(c, f)
      BY <1>3, <3>2, ServerAssumption DEF Recorded
    <3> HIDE DEF Same
    <3> QED
      BY <2>1, <2>3, <3>1, <3>2, <3>3
  <2> QED
    BY <2>2, <2>3
<1> HIDE DEF Same
<1>15. ASSUME NEW i, ReadData(i), Same
       PROVE  Recorded(c, f) /\ clients'[f] = clients[f] /\ inbox'[c] = inbox[c] /\ sent'[c] = sent[c]
  BY <1>15 DEF Same
<1>16. CASE \E i : ReadData(i)
  <2>1. PICK i : ReadData(i)
    BY <1>16
  <2> QED
    BY <1>14, <1>15, <2>1
<1>17. CASE ~\E i : ReadData(i)
  BY <1>5, <1>6, <1>7, <1>8, <1>9, <1>10, <1>11, <1>12, <1>13, <1>17, StepKinds DEF Same
<1> QED
  BY <1>16, <1>17

\* A read of a connection that is alone on its descriptor extends the record by
\* the pieces that come next in the request.
LEMMA ReadExtends ==
  ASSUME IInv, InboxInOrder, RecordInOrder, NEW c \in Conns, NEW f \in Fds, Recorded(c, f),
         clients[f] \in Client, inbox[c] # <<>>
  PROVE  LET old == clients[f].raw
             raw == old \o Taken(c)
         IN  /\ raw \in Seq(Piece) /\ old \in Seq(Piece)
             /\ Len(old) < Len(raw) /\ \A i \in 1..Len(old) : raw[i] = old[i]
             /\ Len(raw) = sent[c] - Len(Left(c))
             /\ \A i \in 1..Len(raw) : raw[i].from = c /\ raw[i].kind = Request[c][i]
<1> DEFINE old == clients[f].raw
           new == Taken(c)
<1>1. TypeOK /\ InboxIsOwn
  BY DEF IInv
<1>2. inbox[c] \in Seq(Piece) /\ sent[c] \in Nat /\ Len(inbox[c]) <= sent[c]
  BY <1>1 DEF TypeOK, InboxInOrder
<1>3. PICK n \in 0..Len(inbox[c]) :
        /\ n > 0 /\ new \in Seq(Piece) /\ Len(new) = n
        /\ Len(Left(c)) = Len(inbox[c]) - n
        /\ \A j \in 1..n : new[j] = inbox[c][j]
  BY <1>1, TakenAndLeft
<1>4. /\ old \in Seq(Piece) /\ Len(old) = sent[c] - Len(inbox[c])
      /\ \A i \in 1..Len(old) : old[i].from = c /\ old[i].kind = Request[c][i]
  <2>1. old \in Seq(Piece)
    BY DEF Client
  <2>2. DOMAIN old = 1..Len(old)
    BY <2>1
  <2> QED
    BY <2>1, <2>2 DEF RecordInOrder
<1>5. ASSUME NEW j \in 1..n
      PROVE  new[j].from = c /\ new[j].kind = Request[c][Len(old) + j]
  <2>1. j \in DOMAIN inbox[c] /\ new[j] = inbox[c][j]
    BY <1>2, <1>3
  <2>2. inbox[c][j].kind = Request[c][sent[c] - Len(inbox[c]) + j]
    BY <2>1 DEF InboxInOrder
  <2>3. inbox[c][j].from = c
    BY <1>1, <2>1 DEF InboxIsOwn
  <2> QED
    BY <1>4, <2>1, <2>2, <2>3
<1> DEFINE raw == old \o new
<1>6. /\ raw \in Seq(Piece) /\ Len(raw) = Len(old) + n
      /\ \A i \in 1..Len(old) : raw[i] = old[i]
      /\ \A i \in 1..n : raw[Len(old) + i] = new[i]
  <2> HIDE DEF old, new
  <2>1. old \in Seq(Piece) /\ new \in Seq(Piece) /\ Len(new) = n
    BY <1>3, <1>4
  <2>2. /\ old \o new \in Seq(Piece) /\ Len(old \o new) = Len(old) + Len(new)
        /\ \A i \in 1..Len(old) : (old \o new)[i] = old[i]
        /\ \A i \in 1..Len(new) : (old \o new)[Len(old) + i] = new[i]
    BY <2>1
  <2> QED
    BY <2>1, <2>2
<1> HIDE DEF old, new, raw
<1>7. ASSUME NEW i \in 1..(Len(old) + n)
      PROVE  raw[i].from = c /\ raw[i].kind = Request[c][i]
  <2>1. Len(old) \in Nat /\ n \in Nat
    BY <1>2, <1>3, <1>4
  <2>2. CASE i <= Len(old)
    <3>1. i \in 1..Len(old)
      BY <2>1, <2>2
    <3> QED
      BY <1>4, <1>6, <3>1
  <2>3. CASE i > Len(old)
    <3>1. PICK j \in 1..n : i = Len(old) + j
      BY <2>1, <2>3
    <3> QED
      BY <1>5, <1>6, <3>1
  <2> QED
    BY <2>1, <2>2, <2>3
<1>8. Len(old) < Len(old) + n /\ Len(old) + n = sent[c] - Len(Left(c))
  <2>1. Len(old) \in Nat /\ n \in Nat /\ Len(inbox[c]) \in Nat
    BY <1>2, <1>3, <1>4
  <2> QED
    <3> DEFINE x == Len(Left(c))
               y == Len(old)
               z == Len(inbox[c])
    <3>1. x = z - n /\ y = sent[c] - z /\ n > 0 /\ sent[c] \in Nat /\ n \in Nat /\ y \in Nat /\ z \in Nat
      BY <1>2, <1>3, <1>4, <2>1
    <3> HIDE DEF x, y, z
    <3>2. y < y + n /\ y + n = sent[c] - x
      BY <3>1
    <3> QED
      BY <3>2 DEF x, y
<1> QED
  BY <1>4, <1>6, <1>7, <1>8 DEF old, new, raw

LEMMA RecordStepInOrder ==
  ASSUME IInv, UseInv, InboxInOrder, UnreadBefore, RecordInOrder, [Next]_vars
  PROVE  RecordInOrder'
<1> SUFFICES ASSUME NEW c \in Conns, NEW f \in Fds, Recorded(c, f)'
             PROVE  /\ Len(clients'[f].raw) = sent'[c] - Len(inbox'[c])
                    /\ \A i \in DOMAIN clients'[f].raw :
                         clients'[f].raw[i].from = c /\ clients'[f].raw[i].kind = Request[c][i]
  BY DEF RecordInOrder
<1>1. inbox \in [Conns -> Seq(Piece)] /\ sent \in [Conns -> Nat]
  BY DEF IInv, TypeOK
<1>2. CASE Recorded(c, f) /\ clients'[f] = clients[f] /\ inbox'[c] = inbox[c] /\ sent'[c] = sent[c]
  BY <1>2 DEF RecordInOrder
<1>3. CASE /\ Register /\ f = newFd /\ SoleUser(c, f) /\ sock[f] = c
           /\ clients'[f] = Fresh(f) /\ UNCHANGED <<inbox, sent>>
  <2>1. Len(inbox[c]) = sent[c]
    BY <1>3 DEF UnreadBefore
  <2>2. clients'[f].raw = <<>>
    BY <1>3, InsertedIsEmpty
  <2> QED
    BY <1>1, <1>3, <2>1, <2>2
<1>4. CASE Recorded(c, f) /\ clients'[f] = clients[f] /\ Send(c)
  <2>1. PICK p \in Piece : inbox' = [inbox EXCEPT ![c] = Append(@, p)] /\ sent' = [sent EXCEPT ![c] = @ + 1]
    BY <1>4, SendFacts
  <2>2. inbox'[c] = Append(inbox[c], p) /\ sent'[c] = sent[c] + 1 /\ inbox[c] \in Seq(Piece)
    BY <1>1, <2>1
  <2>3. Len(inbox'[c]) = Len(inbox[c]) + 1 /\ Len(inbox[c]) \in Nat /\ sent[c] \in Nat
    BY <1>1, <2>2
  <2>4. sent'[c] - Len(inbox'[c]) = sent[c] - Len(inbox[c])
    BY <2>2, <2>3
  <2> QED
    BY <1>4, <2>4 DEF RecordInOrder
<1>5. ASSUME NEW d \in Conns, Recorded(c, f), sent' = sent, inbox[c] # <<>>, inbox'[c] = Left(c),
             clients[f] \in Client,
             clients'[f] = Parsed(clients[f], clients[f].raw \o Taken(c), d),
             Parsed(clients[f], clients[f].raw \o Taken(c), d).raw = clients[f].raw \o Taken(c)
      PROVE  /\ Len(clients'[f].raw) = sent'[c] - Len(inbox'[c])
             /\ \A i \in DOMAIN clients'[f].raw :
                  clients'[f].raw[i].from = c /\ clients'[f].raw[i].kind = Request[c][i]
  <2> DEFINE raw == clients[f].raw \o Taken(c)
  <2>1. /\ raw \in Seq(Piece) /\ Len(raw) = sent[c] - Len(Left(c))
        /\ \A i \in 1..Len(raw) : raw[i].from = c /\ raw[i].kind = Request[c][i]
    BY <1>5, ReadExtends
  <2>2. clients'[f].raw = raw
    BY <1>5
  <2> HIDE DEF raw
  <2>3. DOMAIN raw = 1..Len(raw)
    BY <2>1
  <2> QED
    BY <1>5, <2>1, <2>2, <2>3
<1> QED
  BY <1>2, <1>3, <1>4, <1>5, RecordChange

LEMMA RecordStepParsed ==
  ASSUME IInv, UseInv, InboxInOrder, RecordInOrder, RecordParsed, [Next]_vars
  PROVE  RecordParsed'
<1> SUFFICES ASSUME NEW c \in Conns, NEW f \in Fds, Recorded(c, f)'
             PROVE  LET q == clients'[f]
                    IN  /\ q.headerEnd = HeaderEnd(q.raw)
                        /\ q.headerEnd # 0 => q.length = Length[c]
                        /\ q.inBody = (q.headerEnd # 0 /\ q.length # 0)
  BY DEF RecordParsed
<1>2. CASE Recorded(c, f) /\ clients'[f] = clients[f]
  BY <1>2 DEF RecordParsed
<1>3. CASE clients'[f] = Fresh(f)
  <2>1. Fresh(f).headerEnd = 0 /\ Fresh(f).inBody = FALSE /\ Fresh(f).raw = <<>>
    BY DEF Fresh
  <2>2. HeaderEnd(<<>>) = 0
    <3> DEFINE e == <<>>
    <3>1. e \in Seq(Piece) /\ Len(e) = 0
      OBVIOUS
    <3> HIDE DEF e
    <3>2. HeaderEnd(e) \in 0..Len(e)
      BY <3>1, HeaderEndIs
    <3> QED
      BY <3>1, <3>2 DEF e
  <2> QED
    BY <1>3, <2>1, <2>2
<1>4. ASSUME NEW d \in Conns, Recorded(c, f), sent' = sent, inbox[c] # <<>>,
             clients[f] \in Client,
             clients'[f] = Parsed(clients[f], clients[f].raw \o Taken(c), d),
             IF ~clients[f].inBody /\ HeaderEnd(clients[f].raw \o Taken(c)) # 0
               THEN d \in Authors(clients[f].raw \o Taken(c)) ELSE d = c
      PROVE  LET q == clients'[f]
             IN  /\ q.headerEnd = HeaderEnd(q.raw)
                 /\ q.headerEnd # 0 => q.length = Length[c]
                 /\ q.inBody = (q.headerEnd # 0 /\ q.length # 0)
  <2> DEFINE r == clients[f]
             raw == r.raw \o Taken(c)
             q == Parsed(r, raw, d)
  <2>1. /\ raw \in Seq(Piece) /\ r.raw \in Seq(Piece) /\ Len(r.raw) < Len(raw)
        /\ \A i \in 1..Len(r.raw) : raw[i] = r.raw[i]
        /\ \A i \in 1..Len(raw) : raw[i].from = c
    BY <1>4, ReadExtends
  <2>2. /\ r.headerEnd = HeaderEnd(r.raw)
        /\ r.headerEnd # 0 => r.length = Length[c]
        /\ r.inBody = (r.headerEnd # 0 /\ r.length # 0)
        /\ r \in Client
    BY <1>4 DEF RecordParsed
  <2>3. d = c
    <3>1. HeaderEnd(raw) \in 0..Len(raw)
      BY <2>1, HeaderEndIs
    <3>2. Authors(raw) \subseteq {c}
      <4>1. \A i \in 1..HeaderEnd(raw) : i \in 1..Len(raw)
        BY <2>1, <3>1
      <4> QED
        BY <2>1, <4>1 DEF Authors
    <3> QED
      BY <1>4, <3>2
  <2>4. clients'[f] = q
    BY <1>4
  <2> HIDE DEF raw, r
  <2>5. HeaderEnd(raw) \in 0..Len(raw) /\ HeaderEnd(r.raw) \in 0..Len(r.raw)
    BY <2>1, HeaderEndIs
  <2>6. HeaderEnd(raw) = 0 => HeaderEnd(r.raw) = 0
    <3>1. SUFFICES ASSUME HeaderEnd(raw) = 0, HeaderEnd(r.raw) # 0 PROVE FALSE
      OBVIOUS
    <3>2. HeaderEnd(r.raw) \in 1..Len(r.raw) /\ r.raw[HeaderEnd(r.raw)].kind = "eoh"
      BY <2>1, <2>5, <3>1, HeaderEndIs
    <3>3. HeaderEnd(r.raw) \in 1..Len(raw) /\ raw[HeaderEnd(r.raw)].kind = "eoh"
      BY <2>1, <3>2
    <3> QED
      BY <2>1, <3>1, <3>3, HeaderEndIs
  <2>7. HeaderEnd(r.raw) # 0 => HeaderEnd(raw) = HeaderEnd(r.raw)
    <3>1. SUFFICES ASSUME HeaderEnd(r.raw) # 0 PROVE HeaderEnd(raw) = HeaderEnd(r.raw)
      OBVIOUS
    <3> DEFINE h == HeaderEnd(r.raw)
               k == HeaderEnd(raw)
    <3>2. /\ h \in 1..Len(r.raw) /\ r.raw[h].kind = "eoh"
          /\ \A i \in 1..Len(r.raw) : r.raw[i].kind = "eoh" => h <= i
      BY <2>1, <2>5, <3>1, HeaderEndIs
    <3>3. /\ k # 0 => raw[k].kind = "eoh" /\ \A i \in 1..Len(raw) : raw[i].kind = "eoh" => k <= i
          /\ k = 0 => \A i \in 1..Len(raw) : raw[i].kind # "eoh"
          /\ k \in 0..Len(raw)
      BY <2>1, <2>5, HeaderEndIs
    <3> HIDE DEF h, k
    <3>4. Len(r.raw) \in Nat /\ Len(raw) \in Nat
      BY <2>1
    <3>5. h \in 1..Len(raw) /\ raw[h].kind = "eoh"
      BY <2>1, <3>2, <3>4
    <3>6. k \in 1..h /\ raw[k].kind = "eoh"
      BY <3>3, <3>4, <3>5
    <3>7. k \in 1..Len(r.raw) /\ r.raw[k].kind = "eoh"
      BY <2>1, <3>2, <3>4, <3>6
    <3>8. h <= k
      BY <3>2, <3>7
    <3> QED
      BY <3>5, <3>6, <3>8 DEF h, k
  <2>8. CASE r.inBody \/ HeaderEnd(raw) = 0
    <3>1. q.raw = raw /\ q.headerEnd = r.headerEnd /\ q.length = r.length /\ q.inBody = r.inBody
      BY <2>2, <2>8 DEF Parsed, Client
    <3>2. q.headerEnd = HeaderEnd(raw)
      BY <2>2, <2>6, <2>7, <2>8, <3>1
    <3> QED
      BY <2>2, <2>4, <3>1, <3>2
  <2>9. CASE ~(r.inBody \/ HeaderEnd(raw) = 0)
    <3>1. q.raw = raw /\ q.headerEnd = HeaderEnd(raw) /\ q.length = Length[c] /\ q.inBody = (Length[c] # 0)
      BY <2>2, <2>3, <2>9 DEF Parsed, Client
    <3> QED
      BY <2>4, <2>9, <3>1
  <2> QED
    BY <2>8, <2>9
<1> QED
  BY <1>2, <1>3, <1>4, RecordChange

-----------------------------------------------------------------------------
\* What happens to the tasks.
LEMMA WorkStep ==
  ASSUME IInv, [Next]_vars
  PROVE  \/ UNCHANGED <<queue, running>> /\ StillClosing
         \/ \E i : ReadData(i)
         \/ \E w \in Workers : Begin(w) \/ Close(w)
<1>0. wpc \in [Workers -> {"idle", "lookup", "parse", "respond", "retry", "close"}]
  BY DEF IInv, TypeOK
<1>1. CASE Quiet \/ Register \/ \E f \in Fds : Inserts(f)
  BY <1>1, RegisterFacts DEF Quiet, Inserts, StillClosing
<1>2. ASSUME NEW c \in Conns, Connect(c) \/ Send(c) \/ HangUp(c) PROVE UNCHANGED <<queue, running, wpc>>
  BY <1>2 DEF Connect, Send, HangUp, work
<1>3. ASSUME NEW i, Accept(i) \/ ReadEnds(i) PROVE UNCHANGED <<queue, running, wpc>>
  BY <1>3, AcceptFacts, ReadEndsFacts
<1>4. ASSUME NEW w \in Workers, Respond(w) PROVE UNCHANGED <<queue, running>> /\ StillClosing
  BY <1>0, <1>4, RespondFacts DEF StillClosing
<1> QED
  BY <1>1, <1>2, <1>3, <1>4, StepKinds DEF StillClosing

\* A task comes from reading the end of a request on its descriptor.
LEMMA TaskStep ==
  ASSUME IInv, [Next]_vars, NEW f \in Fds
  PROVE  /\ Pending(f)' => Pending(f) \/ \E i : ReadData(i)
         /\ Dispatched(f)' => Dispatched(f) \/ \E i : ReadData(i)
<1>0. /\ wpc \in [Workers -> {"idle", "lookup", "parse", "respond", "retry", "close"}]
      /\ running \in [Workers -> Fds \cup {NoFd}] /\ NoFd \notin Fds
      /\ (wpc \in [Workers -> {"idle", "lookup", "parse", "respond", "retry", "close"}])'
  <2>1. TypeOK /\ TypeOK'
    BY NextIInv DEF IInv
  <2> QED
    BY <2>1, ServerAssumption DEF TypeOK
<1>1. CASE UNCHANGED <<queue, running>> /\ StillClosing
  BY <1>1 DEF StillClosing, Pending, Dispatched
<1>2. ASSUME NEW w \in Workers, Begin(w)
      PROVE  (Pending(f)' => Pending(f)) /\ (Dispatched(f)' => Dispatched(f))
  <2>1. \A j \in DOMAIN queue' : j + 1 \in DOMAIN queue /\ queue'[j] = queue[j + 1]
    BY <1>2, BeginFacts
  <2>2. \A v \in Workers : \/ running'[v] = running[v] /\ wpc'[v] = wpc[v]
                           \/ 1 \in DOMAIN queue /\ running'[v] = queue[1]
    BY <1>0, <1>2, BeginFacts
  <2> QED
    BY <2>1, <2>2 DEF Pending, Dispatched
<1>3. ASSUME NEW w \in Workers, Close(w)
      PROVE  (Pending(f)' => Pending(f)) /\ (Dispatched(f)' => Dispatched(f))
  <2>1. queue' = queue
    BY <1>3, CloseFacts
  <2>2. \A v \in Workers : \/ running'[v] = running[v] /\ wpc'[v] = wpc[v]
                           \/ running'[v] = NoFd
    BY <1>0, <1>3, CloseFacts
  <2> QED
    BY <1>0, <2>1, <2>2 DEF Pending, Dispatched
<1> QED
  BY <1>1, <1>2, <1>3, WorkStep

\* A record of the first pieces of a request ends its header where they do.
LEMMA RecordIsTaken ==
  ASSUME NEW c \in Conns, NEW raw \in Seq(Piece), NEW n \in 0..Len(Request[c]), Len(raw) = n,
         \A i \in 1..n : raw[i].kind = Request[c][i]
  PROVE  LET s == SubSeq(Request[c], 1, n)
         IN  s \in Seq({"head", "eoh", "body"}) /\ Len(s) = n /\ FirstEoh(s) = HeaderEnd(raw)
<1> DEFINE s == SubSeq(Request[c], 1, n)
<1>4. /\ s \in Seq({"head", "eoh", "body"}) /\ Len(s) = n
      /\ \A i \in 1..n : s[i] = Request[c][i]
  BY RequestType
<1>5. \A i \in 1..n : raw[i].kind = s[i]
  BY <1>4
<1> HIDE DEF s
<1>7. FirstEoh(s) = HeaderEnd(raw)
  <2> DEFINE h == FirstEoh(s)
             k == HeaderEnd(raw)
  <2>1. /\ h \in 0..n
        /\ h = 0 => \A i \in 1..n : s[i] # "eoh"
        /\ h # 0 => s[h] = "eoh"
        /\ h # 0 => \A i \in 1..n : s[i] = "eoh" => h <= i
    BY <1>4, FirstEohIs
  <2>2. /\ k \in 0..n
        /\ k = 0 => \A i \in 1..n : raw[i].kind # "eoh"
        /\ k # 0 => raw[k].kind = "eoh"
        /\ k # 0 => \A i \in 1..n : raw[i].kind = "eoh" => k <= i
    BY <1>5, HeaderEndIs
  <2> HIDE DEF h, k
  <2>3. n \in Nat
    BY RequestType
  <2> QED
    <3>1. CASE h = 0
      BY <1>5, <2>1, <2>2, <2>3, <3>1 DEF h, k
    <3>2. CASE k = 0
      BY <1>5, <2>1, <2>2, <2>3, <3>2 DEF h, k
    <3>3. CASE h # 0 /\ k # 0
      <4>1. h <= k /\ k <= h
        BY <1>5, <2>1, <2>2, <2>3, <3>3
      <4> QED
        BY <2>1, <2>2, <2>3, <4>1 DEF h, k
    <3> QED
      BY <3>1, <3>2, <3>3
<1> QED
  BY <1>4, <1>7 DEF s

\* A connection is handed to the pool when its request is complete.
LEMMA HandedOver ==
  ASSUME IInv, UseInv, InboxInOrder, RecordInOrder, RecordParsed, [Next]_vars,
         (InboxInOrder /\ RecordInOrder /\ RecordParsed)',
         NEW i, ReadData(i), NEW c \in Conns, NEW f \in Fds, SoleUser(c, f), sock[f] = c,
         \E j \in DOMAIN queue' : queue'[j] = f, \A j \in DOMAIN queue : queue[j] # f
  PROVE  /\ CompleteIn(c, SubSeq(Request[c], 1, sent'[c] - Len(inbox'[c]))) /\ inbox[c] # <<>>
         /\ queue \in Seq(Fds) /\ queue' = Append(queue, f) /\ UNCHANGED <<running, replies, wpc>>
<1>1. PICK g \in Fds, e \in Conns, d \in Conns :
           LET r == clients[g]
               raw == r.raw \o Taken(e)
               q == Parsed(r, raw, d)
           IN  /\ Listed(g) /\ sock[g] = e /\ fdOf[e] = g /\ inbox[e] # <<>>
               /\ r \in Client /\ r.fd = g /\ q \in Client /\ q.fd = g /\ q.raw = raw
               /\ clients' = [clients EXCEPT ![g] = q]
               /\ IF EndOfConnection(r, q) THEN queue' = Append(queue, g) ELSE queue' = queue
               /\ sock' = sock
               /\ UNCHANGED <<running, wpc, replies, fdOf>>
  BY ReadDataFacts
<1> DEFINE r == clients[g]
           q == Parsed(r, r.raw \o Taken(e), d)
<1>2. queue \in Seq(Fds) /\ clients \in [Fds -> Client \cup {NoClient}]
  BY DEF IInv, TypeOK
<1>3. /\ q \in Client /\ q.fd = g /\ clients' = [clients EXCEPT ![g] = q] /\ r \in Client
      /\ IF EndOfConnection(r, q) THEN queue' = Append(queue, g) ELSE queue' = queue
      /\ q.raw = r.raw \o Taken(e)
  BY <1>1
<1>4. r.inBody => q.inBody
  BY <1>3 DEF Parsed, Client
<1>5. q = clients'[g]
  BY <1>2, <1>3
<1> HIDE DEF r, q
<1>6. EndOfConnection(r, q) /\ queue' = Append(queue, g) /\ g = f
  <2>1. PICK j \in DOMAIN queue' : queue'[j] = f
    OBVIOUS
  <2> QED
    <3>1. queue' # queue
      BY <2>1
    <3>2. queue' = Append(queue, g) /\ EndOfConnection(r, q)
      BY <1>3, <3>1
    <3>3. j \in DOMAIN queue \/ queue'[j] = g
      BY <1>2, <2>1, <3>2
    <3>4. j \in DOMAIN queue => queue'[j] = queue[j]
      BY <1>2, <3>2
    <3> QED
      BY <2>1, <3>2, <3>3, <3>4
<1>7. c = e
  BY <1>1, <1>6
<1>8. Recorded(c, f)'
  <2>1. SoleUser(c, f)'
    BY <1>1, SameUsers
  <2>2. clients'[f] \in Client /\ clients'[f].fd = f
    BY <1>3, <1>5, <1>6
  <2> QED
    BY <1>1, <2>1, <2>2, ServerAssumption DEF Recorded
<1> DEFINE n == sent'[c] - Len(inbox'[c])
           s == SubSeq(Request[c], 1, n)
<1>9. Len(s) = Len(q.raw) /\ q.raw \in Seq(Piece) /\ FirstEoh(s) = HeaderEnd(q.raw)
  <2>1. q.raw \in Seq(Piece)
    BY <1>3 DEF Client
  <2>2. n \in 0..Len(Request[c])
    <3>1. TypeOK'
      BY NextIInv DEF IInv
    <3>2. sent'[c] \in Nat /\ Len(inbox'[c]) \in Nat /\ Len(Request[c]) \in Nat
      <4>1. sent' \in [Conns -> Nat] /\ inbox' \in [Conns -> Seq(Piece)]
        BY <3>1 DEF TypeOK
      <4>2. sent'[c] \in Nat /\ inbox'[c] \in Seq(Piece) /\ Request[c] \in Seq({"head", "eoh", "body"})
        BY <4>1, ServerAssumption
      <4> QED
        BY <4>2
    <3>3. sent'[c] <= Len(Request[c]) /\ Len(inbox'[c]) <= sent'[c]
      BY DEF InboxInOrder
    <3> QED
      BY <3>2, <3>3
  <2>3. Len(q.raw) = n /\ \A k \in DOMAIN q.raw : q.raw[k].kind = Request[c][k]
    BY <1>5, <1>6, <1>8 DEF RecordInOrder
  <2>4. \A k \in 1..n : q.raw[k].kind = Request[c][k]
    BY <2>1, <2>3
  <2> HIDE DEF n
  <2> QED
    BY <2>1, <2>2, <2>3, <2>4, RecordIsTaken
<1> HIDE DEF s
<1>10. /\ q.headerEnd = HeaderEnd(q.raw)
       /\ q.headerEnd # 0 => q.length = Length[c]
       /\ q.inBody = (q.headerEnd # 0 /\ q.length # 0)
  BY <1>5, <1>6, <1>8 DEF RecordParsed
<1>11. FirstEoh(s) # 0 /\ Len(s) - FirstEoh(s) >= Length[c]
  <2>1. HeaderEnd(q.raw) \in 0..Len(q.raw) /\ Len(q.raw) \in Nat
    BY <1>9, HeaderEndIs
  <2>2. CASE r.inBody
    BY <1>4, <1>6, <1>9, <1>10, <2>1, <2>2 DEF EndOfConnection
  <2>3. CASE ~r.inBody
    BY <1>6, <1>9, <1>10, <2>1, <2>3 DEF EndOfConnection
  <2> QED
    BY <2>2, <2>3
<1>12. CompleteIn(c, s)
  BY <1>11 DEF CompleteIn, FirstEoh
<1> QED
  BY <1>1, <1>2, <1>6, <1>7, <1>12 DEF s

\* What was taken of the request of a connection that is still open grows.
LEMMA TakenGrows ==
  ASSUME IInv, InboxInOrder, InboxInOrder', [Next]_vars, NEW c \in Conns, NEW f \in Fds,
         sock[f] = c, sock'[f] = c
  PROVE  LET m == sent[c] - Len(inbox[c])
             n == sent'[c] - Len(inbox'[c])
         IN  m \in 0..Len(Request[c]) /\ n \in m..Len(Request[c])
<1>1. /\ inbox \in [Conns -> Seq(Piece)] /\ sent \in [Conns -> Nat]
      /\ inbox' \in [Conns -> Seq(Piece)] /\ sent' \in [Conns -> Nat]
      /\ Request[c] \in Seq({"head", "eoh", "body"})
      /\ sock \in [Fds -> Conns \cup {NoConn}] /\ NoConn \notin Conns
  <2>1. TypeOK /\ TypeOK'
    BY NextIInv DEF IInv
  <2> QED
    BY <2>1, ServerAssumption DEF TypeOK
<1>2. /\ sent[c] <= Len(Request[c]) /\ Len(inbox[c]) <= sent[c]
      /\ sent'[c] <= Len(Request[c]) /\ Len(inbox'[c]) <= sent'[c]
  BY DEF InboxInOrder
<1>3. /\ sent[c] \in Nat /\ Len(inbox[c]) \in Nat /\ Len(Request[c]) \in Nat
      /\ sent'[c] \in Nat /\ Len(inbox'[c]) \in Nat
  BY <1>1
<1>4. sent[c] - Len(inbox[c]) <= sent'[c] - Len(inbox'[c])
  <2>1. CASE inbox'[c] = inbox[c] /\ sent'[c] = sent[c]
    BY <1>3, <2>1
  <2>2. ASSUME NEW d \in Conns, Send(d) PROVE sent[c] - Len(inbox[c]) <= sent'[c] - Len(inbox'[c])
    <3>1. PICK p \in Piece : inbox' = [inbox EXCEPT ![d] = Append(@, p)] /\ sent' = [sent EXCEPT ![d] = @ + 1]
      BY <2>2, SendFacts
    <3>2. CASE d # c
      BY <1>1, <2>1, <3>1, <3>2
    <3>3. CASE d = c
      <4>1. inbox'[c] = Append(inbox[c], p) /\ sent'[c] = sent[c] + 1 /\ inbox[c] \in Seq(Piece)
        BY <1>1, <3>1, <3>3
      <4>2. Len(inbox'[c]) = Len(inbox[c]) + 1
        BY <4>1
      <4> QED
        BY <1>3, <4>1, <4>2
    <3> QED
      BY <3>2, <3>3
  <2>3. ASSUME NEW i, ReadData(i) PROVE sent[c] - Len(inbox[c]) <= sent'[c] - Len(inbox'[c])
    <3>1. PICK e \in Conns : inbox' = [inbox EXCEPT ![e] = Left(e)] /\ sent' = sent
      BY <2>3, ReadDataFacts
    <3>2. CASE e # c
      BY <1>1, <2>1, <3>1, <3>2
    <3>3. CASE e = c
      <4>1. inbox'[c] = Left(c) /\ sent'[c] = sent[c]
        BY <1>1, <3>1, <3>3
      <4>2. PICK n \in 0..Len(inbox[c]) : Len(Left(c)) = Len(inbox[c]) - n
        BY TakenAndLeft DEF IInv
      <4>3. Len(inbox'[c]) <= Len(inbox[c])
        BY <1>3, <4>1, <4>2
      <4> QED
        BY <1>3, <4>1, <4>3
    <3> QED
      BY <3>2, <3>3
  <2>4. ASSUME NEW w \in Workers, Close(w) PROVE inbox'[c] = inbox[c] /\ sent'[c] = sent[c]
    <3>1. /\ running[w] \in Fds /\ sent' = sent /\ sock' = [sock EXCEPT ![running[w]] = NoConn]
          /\ inbox' = [d \in Conns |-> IF d = sock[running[w]] THEN <<>> ELSE inbox[d]]
      BY <2>4, CloseFacts
    <3>2. running[w] # f
      BY <1>1, <3>1
    <3>3. sock[running[w]] # c
      BY <1>1, <3>1, <3>2 DEF IInv, SockIsFdOf
    <3> QED
      BY <1>1, <3>1, <3>3
  <2> QED
    BY <2>1, <2>2, <2>3, <2>4, InboxStep
<1> QED
  <2> DEFINE a == Len(inbox[c])
             b == Len(inbox'[c])
             k == Len(Request[c])
  <2>1. /\ sent[c] \in Nat /\ sent'[c] \in Nat /\ a \in Nat /\ b \in Nat /\ k \in Nat
        /\ sent[c] <= k /\ a <= sent[c] /\ sent'[c] <= k /\ b <= sent'[c]
        /\ sent[c] - a <= sent'[c] - b
    BY <1>2, <1>3, <1>4
  <2> HIDE DEF a, b, k
  <2>2. sent[c] - a \in 0..k /\ sent'[c] - b \in (sent[c] - a)..k
    BY <2>1
  <2> QED
    BY <2>2 DEF a, b, k

LEMMA PendingStep ==
  ASSUME IInv, UseInv, OrderInv, [Next]_vars,
         (InboxInOrder /\ RecordInOrder /\ RecordParsed)'
  PROVE  PendingComplete'
<1> SUFFICES ASSUME NEW c \in Conns, NEW f \in Fds, SoleUser(c, f)', sock'[f] = c, Pending(f)'
             PROVE  CompleteIn(c, SubSeq(Request[c], 1, sent'[c] - Len(inbox'[c])))
  BY DEF PendingComplete, TakenFrom
<1>1. SoleUser(c, f) /\ sock[f] = c
  <2>1. Touched(f)'
    BY DEF Touched, Pending, Dispatched
  <2> QED
    BY <2>1, SatThere
<1>2. CASE Pending(f)
  <2>1. CompleteIn(c, SubSeq(Request[c], 1, sent[c] - Len(inbox[c])))
    BY <1>1, <1>2 DEF OrderInv, PendingComplete, TakenFrom
  <2> DEFINE m == sent[c] - Len(inbox[c])
             n == sent'[c] - Len(inbox'[c])
  <2>2. m \in 0..Len(Request[c]) /\ n \in m..Len(Request[c])
    BY <1>1, TakenGrows DEF OrderInv
  <2>3. CompleteIn(c, SubSeq(Request[c], 1, m))
    BY <2>1
  <2> HIDE DEF m, n
  <2>4. CompleteIn(c, SubSeq(Request[c], 1, n))
    BY <2>2, <2>3, CompleteStays
  <2> QED
    BY <2>4 DEF n
<1>3. CASE ~Pending(f)
  <2>1. PICK i : ReadData(i)
    BY <1>3, TaskStep
  <2>2. \A j \in DOMAIN queue : queue[j] # f
    BY <1>3 DEF Pending
  <2>3. UNCHANGED <<running, wpc>>
    BY <2>1, ReadDataFacts
  <2>4. \E j \in DOMAIN queue' : queue'[j] = f
    BY <1>3, <2>3 DEF Pending
  <2> QED
    BY <1>1, <2>1, <2>2, <2>4, HandedOver DEF OrderInv
<1> QED
  BY <1>2, <1>3

LEMMA OrderStep ==
  ASSUME IInv, UseInv, OrderInv, [Next]_vars
  PROVE  OrderInv'
<1>1. InboxInOrder' /\ UnreadBefore' /\ RecordInOrder' /\ RecordParsed'
  BY InboxInOrderStep, UnreadStep, RecordStepInOrder, RecordStepParsed DEF OrderInv
<1>2. PendingComplete'
  BY <1>1, PendingStep
<1> QED
  BY <1>1, <1>2 DEF OrderInv

LEMMA InitOrder == Init => OrderInv
<1> SUFFICES ASSUME Init PROVE OrderInv
  OBVIOUS
<1>1. /\ NoFd \notin Fds
      /\ \A c \in Conns : fdOf[c] = NoFd /\ inbox[c] = <<>> /\ sent[c] = 0
      /\ \A c \in Conns : Request[c] \in Seq({"head", "eoh", "body"})
  BY ServerAssumption DEF Init
<1>2. \A c \in Conns, f \in Fds : ~SoleUser(c, f)
  BY <1>1 DEF SoleUser, Users
<1>3. InboxInOrder
  BY <1>1 DEF InboxInOrder
<1>4. UnreadBefore
  BY <1>1 DEF UnreadBefore
<1> QED
  BY <1>2, <1>3, <1>4 DEF OrderInv, RecordInOrder, RecordParsed, Recorded, PendingComplete

\* Nothing that can still answer has cardinality 0.
LEMMA UnansweredIsPending ==
  ASSUME NEW f, ~Pending(f)
  PROVE  Unanswered(f) = 0
<1>1. /\ {i \in DOMAIN queue : queue[i] = f} = {}
      /\ {w \in Workers : running[w] = f /\ wpc[w] # "close"} = {}
  BY DEF Pending
<1> QED
  BY <1>1, FS_EmptySet DEF Unanswered

\* When a connection is handed to the pool, its header and its body have been read.
THEOREM DispatchesComplete == Spec => []DispatchedComplete
<1>1. Init => IInv /\ UseInv /\ OrderInv
  BY InitIInv, InitUse, InitOrder
<1>2. IInv /\ UseInv /\ OrderInv /\ [Next]_vars => (IInv /\ UseInv /\ OrderInv)'
  BY NextIInv, UseStep, OrderStep
<1>3. OrderInv => DispatchedComplete
  <2> SUFFICES ASSUME OrderInv, NEW c \in Conns, NEW f \in Fds,
                      SoleUser(c, f), sock[f] = c, Unanswered(f) > 0
               PROVE  CompleteIn(c, TakenFrom(c))
    BY DEF DispatchedComplete
  <2>1. Pending(f)
    BY UnansweredIsPending
  <2> QED
    BY <2>1 DEF OrderInv, PendingComplete
<1> QED
  BY <1>1, <1>2, <1>3, PTL DEF Spec

-----------------------------------------------------------------------------
(* HandledOnce. *)

\* A request that is exact is complete only when all of it is there.
LEMMA CompleteIsAll ==
  ASSUME NEW c \in Conns, Exact(c), NEW n \in 0..Len(Request[c]),
         CompleteIn(c, SubSeq(Request[c], 1, n))
  PROVE  n = Len(Request[c])
<1> DEFINE s == SubSeq(Request[c], 1, n)
           t == Request[c]
<1>1. /\ t \in Seq({"head", "eoh", "body"}) /\ Length[c] \in Int
      /\ s \in Seq({"head", "eoh", "body"}) /\ Len(s) = n /\ \A i \in 1..n : s[i] = t[i]
  BY RequestType, ServerAssumption
<1>2. FirstEoh(t) # 0 /\ Len(t) - FirstEoh(t) = Length[c]
  BY DEF Exact, FirstEoh
<1>3. FirstEoh(s) # 0 /\ Len(s) - FirstEoh(s) >= Length[c]
  BY DEF CompleteIn, FirstEoh
<1> HIDE DEF s, t
<1> DEFINE h == FirstEoh(s)
           k == FirstEoh(t)
<1>4. h \in 0..n /\ h # 0 /\ s[h] = "eoh" /\ k \in 0..Len(t)
  BY <1>1, <1>3, FirstEohIs
<1>5. \A i \in 1..Len(t) : t[i] = "eoh" => k <= i
  BY <1>1, <1>2, FirstEohIs
<1> HIDE DEF h, k
<1>6. n \in 0..Len(t) /\ Len(t) \in Nat
  BY <1>1 DEF t
<1>7. h \in 1..n /\ h \in 1..Len(t)
  BY <1>4, <1>6
<1>8. t[h] = "eoh"
  BY <1>1, <1>4, <1>7
<1>9. k <= h
  BY <1>5, <1>7, <1>8
<1>10. n - h >= Length[c] /\ Len(t) - k = Length[c]
  BY <1>1, <1>2, <1>3 DEF h, k
<1>11. n = Len(t)
  BY <1>1, <1>4, <1>6, <1>9, <1>10
<1> QED
  BY <1>11 DEF t

\* Answers are given by workers.
LEMMA RepliesStep ==
  ASSUME IInv, [Next]_vars
  PROVE  replies' = replies \/ \E w \in Workers : Respond(w)
<1>1. CASE Quiet \/ Register \/ \E f \in Fds : Inserts(f)
  BY <1>1, RegisterFacts DEF Quiet, Inserts
<1>2. ASSUME NEW c \in Conns, Connect(c) \/ Send(c) \/ HangUp(c) PROVE replies' = replies
  BY <1>2 DEF Connect, Send, HangUp, hist
<1>3. ASSUME NEW i, Accept(i) \/ ReadEnds(i) \/ ReadData(i) PROVE replies' = replies
  BY <1>3, AcceptFacts, ReadEndsFacts, ReadDataFacts
<1>4. ASSUME NEW w \in Workers, Begin(w) \/ Close(w) PROVE replies' = replies
  BY <1>4, BeginFacts, CloseFacts
<1> QED
  BY <1>1, <1>2, <1>3, <1>4, StepKinds

\* The only user of a descriptor was its only user before, or nothing was done
\* for it yet.
LEMMA NewUserIsNew ==
  ASSUME IInv, UseInv, [Next]_vars, NEW c \in Conns, NEW f \in Fds,
         SoleUser(c, f)', ~SoleUser(c, f)
  PROVE  replies'[c] = <<>> /\ ~Dispatched(f)' /\ ~Pending(f)'
<1>1. ~Touched(f)'
  BY UsersStep
<1>2. PICK i : Accept(i)
  BY SockStep, SameUsers
<1>3. replies'[c] = <<>>
  <2>1. PICK g \in Fds, d \in Conns :
          /\ fdOf[d] = NoFd /\ d \notin Users(g) /\ Users(g)' = Users(g) \cup {d}
          /\ \A h \in Fds : h # g => Users(h)' = Users(h)
          /\ replies' = replies
    BY <1>2, AcceptFacts
  <2>2. g = f
    BY <2>1 DEF SoleUser
  <2>3. d = c
    BY <2>1, <2>2 DEF SoleUser
  <2> QED
    BY <2>1, <2>3 DEF IInv, AnsweredWasAccepted
<1> QED
  BY <1>1, <1>3 DEF Touched, Pending, Dispatched

LEMMA AllReadStep ==
  ASSUME IInv, UseInv, OrderInv, OrderInv', AllWasRead, [Next]_vars
  PROVE  AllWasRead'
<1> SUFFICES ASSUME NEW c \in Conns, NEW f \in Fds, Exact(c), SoleUser(c, f)',
                    Dispatched(f)' \/ replies'[c] # <<>>
             PROVE  sent'[c] = Len(Request[c]) /\ inbox'[c] = <<>>
  BY DEF AllWasRead
<1>1. SoleUser(c, f) /\ fdOf[c] = f
  BY NewUserIsNew, SoleIsNotTwo
<1>2. inbox \in [Conns -> Seq(Piece)] /\ sent \in [Conns -> Nat] /\ Request[c] \in Seq({"head", "eoh", "body"})
  BY ServerAssumption DEF IInv, TypeOK
<1>3. inbox' \in [Conns -> Seq(Piece)] /\ sent' \in [Conns -> Nat]
  <2>1. TypeOK'
    BY NextIInv DEF IInv
  <2> QED
    BY <2>1 DEF TypeOK
<1>4. CASE Dispatched(f) \/ replies[c] # <<>>
  <2>1. sent[c] = Len(Request[c]) /\ inbox[c] = <<>>
    BY <1>1, <1>4 DEF AllWasRead
  <2>2. ASSUME NEW d \in Conns, Send(d) PROVE sent'[c] = sent[c] /\ inbox'[c] = inbox[c]
    <3>1. PICK p \in Piece : /\ inbox' = [inbox EXCEPT ![d] = Append(@, p)] /\ sent' = [sent EXCEPT ![d] = @ + 1]
                             /\ sent[d] < Len(Request[d])
      BY <2>2, SendFacts
    <3>2. d # c
      BY <1>2, <2>1, <3>1
    <3> QED
      BY <1>2, <3>1, <3>2
  <2>3. ASSUME NEW i, ReadData(i) PROVE sent'[c] = sent[c] /\ inbox'[c] = inbox[c]
    <3>1. PICK e \in Conns : inbox[e] # <<>> /\ inbox' = [inbox EXCEPT ![e] = Left(e)] /\ sent' = sent
      BY <2>3, ReadDataFacts
    <3> QED
      BY <1>2, <2>1, <3>1
  <2>4. ASSUME NEW w \in Workers, Close(w) PROVE sent'[c] = sent[c] /\ inbox'[c] = <<>>
    BY <2>1, <2>4, CloseFacts
  <2> QED
    BY <2>1, <2>2, <2>3, <2>4, InboxStep
<1>5. CASE ~Dispatched(f) /\ replies[c] = <<>>
  <2>1. replies'[c] = <<>>
    <3>1. ASSUME NEW w \in Workers, Respond(w), replies'[c] # <<>> PROVE FALSE
      <4>1. /\ running[w] \in Fds /\ sock[running[w]] \in Conns /\ fdOf[sock[running[w]]] = running[w]
            /\ \/ replies' = [replies EXCEPT ![sock[running[w]]] = Append(@, view[w].from)]
               \/ replies' = replies
        BY <3>1, RespondFacts
      <4>2. sock[running[w]] = c
        <5>1. replies \in [Conns -> Seq(Conns \cup {Garbled})]
          BY DEF IInv, TypeOK
        <5> QED
          BY <1>5, <3>1, <4>1, <5>1
      <4> QED
        BY <1>1, <1>5, <4>1, <4>2 DEF Dispatched
    <3> QED
      BY <1>5, <3>1, RepliesStep
  <2>2. PICK i : ReadData(i)
    BY <1>5, <2>1, TaskStep
  <2>3. sock[f] = c /\ \E j \in DOMAIN queue' : queue'[j] = f
    <3>1. UNCHANGED running
      BY <2>2, ReadDataFacts
    <3>2. PICK j \in DOMAIN queue' : queue'[j] = f
      BY <1>5, <2>1, <3>1 DEF Dispatched
    <3>3. PICK g \in Fds, e \in Conns :
            sock[g] = e /\ fdOf[e] = g /\ (queue' = Append(queue, g) \/ queue' = queue)
      BY <2>2, ReadDataFacts
    <3>4. queue \in Seq(Fds)
      BY DEF IInv, TypeOK
    <3>5. g = f
      BY <1>5, <3>2, <3>3, <3>4 DEF Dispatched
    <3>6. e = c
      BY <1>1, <3>3, <3>5 DEF SoleUser, Users
    <3> QED
      BY <3>2, <3>3, <3>5, <3>6
  <2>4. \A j \in DOMAIN queue : queue[j] # f
    BY <1>5 DEF Dispatched
  <2> DEFINE n == sent'[c] - Len(inbox'[c])
  <2>5. CompleteIn(c, SubSeq(Request[c], 1, n))
    <3>1. (InboxInOrder /\ RecordInOrder /\ RecordParsed)'
      BY DEF OrderInv
    <3> QED
      BY <1>1, <2>2, <2>3, <2>4, <3>1, HandedOver DEF OrderInv
  <2>6. /\ sent'[c] <= Len(Request[c]) /\ Len(inbox'[c]) <= sent'[c]
        /\ sent'[c] \in Nat /\ Len(inbox'[c]) \in Nat /\ Len(Request[c]) \in Nat
        /\ inbox'[c] \in Seq(Piece)
    <3>1. InboxInOrder'
      BY DEF OrderInv
    <3> QED
      BY <1>2, <1>3, <3>1 DEF InboxInOrder
  <2>7. n \in 0..Len(Request[c])
    BY <2>6
  <2>8. n = Len(Request[c])
    <3> HIDE DEF n
    <3> QED
      BY <2>5, <2>7, CompleteIsAll
  <2>9. Len(inbox'[c]) = 0 /\ sent'[c] = Len(Request[c])
    BY <2>6, <2>8
  <2> QED
    BY <2>6, <2>9
<1> QED
  BY <1>4, <1>5

LEMMA OneTaskStep ==
  ASSUME IInv, UseInv, OrderInv, OrderInv', AllWasRead, OneTask, [Next]_vars
  PROVE  OneTask'
<1> DEFINE Single(c, f, q, run, rep) ==
             /\ Len(rep[c]) <= 1
             /\ \A i, j \in DOMAIN q : q[i] = f /\ q[j] = f => i = j
             /\ \A v, w \in Workers : run[v] = f /\ run[w] = f => v = w
             /\ \A i \in DOMAIN q, w \in Workers : ~(q[i] = f /\ run[w] = f)
<1> SUFFICES ASSUME NEW c \in Conns, NEW f \in Fds, Exact(c), SoleUser(c, f)'
             PROVE  Single(c, f, queue', running', replies') /\ (replies'[c] # <<>> => ~Pending(f)')
  BY DEF OneTask
<1>1. /\ queue \in Seq(Fds) /\ running \in [Workers -> Fds \cup {NoFd}] /\ NoFd \notin Fds
      /\ replies \in [Conns -> Seq(Conns \cup {Garbled})]
      /\ wpc \in [Workers -> {"idle", "lookup", "parse", "respond", "retry", "close"}]
  BY ServerAssumption DEF IInv, TypeOK
<1>2. CASE ~SoleUser(c, f)
  <2>1. replies'[c] = <<>> /\ ~Dispatched(f)' /\ ~Pending(f)'
    BY <1>2, NewUserIsNew
  <2> QED
    BY <2>1 DEF Dispatched
<1>3. CASE SoleUser(c, f)
  <2>1. /\ Single(c, f, queue, running, replies) /\ (replies[c] # <<>> => ~Pending(f))
        /\ fdOf[c] = f
    BY <1>3, SoleIsNotTwo DEF OneTask
  <2>2. CASE UNCHANGED <<queue, running, replies>> /\ StillClosing
    BY <2>1, <2>2 DEF StillClosing, Pending
  <2>3. ASSUME NEW w \in Workers, Begin(w)
        PROVE Single(c, f, queue', running', replies') /\ (replies'[c] # <<>> => ~Pending(f)')
    <3>1. /\ 1 \in DOMAIN queue /\ queue[1] \in Fds
          /\ running[w] = NoFd /\ running' = [running EXCEPT ![w] = queue[1]]
          /\ DOMAIN queue' = 1..(Len(queue) - 1)
          /\ \A j \in DOMAIN queue' : j + 1 \in DOMAIN queue /\ queue'[j] = queue[j + 1]
          /\ replies' = replies
      BY <2>3, BeginFacts
    <3>2. \A i, j \in DOMAIN queue' : queue'[i] = f /\ queue'[j] = f => i = j
      BY <2>1, <3>1
    <3>3. \A v \in Workers : running'[v] = f => (v # w /\ running[v] = f) \/ (v = w /\ queue[1] = f)
      BY <1>1, <3>1
    <3>4. \A u, v \in Workers : running'[u] = f /\ running'[v] = f => u = v
      BY <2>1, <3>1, <3>3
    <3>5. ASSUME NEW i \in DOMAIN queue', NEW v \in Workers, queue'[i] = f, running'[v] = f PROVE FALSE
      <4>1. i + 1 \in DOMAIN queue /\ queue[i + 1] = f /\ i + 1 # 1
        BY <3>1, <3>5
      <4> QED
        BY <2>1, <3>1, <3>3, <3>5, <4>1
    <3>6. replies'[c] # <<>> => ~Pending(f)'
      <4>1. Pending(f)' => Pending(f)
        <5>1. \A v \in Workers : \/ running'[v] = running[v] /\ wpc'[v] = wpc[v]
                                 \/ running'[v] = queue[1]
          BY <1>1, <2>3, BeginFacts
        <5> QED
          BY <3>1, <5>1 DEF Pending
      <4> QED
        BY <2>1, <3>1, <4>1
    <3> QED
      BY <2>1, <3>1, <3>2, <3>4, <3>5, <3>6
  <2>4. ASSUME NEW w \in Workers, Close(w)
        PROVE Single(c, f, queue', running', replies') /\ (replies'[c] # <<>> => ~Pending(f)')
    <3>1. queue' = queue /\ running' = [running EXCEPT ![w] = NoFd] /\ replies' = replies
          /\ wpc' = [wpc EXCEPT ![w] = "idle"]
      BY <2>4, CloseFacts
    <3>2. \A v \in Workers : running'[v] = f => running[v] = f /\ wpc'[v] = wpc[v]
      BY <1>1, <3>1
    <3> QED
      BY <2>1, <3>1, <3>2 DEF Pending
  <2>5. ASSUME NEW w \in Workers, Respond(w)
        PROVE Single(c, f, queue', running', replies') /\ (replies'[c] # <<>> => ~Pending(f)')
    <3> DEFINE d == sock[running[w]]
               a == view[w].from
    <3>1. /\ running[w] \in Fds /\ d \in Conns /\ fdOf[d] = running[w]
          /\ wpc[w] \in {"respond", "retry"} /\ wpc' = [wpc EXCEPT ![w] = "close"]
          /\ replies' = [replies EXCEPT ![d] = Append(@, a)] \/ replies' = replies
          /\ UNCHANGED <<queue, running>>
      BY <2>5, RespondFacts
    <3> HIDE DEF d, a
    <3>2. StillClosing
      BY <1>1, <3>1 DEF StillClosing
    <3>3. CASE replies'[c] = replies[c]
      BY <2>1, <3>1, <3>2, <3>3 DEF StillClosing, Pending
    <3>4. CASE replies'[c] # replies[c]
      <4>1. d = c /\ replies'[c] = Append(replies[c], a)
        BY <1>1, <3>1, <3>4
      <4>2. running[w] = f /\ Pending(f)
        BY <2>1, <3>1, <4>1 DEF Pending
      <4>3. replies[c] = <<>>
        BY <2>1, <4>2
      <4>4. Len(replies'[c]) = 1
        BY <4>1, <4>3
      <4>5. ~Pending(f)'
        <5>1. \A i \in DOMAIN queue : queue[i] # f
          BY <2>1, <4>2
        <5>2. \A v \in Workers : running[v] = f => v = w
          BY <2>1, <4>2
        <5>3. wpc'[w] = "close"
          BY <1>1, <3>1
        <5> QED
          BY <3>1, <5>1, <5>2, <5>3 DEF Pending
      <4> QED
        BY <2>1, <3>1, <4>4, <4>5
    <3> QED
      BY <3>3, <3>4
  <2>6. ASSUME NEW i, ReadData(i), replies' = replies
        PROVE Single(c, f, queue', running', replies') /\ (replies'[c] # <<>> => ~Pending(f)')
    <3>1. PICK g \in Fds, e \in Conns :
            /\ sock[g] = e /\ fdOf[e] = g /\ inbox[e] # <<>>
            /\ queue' = Append(queue, g) \/ queue' = queue
            /\ UNCHANGED <<running, wpc>>
      BY <2>6, ReadDataFacts
    <3>2. CASE queue' = queue
      BY <2>1, <2>6, <3>1, <3>2 DEF Pending
    <3>3. CASE queue' = Append(queue, g)
      <4>1. /\ DOMAIN queue' = 1..(Len(queue) + 1) /\ DOMAIN queue = 1..Len(queue) /\ Len(queue) \in Nat
            /\ queue'[Len(queue) + 1] = g
            /\ \A j \in 1..Len(queue) : queue'[j] = queue[j]
        BY <1>1, <3>3
      <4>2. CASE g # f
        <5>1. \A j \in DOMAIN queue' : queue'[j] = f => j \in DOMAIN queue /\ queue[j] = f
          BY <4>1, <4>2
        <5> QED
          BY <2>1, <2>6, <3>1, <5>1 DEF Pending
      <4>3. CASE g = f
        <5>1. e = c
          BY <1>3, <3>1, <4>3 DEF SoleUser, Users
        <5>2. ~Dispatched(f) /\ replies[c] = <<>>
          BY <1>3, <3>1, <5>1 DEF AllWasRead
        <5>3. \A j \in DOMAIN queue' : queue'[j] = f => j = Len(queue) + 1
          BY <4>1, <5>2 DEF Dispatched
        <5>4. \A w \in Workers : running'[w] # f
          BY <3>1, <5>2 DEF Dispatched
        <5> QED
          BY <2>6, <5>2, <5>3, <5>4
      <4> QED
        BY <4>2, <4>3
    <3> QED
      BY <3>1, <3>2, <3>3
  <2> HIDE DEF Single
  <2>7. CASE \E w \in Workers : Respond(w)
    BY <2>5, <2>7
  <2>8. CASE replies' = replies
    BY <2>2, <2>3, <2>4, <2>6, <2>8, WorkStep
  <2> QED
    BY <2>7, <2>8, RepliesStep
<1> HIDE DEF Single
<1> QED
  BY <1>2, <1>3

\* A set with one member at most has at most one.
LEMMA AtMostOne ==
  ASSUME NEW S, \A x, y \in S : x = y
  PROVE  Cardinality(S) \in {0, 1} /\ (S = {} => Cardinality(S) = 0)
<1>1. CASE S = {}
  BY <1>1, FS_EmptySet
<1>2. CASE S # {}
  <2>1. PICK x \in S : TRUE
    BY <1>2
  <2>2. S = {x}
    BY <2>1
  <2> QED
    BY <2>2, FS_Singleton
<1> QED
  BY <1>1, <1>2

\* A request is handled once.
THEOREM RequestsHandledOnce == Spec => []HandledOnce
<1>1. Init => IInv /\ UseInv /\ OrderInv /\ OnceInv
  <2> SUFFICES ASSUME Init PROVE OnceInv
    BY InitIInv, InitUse, InitOrder
  <2>1. \A c \in Conns, f \in Fds : ~SoleUser(c, f)
    BY ServerAssumption DEF Init, SoleUser, Users
  <2> QED
    BY <2>1 DEF OnceInv, AllWasRead, OneTask
<1>2. IInv /\ UseInv /\ OrderInv /\ OnceInv /\ [Next]_vars => (IInv /\ UseInv /\ OrderInv /\ OnceInv)'
  BY NextIInv, UseStep, OrderStep, AllReadStep, OneTaskStep DEF OnceInv
<1>3. IInv /\ OnceInv => HandledOnce
  <2> SUFFICES ASSUME IInv, OnceInv, NEW c \in Conns, NEW f \in Fds, Exact(c), SoleUser(c, f)
               PROVE  Unanswered(f) + Len(replies[c]) <= 1
    BY DEF HandledOnce
  <2>1. replies[c] \in Seq(Conns \cup {Garbled})
    BY DEF IInv, TypeOK
  <2> DEFINE A == {i \in DOMAIN queue : queue[i] = f}
             B == {w \in Workers : running[w] = f /\ wpc[w] # "close"}
  <2>2. /\ Len(replies[c]) <= 1
        /\ replies[c] # <<>> => ~Pending(f)
        /\ \A x, y \in A : x = y
        /\ \A x, y \in B : x = y
        /\ A = {} \/ B = {}
    BY DEF OnceInv, OneTask
  <2>3. Unanswered(f) = Cardinality(A) + Cardinality(B)
    BY DEF Unanswered
  <2> HIDE DEF A, B
  <2>4. /\ Cardinality(A) \in {0, 1} /\ (A = {} => Cardinality(A) = 0)
        /\ Cardinality(B) \in {0, 1} /\ (B = {} => Cardinality(B) = 0)
    BY <2>2, AtMostOne
  <2>5. CASE replies[c] = <<>>
    <3>1. Len(replies[c]) = 0
      BY <2>5
    <3> QED
      BY <2>2, <2>3, <2>4, <3>1
  <2>6. CASE replies[c] # <<>>
    <3>1. Unanswered(f) = 0
      BY <2>2, <2>6, UnansweredIsPending
    <3> QED
      BY <2>1, <2>2, <3>1
  <2> QED
    BY <2>5, <2>6
<1> QED
  BY <1>1, <1>2, <1>3, PTL DEF Spec

-----------------------------------------------------------------------------
(* OneClientIsSafe. *)

\* So far there is one connection at most, and it behaves.
Calm ==
  /\ \A c \in Conns : sent[c] > 0 => Exact(c)
  /\ \A c \in Conns : peer[c] # "closed"
  /\ \A c, d \in Conns : fdOf[c] # NoFd /\ fdOf[d] # NoFd => c = d

\* The loop will read no descriptor that a worker has, or that is closed.
MarkedIsLoops ==
  \A f \in Fds :
    (\E i \in DOMAIN pollFds : pollFds[i].in /\ pollFds[i].fd = f) =>
      ~Dispatched(f) /\ sock[f] # NoConn

\* A task has its record.
TaskHasRecord == \A f \in Fds : Dispatched(f) => clients[f] # NoClient

Untorn == \A w \in Workers : ~torn[w]

CalmInv == Calm => up /\ ~raced /\ Untorn /\ MarkedIsLoops /\ TaskHasRecord

\* A step makes no client better.
LEMMA CalmBefore ==
  ASSUME IInv, [Next]_vars, Calm'
  PROVE  Calm
<1>0. TypeOK /\ TypeOK'
  BY NextIInv DEF IInv
<1>1. \A c \in Conns : sent[c] > 0 => sent'[c] > 0
  <2>1. \A c \in Conns : sent'[c] >= sent[c] /\ sent[c] \in Nat /\ sent'[c] \in Nat
    BY <1>0, SentGrows DEF TypeOK
  <2> QED
    BY <2>1
<1>2. \A c \in Conns : peer[c] = "closed" => peer'[c] = "closed"
  <2>1. CASE Quiet \/ Register \/ \E f \in Fds : Inserts(f)
    BY <2>1, RegisterFacts DEF Quiet, Inserts, net
  <2>2. ASSUME NEW d \in Conns, Connect(d) \/ Send(d) \/ HangUp(d)
        PROVE  \A c \in Conns : peer[c] = "closed" => peer'[c] = "closed"
    BY <1>0, <2>2 DEF Connect, Send, HangUp, TypeOK
  <2>3. ASSUME NEW i, Accept(i) \/ ReadData(i) \/ ReadEnds(i) PROVE peer' = peer
    BY <2>3, AcceptFacts, ReadDataFacts, ReadEndsFacts DEF net
  <2>4. ASSUME NEW w \in Workers, Begin(w) \/ Respond(w) \/ Close(w) PROVE peer' = peer
    BY <2>4, BeginFacts, RespondFacts, CloseFacts DEF net
  <2> QED
    BY <2>1, <2>2, <2>3, <2>4, StepKinds
<1>3. \A c \in Conns : fdOf[c] # NoFd => fdOf'[c] # NoFd
  <2>1. ASSUME NEW i, Accept(i) PROVE \A c \in Conns : fdOf[c] # NoFd => fdOf'[c] # NoFd
    BY <1>0, <2>1, AcceptFacts DEF TypeOK
  <2> QED
    BY <2>1, SockStep
<1> QED
  <2>1. \A c \in Conns : sent'[c] > 0 => Exact(c)
    BY DEF Calm
  <2>2. \A c \in Conns : peer'[c] # "closed"
    BY DEF Calm
  <2>3. \A c, d \in Conns : fdOf'[c] # NoFd /\ fdOf'[d] # NoFd => c = d
    BY DEF Calm
  <2> QED
    BY <1>1, <1>2, <1>3, <2>1, <2>2, <2>3 DEF Calm

\* Whoever was accepted on a descriptor is alone with it.
LEMMA CalmUsers ==
  ASSUME Calm, NEW f \in Fds, NEW g \in Fds, Users(f) # {}, Users(g) # {}
  PROVE  f = g /\ ~Two(f) /\ \A c \in Users(f) : SoleUser(c, f)
<1>1. \A c \in Users(f), d \in Users(g) : c = d /\ f # NoFd
  BY ServerAssumption DEF Calm, Users
<1>2. \A c, d \in Users(f) : c = d
  BY ServerAssumption DEF Calm, Users
<1> QED
  BY <1>1, <1>2 DEF Users, Two, SoleUser

\* While there is a task the loop accepts nobody.
LEMMA TaskIsAlone ==
  ASSUME IInv, UseInv, Calm, NEW f \in Fds, Dispatched(f)
  PROVE  lpc # "accepted"
<1> SUFFICES ASSUME lpc = "accepted" PROVE FALSE
  OBVIOUS
<1>1. newFd \in Fds /\ Users(newFd) # {}
  BY DEF IInv, NewFdKnown, UseInv, AcceptedIsOpen
<1>2. Users(f) # {} /\ (f = newFd => Two(f))
  BY DEF UseInv, TouchedWasUsed, Touched
<1> QED
  BY <1>1, <1>2, CalmUsers

\* A worker that looks at a record has a task.
LEMMA UserIsTask ==
  ASSUME IInv, NEW w \in Workers, wpc[w] # "idle"
  PROVE  running[w] \in Fds /\ Dispatched(running[w])
BY DEF IInv, TypeOK, ViewIsLocal, Dispatched

\* The entry the loop reads is that of an open connection, with its record.
LEMMA CalmRead ==
  ASSUME IInv, UseInv, LoopInv, Calm, MarkedIsLoops, NEW i, NEW outcomes, Reads(i, outcomes)
  PROVE  LET f == pollFds[i].fd
         IN  /\ f \in Fds /\ i \in DOMAIN pollFds /\ pollFds[i].in /\ ~Dispatched(f)
             /\ sock[f] \in Conns /\ peer[sock[f]] # "closed" /\ SoleUser(sock[f], f)
             /\ clients[f] # NoClient /\ clients[f].fd = f /\ Found(f) = clients[f]
<1> DEFINE f == pollFds[i].fd
<1>1. TypeOK /\ SockIsFdOf
  BY DEF IInv
<1>2. f \in Fds /\ i \in DOMAIN pollFds /\ pollFds[i].in
  BY <1>1, ReadsClient DEF Reads, At, Marked
<1>3. ~Dispatched(f) /\ sock[f] # NoConn
  BY <1>2 DEF MarkedIsLoops
<1>4. sock[f] \in Conns /\ fdOf[sock[f]] = f
  BY <1>1, <1>2, <1>3 DEF TypeOK, SockIsFdOf
<1>5. SoleUser(sock[f], f) /\ peer[sock[f]] # "closed"
  <2>1. sock[f] \in Users(f)
    BY <1>4 DEF Users
  <2>2. SoleUser(sock[f], f)
    BY <1>2, <2>1, CalmUsers
  <2> QED
    BY <1>4, <2>2 DEF Calm
<1>6. clients[f] # NoClient /\ clients[f].fd = f
  BY <1>2, <1>4, <1>5 DEF LoopInv, LoopKnowsItsClients
<1> QED
  BY <1>2, <1>3, <1>4, <1>5, <1>6 DEF Found

\* The authors of a header that is refused sent it on the descriptor.
LEMMA AuthorsAreSenders ==
  ASSUME IInv, UseInv, NEW i, ReadThrows(i)
  PROVE  LET f == pollFds[i].fd
             r == Found(f)
             raw == r.raw \o Taken(sock[r.fd])
         IN  f \in Fds /\ \A d \in Authors(raw) : d \in Conns /\ fdOf[d] = f /\ sent[d] > 0
<1> DEFINE f == pollFds[i].fd
           r == Found(f)
           c == sock[r.fd]
           raw == r.raw \o Taken(c)
<1>1. TypeOK /\ RecordIsLocal /\ InboxIsOwn /\ Reads(i, {"pieces"})
  BY DEF IInv, ReadThrows
<1>2. f \in Fds /\ r.fd = f /\ c \in Conns /\ fdOf[c] = f
  BY <1>1, PiecesAreLocal
<1>3. inbox[c] # <<>>
  BY <1>1, <1>2, ServerAssumption DEF Reads, Outcome
<1>4. r = clients[f] /\ clients[f] # NoClient /\ r.raw \in Seq(Piece) /\ Taken(c) \in Seq(Piece)
  <2>1. r \in Client
    BY <1>1, <1>2, FoundType
  <2>2. r.raw \in Seq(Piece)
    BY <2>1 DEF Client
  <2>3. Ghost.fd = Stdin /\ Stdin \notin Fds
    BY ServerAssumption DEF Ghost, Fresh
  <2>4. clients[f] # NoClient /\ r = clients[f]
    <3>1. clients[f] = NoClient => r = Ghost
      BY DEF Found
    <3>2. clients[f] # NoClient
      BY <1>2, <2>3, <3>1
    <3> QED
      BY <3>2 DEF Found
  <2>5. Taken(c) \in Seq(Piece)
    BY <1>1, <1>2, TakenLeft
  <2> QED
    BY <2>2, <2>4, <2>5
<1>5. /\ \A k \in DOMAIN r.raw : fdOf[r.raw[k].from] = f /\ sent[r.raw[k].from] > 0
      /\ \A k \in DOMAIN Taken(c) : Taken(c)[k].from = c
      /\ sent[c] > 0
  <2>1. \A k \in DOMAIN r.raw : fdOf[r.raw[k].from] = f /\ sent[r.raw[k].from] > 0
    BY <1>1, <1>2, <1>4 DEF RecordIsLocal, UseInv, SendersSent
  <2>2. \A k \in DOMAIN Taken(c) : Taken(c)[k].from = c
    BY <1>1, <1>2, TakenLeft DEF InboxIsOwn
  <2>3. sent[c] > 0
    BY <1>2, <1>3 DEF UseInv, SendersSent
  <2> QED
    BY <2>1, <2>2, <2>3
<1>6. raw \in Seq(Piece) /\ \A k \in DOMAIN raw : fdOf[raw[k].from] = f /\ sent[raw[k].from] > 0
  <2> DEFINE s == r.raw
             t == Taken(c)
  <2>1. s \in Seq(Piece) /\ t \in Seq(Piece) /\ raw = s \o t
    BY <1>4
  <2>2. /\ \A k \in DOMAIN s : fdOf[s[k].from] = f /\ sent[s[k].from] > 0
        /\ \A k \in DOMAIN t : fdOf[t[k].from] = f /\ sent[t[k].from] > 0
    BY <1>2, <1>5
  <2> HIDE DEF s, t, raw, f, c, r
  <2>3. \A k \in DOMAIN (s \o t) :
              \/ \E m \in DOMAIN s : (s \o t)[k] = s[m]
              \/ \E m \in DOMAIN t : (s \o t)[k] = t[m]
    BY <2>1, ConcatParts
  <2>4. \A k \in DOMAIN (s \o t) : fdOf[(s \o t)[k].from] = f /\ sent[(s \o t)[k].from] > 0
    BY <2>2, <2>3
  <2>5. s \o t \in Seq(Piece)
    BY <2>1
  <2> QED
    BY <2>1, <2>4, <2>5
<1> HIDE DEF raw, r, c, f
<1>7. \A d \in Authors(raw) : d \in Conns /\ fdOf[d] = f /\ sent[d] > 0
  <2>1. HeaderEnd(raw) \in 0..Len(raw)
    BY <1>6, HeaderEndRange
  <2>2. \A k \in 1..HeaderEnd(raw) : k \in DOMAIN raw
    BY <1>6, <2>1
  <2>3. Authors(raw) \subseteq Conns
    BY <1>6, AuthorsAreConns
  <2> QED
    BY <1>6, <2>2, <2>3 DEF Authors
<1> QED
  BY <1>2, <1>7 DEF raw, r, c, f

\* Nothing that is undefined, ends the process or drops an entry can happen.
LEMMA CalmSteps ==
  ASSUME IInv, UseInv, LoopInv, Calm, Untorn, MarkedIsLoops, TaskHasRecord
  PROVE  /\ ~RegisterFails
         /\ \A i : ~ReadThrows(i) /\ ~ReadEnds(i) /\ ~ReadBlocks(i)
         /\ \A w \in Workers : ~UseTorn(w) /\ ~InsertRaces(w) /\ ~BrokenPipe(w)
<1>1. ~RegisterFails
  <2> SUFFICES ASSUME RegisterFails PROVE FALSE
    OBVIOUS
  <2>1. newFd \in Fds /\ sock[newFd] = NoConn
    BY DEF RegisterFails, IInv, NewFdKnown
  <2>2. Two(newFd) /\ Users(newFd) # {}
    BY <2>1 DEF UseInv, AcceptedIsOpen
  <2> QED
    BY <2>1, <2>2, CalmUsers
<1>2. ASSUME NEW i, ReadThrows(i) PROVE FALSE
  <2> DEFINE f == pollFds[i].fd
             r == Found(f)
             raw == r.raw \o Taken(sock[r.fd])
  <2>1. f \in Fds /\ \A d \in Authors(raw) : d \in Conns /\ fdOf[d] = f /\ sent[d] > 0
    BY <1>2, AuthorsAreSenders
  <2>2. Authors(raw) \cap Malformed # {} \/ Cardinality(Authors(raw)) > 1
    BY <1>2 DEF ReadThrows
  <2> HIDE DEF raw, f
  <2>3. \A d \in Authors(raw) : d \notin Malformed
    BY <2>1 DEF Calm, Exact
  <2>4. \A d, e \in Authors(raw) : d = e
    BY <2>1, ServerAssumption DEF Calm
  <2>5. Cardinality(Authors(raw)) \in {0, 1}
    BY <2>4, AtMostOne
  <2> QED
    BY <2>2, <2>3, <2>5
<1>3. ASSUME NEW i, ReadEnds(i) PROVE FALSE
  <2>1. Reads(i, {"end", "EBADF"})
    BY <1>3 DEF ReadEnds
  <2> DEFINE f == pollFds[i].fd
  <2>2. /\ f \in Fds /\ Found(f).fd = f
        /\ sock[f] \in Conns /\ peer[sock[f]] # "closed"
    BY <2>1, CalmRead
  <2>3. Outcome(f) \in {"end", "EBADF"}
    BY <2>1, <2>2 DEF Reads
  <2> HIDE DEF f
  <2> QED
    BY <2>2, <2>3, ServerAssumption DEF Outcome
<1>4. ASSUME NEW i, ReadBlocks(i) PROVE FALSE
  <2>1. Reads(i, {"blocks"})
    BY <1>4 DEF ReadBlocks
  <2> QED
    BY <2>1, CalmRead, ServerAssumption DEF Reads, Outcome
<1>5. ASSUME NEW w \in Workers, UseTorn(w) PROVE FALSE
  BY <1>5 DEF UseTorn, Untorn
<1>6. ASSUME NEW w \in Workers, InsertRaces(w) PROVE FALSE
  BY <1>6, UserIsTask DEF InsertRaces, TaskHasRecord
<1>7. ASSUME NEW w \in Workers, BrokenPipe(w) PROVE FALSE
  <2>1. view[w].to \in Fds /\ sock[view[w].to] # NoConn /\ peer[sock[view[w].to]] = "closed"
    BY <1>7 DEF BrokenPipe, SockOf
  <2>2. sock[view[w].to] \in Conns
    BY <2>1 DEF IInv, TypeOK
  <2> QED
    BY <2>1, <2>2 DEF Calm
<1> QED
  BY <1>1, <1>2, <1>3, <1>4, <1>5, <1>6, <1>7

\* So the process goes on, and no worker uses what changes.
LEMMA CalmGoesOn ==
  ASSUME IInv, UseInv, LoopInv, Calm, up, ~raced, Untorn, MarkedIsLoops, TaskHasRecord, [Next]_vars
  PROVE  up' /\ ~raced' /\ Untorn'
<1>0. TypeOK
  BY DEF IInv
<1>1. \A w \in Workers : running[w] = NoFd => wpc[w] = "idle"
  BY DEF IInv, ViewIsLocal
<1>2. ASSUME NEW f \in Fds, ~Dispatched(f) PROVE \A w \in Workers : Disturbed(FALSE, f)[w] = FALSE
  <2>1. \A w \in Workers : running[w] # f
    BY <1>2 DEF Dispatched
  <2> QED
    BY <2>1 DEF Disturbed, Untorn
<1>3. CASE UNCHANGED vars
  BY <1>3 DEF vars, work, hist, Untorn
<1>4. CASE Register
  <2>1. \A w \in Workers : wpc[w] # "lookup" /\ ~(wpc[w] = "parse" /\ running[w] = NoFd)
    BY <1>1, <1>4, UserIsTask, TaskIsAlone DEF Register
  <2>2. \A w \in Workers : Disturbed(clients[newFd] = NoClient, NoFd)[w] = FALSE
    BY <2>1 DEF Disturbed, Untorn
  <2> QED
    BY <1>4, <2>2 DEF Register, hist, Untorn
<1>5. ASSUME NEW i, ReadData(i) PROVE up' /\ ~raced' /\ Untorn'
  <2>1. Reads(i, {"pieces"}) /\ torn' = Disturbed(FALSE, pollFds[i].fd) /\ UNCHANGED <<hist, up>>
    BY <1>5 DEF ReadData
  <2>2. pollFds[i].fd \in Fds /\ ~Dispatched(pollFds[i].fd)
    BY <2>1, CalmRead
  <2> QED
    BY <1>2, <2>1, <2>2 DEF hist, Untorn
<1>6. ASSUME NEW i, Accept(i) \/ AcceptFails(i) \/ ReadNothing(i) PROVE UNCHANGED <<torn, raced, up>>
  BY <1>6 DEF Accept, AcceptFails, ReadNothing, work, hist
<1>7. CASE Poll \/ EndScan
  <2>1. UNCHANGED <<torn, raced, up>>
    BY <1>7 DEF Poll, EndScan, work, hist
  <2> QED
    BY <2>1 DEF Untorn
<1>8. ASSUME NEW w \in Workers, Lookup(w) PROVE up' /\ ~raced' /\ Untorn'
  <2>1. clients[running[w]] # NoClient
    BY <1>8, UserIsTask DEF Lookup, Step, TaskHasRecord
  <2>2. \A v \in Workers : Disturbed(clients[running[w]] = NoClient, NoFd)[v] = FALSE
    BY <1>1, <2>1 DEF Disturbed, Untorn
  <2>3. torn[w] = FALSE
    BY <1>0 DEF Untorn, TypeOK
  <2>4. \A v \in Workers : torn'[v] = FALSE
    BY <1>8, <2>2, <2>3 DEF Lookup, Disturbed
  <2> QED
    BY <1>8, <2>3, <2>4 DEF Lookup, Untorn
<1>9. ASSUME NEW w \in Workers, Parse(w) PROVE up' /\ ~raced' /\ Untorn'
  BY <1>9 DEF Parse, Untorn
<1>10. ASSUME NEW w \in Workers, Begin(w) \/ Respond(w) \/ RespondFails(w)
       PROVE  UNCHANGED <<torn, raced, up>>
  BY <1>10 DEF Begin, Respond, RespondFails, hist
<1>11. ASSUME NEW w \in Workers, Close(w) PROVE up' /\ ~raced' /\ Untorn'
  BY <1>0, <1>11 DEF Close, hist, Untorn, TypeOK
<1>12. ASSUME NEW c \in Conns, Connect(c) \/ Send(c) \/ HangUp(c) PROVE UNCHANGED <<torn, raced, up>>
  BY <1>12 DEF Connect, Send, HangUp, work, hist
<1> QED
  BY <1>3, <1>4, <1>5, <1>6, <1>7, <1>8, <1>9, <1>10, <1>11, <1>12, CalmSteps
     DEF Next, Loop, Worker, Untorn

\* Only reading the end of a connection removes a record.
LEMMA RecordsRemain ==
  ASSUME IInv, [Next]_vars, \A i : ~ReadEnds(i), NEW f \in Fds, clients[f] # NoClient
  PROVE  clients'[f] # NoClient
<1>0. clients \in [Fds -> Client \cup {NoClient}]
  BY DEF IInv, TypeOK
<1>1. CASE Quiet
  BY <1>1 DEF Quiet
<1>2. CASE Register
  BY <1>0, <1>2, RegisterFacts, InsertedIsEmpty
<1>3. ASSUME NEW g \in Fds, Inserts(g) PROVE clients'[f] # NoClient
  BY <1>0, <1>3, InsertedIsEmpty DEF Inserts
<1>4. ASSUME NEW c \in Conns, Connect(c) \/ Send(c) \/ HangUp(c) PROVE clients' = clients
  BY <1>4 DEF Connect, Send, HangUp, loop
<1>5. ASSUME NEW i, Accept(i) PROVE clients' = clients
  BY <1>5, AcceptFacts
<1>6. ASSUME NEW i, ReadData(i) PROVE clients'[f] # NoClient
  <2>1. PICK g \in Fds, q \in Client : clients' = [clients EXCEPT ![g] = q]
    BY <1>6, ReadDataFacts
  <2> QED
    BY <1>0, <2>1, ServerAssumption
<1>7. ASSUME NEW w \in Workers, Begin(w) \/ Respond(w) \/ Close(w) PROVE clients' = clients
  BY <1>7, BeginFacts, RespondFacts, CloseFacts
<1> QED
  BY <1>1, <1>2, <1>3, <1>4, <1>5, <1>6, <1>7, StepKinds

\* A read that completes a request hands over the descriptor it read.
LEMMA ReadHandsOver ==
  ASSUME IInv, UseInv, LoopInv, Calm, MarkedIsLoops, NEW i, ReadData(i), NEW f \in Fds, Dispatched(f)'
  PROVE  Dispatched(f) \/ f = pollFds[i].fd
<1> DEFINE g == pollFds[i].fd
           r == Found(g)
           raw == r.raw \o Taken(sock[r.fd])
<1>1. Reads(i, {"pieces"})
  BY DEF ReadData
<1>2. g \in Fds /\ r = clients[g] /\ r.fd = g /\ clients[g] # NoClient
  BY <1>1, CalmRead
<1>3. PICK d : \/ Pool!Submit(Parsed(r, raw, d).fd)
               \/ UNCHANGED <<queue, running>>
  BY DEF ReadData
<1>4. Parsed(r, raw, d).fd = g
  <2>1. r \in Client
    BY <1>2 DEF IInv, TypeOK
  <2> HIDE DEF r, raw, g
  <2> QED
    BY <1>2, <2>1 DEF Parsed, Client
<1> HIDE DEF raw, r, g
<1>5. running' = running /\ (queue' = queue \/ queue' = Append(queue, g))
  BY <1>3, <1>4 DEF Pool!Submit
<1>6. queue \in Seq(Fds) /\ g \in Fds
  BY <1>2 DEF IInv, TypeOK
<1>7. \A j \in DOMAIN queue' : (j \in DOMAIN queue /\ queue'[j] = queue[j]) \/ queue'[j] = g
  BY <1>5, <1>6
<1> QED
  BY <1>5, <1>7 DEF Dispatched, g

\* The marks the loop has after a step: none is new, but for poll.
LEMMA MarksStep ==
  ASSUME IInv, UseInv, LoopInv, Calm, Untorn, MarkedIsLoops, TaskHasRecord, [Next]_vars, ~Poll
  PROVE  \A k \in DOMAIN pollFds' : pollFds'[k].in =>
           \E j \in DOMAIN pollFds : pollFds[j].in /\ pollFds[j].fd = pollFds'[k].fd
<1>0. pollFds \in Seq(Entry)
  BY DEF IInv, TypeOK
<1> DEFINE Kept == \A k \in DOMAIN pollFds' : pollFds'[k].in =>
                     \E j \in DOMAIN pollFds : pollFds[j].in /\ pollFds[j].fd = pollFds'[k].fd
<1>1. CASE UNCHANGED pollFds
  BY <1>1
<1>2. ASSUME NEW i \in DOMAIN pollFds, pollFds' = Visited(i) PROVE Kept
  <2>1. \A k \in DOMAIN pollFds : pollFds[k] \in Entry
    BY <1>0
  <2>2. /\ DOMAIN pollFds' = DOMAIN pollFds
        /\ \A k \in DOMAIN pollFds : k # i => pollFds'[k] = pollFds[k]
        /\ pollFds'[i] = [pollFds[i] EXCEPT !.in = FALSE]
    BY <1>2 DEF Visited
  <2>3. pollFds'[i].in = FALSE
    BY <2>1, <2>2 DEF Entry
  <2> QED
    BY <2>2, <2>3
<1>3. CASE Register
  <2>1. pollFds' = Append(pollFds, [fd |-> newFd, in |-> FALSE])
    BY <1>3 DEF Register
  <2>2. \A k \in DOMAIN pollFds' : \/ k \in DOMAIN pollFds /\ pollFds'[k] = pollFds[k]
                                   \/ pollFds'[k] = [fd |-> newFd, in |-> FALSE]
    BY <1>0, <2>1
  <2> QED
    BY <2>2
<1>4. CASE Loop
  <2>1. ASSUME NEW i \in DOMAIN pollFds,
               Accept(i) \/ AcceptFails(i) \/ ReadData(i) \/ ReadNothing(i)
        PROVE  Kept
    BY <1>2, <2>1 DEF Accept, AcceptFails, ReadData, ReadNothing
  <2>2. CASE EndScan
    BY <1>1, <2>2 DEF EndScan
  <2> QED
    BY <1>3, <1>4, <2>1, <2>2, CalmSteps DEF Loop
<1>5. ASSUME NEW c \in Conns, Connect(c) \/ Send(c) \/ HangUp(c) PROVE UNCHANGED pollFds
  BY <1>5 DEF Connect, Send, HangUp, loop
<1>6. ASSUME NEW w \in Workers, Worker(w) PROVE UNCHANGED pollFds
  BY <1>6, CalmSteps DEF Worker, Begin, Lookup, Parse, Respond, RespondFails, Close, loop
<1>7. CASE UNCHANGED vars
  BY <1>1, <1>7 DEF vars, loop
<1> QED
  BY <1>1, <1>4, <1>5, <1>6, <1>7 DEF Next

\* poll marks no descriptor of a task: its connection was read to the end.
LEMMA PollMarks ==
  ASSUME IInv, UseInv, OnceInv, Calm, Poll
  PROVE  MarkedIsLoops'
<1>0. TypeOK /\ SockIsFdOf
  BY DEF IInv
<1>1. pollFds \in Seq(Entry) /\ UNCHANGED <<sock, queue, running>>
  BY <1>0 DEF Poll, net, work, TypeOK
<1>2. SUFFICES ASSUME NEW i \in DOMAIN pollFds, Readable(pollFds[i].fd), pollFds[i].fd \in Fds
               PROVE  ~Dispatched(pollFds[i].fd) /\ sock[pollFds[i].fd] # NoConn
  <2>1. /\ DOMAIN pollFds' = DOMAIN pollFds
        /\ \A k \in DOMAIN pollFds : pollFds'[k] = [pollFds[k] EXCEPT !.in = Readable(pollFds[k].fd)]
    BY DEF Poll
  <2>2. \A k \in DOMAIN pollFds : pollFds[k] \in Entry
    BY <1>1
  <2>3. \A k \in DOMAIN pollFds : pollFds'[k].fd = pollFds[k].fd /\ pollFds'[k].in = Readable(pollFds[k].fd)
    BY <2>1, <2>2 DEF Entry
  <2> QED
    BY <1>1, <2>1, <2>3 DEF MarkedIsLoops, Dispatched
<1> DEFINE f == pollFds[i].fd
           c == sock[f]
<1>3. c # NoConn /\ (inbox[c] # <<>> \/ peer[c] = "closed")
  BY <1>2, ServerAssumption DEF Readable
<1>4. c \in Conns /\ fdOf[c] = f
  BY <1>0, <1>2, <1>3 DEF TypeOK, SockIsFdOf
<1>5. inbox[c] # <<>> /\ sent[c] > 0 /\ Exact(c)
  BY <1>3, <1>4 DEF Calm, UseInv, SendersSent
<1>6. SoleUser(c, f)
  <2>1. c \in Users(f)
    BY <1>4 DEF Users
  <2> QED
    BY <1>2, <2>1, CalmUsers
<1> QED
  BY <1>2, <1>3, <1>4, <1>5, <1>6 DEF OnceInv, AllWasRead

\* Nobody closes a descriptor but the worker that has it.
LEMMA ClosedWasTask ==
  ASSUME IInv, [Next]_vars, NEW f \in Fds, sock'[f] = NoConn
  PROVE  sock[f] = NoConn \/ (Dispatched(f) /\ \E w \in Workers : Close(w))
<1>0. sock \in [Fds -> Conns \cup {NoConn}] /\ NoConn \notin Conns
  BY ServerAssumption DEF IInv, TypeOK
<1>1. CASE Quiet \/ Register \/ \E g \in Fds : Inserts(g)
  BY <1>1, RegisterFacts DEF Quiet, Inserts, net
<1>2. ASSUME NEW c \in Conns, Connect(c) \/ Send(c) \/ HangUp(c) PROVE sock' = sock
  BY <1>2 DEF Connect, Send, HangUp
<1>3. ASSUME NEW i, Accept(i) PROVE sock[f] = NoConn
  BY <1>0, <1>3, AcceptFacts
<1>4. ASSUME NEW i, ReadData(i) \/ ReadEnds(i) PROVE sock' = sock
  BY <1>4, ReadDataFacts, ReadEndsFacts DEF net
<1>5. ASSUME NEW w \in Workers, Begin(w) \/ Respond(w) PROVE sock' = sock
  BY <1>5, BeginFacts, RespondFacts DEF net
<1>6. ASSUME NEW w \in Workers, Close(w) PROVE sock[f] = NoConn \/ Dispatched(f)
  <2>1. sock' = [sock EXCEPT ![running[w]] = NoConn]
    BY <1>6, CloseFacts
  <2> QED
    BY <1>0, <2>1 DEF Dispatched
<1> QED
  BY <1>1, <1>2, <1>3, <1>4, <1>5, <1>6, StepKinds

LEMMA CalmStep ==
  ASSUME IInv, UseInv, LoopInv, OnceInv, CalmInv, [Next]_vars
  PROVE  CalmInv'
<1> SUFFICES ASSUME Calm' PROVE (up /\ ~raced /\ Untorn /\ MarkedIsLoops /\ TaskHasRecord)'
  BY DEF CalmInv
<1>1. Calm /\ up /\ ~raced /\ Untorn /\ MarkedIsLoops /\ TaskHasRecord
  BY CalmBefore DEF CalmInv
<1>2. up' /\ ~raced' /\ Untorn'
  BY <1>1, CalmGoesOn
<1>3. \A f \in Fds : clients[f] # NoClient => clients'[f] # NoClient
  BY <1>1, CalmSteps, RecordsRemain
<1>4. ASSUME NEW i, ReadData(i) PROVE MarkedIsLoops' /\ TaskHasRecord'
  <2> DEFINE g == pollFds[i].fd
  <2>1. Reads(i, {"pieces"})
    BY <1>4 DEF ReadData
  <2>2. /\ g \in Fds /\ i \in DOMAIN pollFds /\ clients[g] # NoClient /\ sock[g] \in Conns
        /\ SoleUser(sock[g], g)
    BY <1>1, <2>1, CalmRead
  <2>3. \A f \in Fds : Dispatched(f)' => Dispatched(f) \/ f = g
    BY <1>1, <1>4, ReadHandsOver
  <2>4. TaskHasRecord'
    BY <1>1, <1>3, <2>2, <2>3 DEF TaskHasRecord
  <2>5. pollFds' = Visited(i) /\ sock' = sock /\ pollFds \in Seq(Entry)
    BY <1>4 DEF ReadData, IInv, TypeOK
  <2>6. \A k \in DOMAIN pollFds : k # i => pollFds[k].fd # g
    BY <2>2, SoleIsNotTwo DEF LoopInv, SoleEntry
  <2>7. /\ DOMAIN pollFds' = DOMAIN pollFds
        /\ \A k \in DOMAIN pollFds : k # i => pollFds'[k] = pollFds[k]
        /\ pollFds'[i] = [pollFds[i] EXCEPT !.in = FALSE] /\ pollFds[i] \in Entry
    BY <2>2, <2>5 DEF Visited
  <2>8. ~pollFds'[i].in
    BY <2>7 DEF Entry
  <2> HIDE DEF g
  <2>9. ASSUME NEW f \in Fds, NEW k \in DOMAIN pollFds', pollFds'[k].in, pollFds'[k].fd = f
        PROVE  ~Dispatched(f)' /\ sock'[f] # NoConn
    <3>1. k # i /\ k \in DOMAIN pollFds /\ pollFds[k].in /\ pollFds[k].fd = f
      BY <2>7, <2>8, <2>9
    <3>2. f # g /\ ~Dispatched(f) /\ sock[f] # NoConn
      BY <1>1, <2>6, <3>1 DEF MarkedIsLoops
    <3> QED
      BY <2>3, <2>5, <3>2
  <2>10. MarkedIsLoops'
    BY <2>9 DEF MarkedIsLoops
  <2> QED
    BY <2>4, <2>10
<1>5. CASE Poll
  <2>1. UNCHANGED <<queue, running>>
    BY <1>5 DEF Poll, work
  <2>2. TaskHasRecord'
    BY <1>1, <1>3, <2>1 DEF TaskHasRecord, Dispatched
  <2> QED
    BY <1>1, <1>2, <1>5, <2>2, PollMarks
<1>6. CASE ~Poll /\ \A i : ~ReadData(i)
  <2>1. \A f \in Fds : Dispatched(f)' => Dispatched(f)
    BY <1>6, TaskStep
  <2>2. TaskHasRecord'
    BY <1>1, <1>3, <2>1 DEF TaskHasRecord
  <2>3. ASSUME NEW f \in Fds, NEW k \in DOMAIN pollFds', pollFds'[k].in, pollFds'[k].fd = f
        PROVE  ~Dispatched(f)' /\ sock'[f] # NoConn
    <3>1. PICK j \in DOMAIN pollFds : pollFds[j].in /\ pollFds[j].fd = f
      BY <1>1, <1>6, <2>3, MarksStep
    <3>2. ~Dispatched(f) /\ sock[f] # NoConn
      BY <1>1, <3>1 DEF MarkedIsLoops
    <3> QED
      BY <2>1, <3>2, ClosedWasTask
  <2>4. MarkedIsLoops'
    BY <2>3 DEF MarkedIsLoops
  <2> QED
    BY <1>2, <2>2, <2>4
<1> QED
  BY <1>1, <1>2, <1>4, <1>5, <1>6

\* One connection that behaves is never the cause of undefined behaviour or of
\* the end of the process, however its request is split, read and polled.
THEOREM OneClientSafe == Spec => []OneClientIsSafe
<1>1. Init => IInv /\ UseInv /\ LoopInv /\ OrderInv /\ OnceInv /\ CalmInv
  <2> SUFFICES ASSUME Init PROVE LoopInv /\ OnceInv /\ CalmInv
    BY InitIInv, InitUse, InitOrder
  <2>1. \A c \in Conns, f \in Fds : ~SoleUser(c, f)
    BY ServerAssumption DEF Init, SoleUser, Users
  <2>2. OnceInv
    BY <2>1 DEF OnceInv, AllWasRead, OneTask
  <2>3. LoopInv
    BY ServerAssumption DEF Init, LoopInv, SoleEntry, LoopKnowsItsClients, SoleUser, Users
  <2>4. \A f \in Fds : ~Dispatched(f)
    BY ServerAssumption DEF Init, Dispatched, Pool!PoolInit
  <2>5. CalmInv
    BY <2>4, ServerAssumption DEF Init, CalmInv, Untorn, MarkedIsLoops, TaskHasRecord
  <2> QED
    BY <2>2, <2>3, <2>5
<1>2. IInv /\ UseInv /\ LoopInv /\ OrderInv /\ OnceInv /\ CalmInv /\ [Next]_vars
        => (IInv /\ UseInv /\ LoopInv /\ OrderInv /\ OnceInv /\ CalmInv)'
  BY NextIInv, UseStep, LoopInvStep, OrderStep, AllReadStep, OneTaskStep, CalmStep DEF OnceInv
<1>3. CalmInv => OneClientIsSafe
  BY DEF CalmInv, Calm, OneClientIsSafe
<1> QED
  BY <1>1, <1>2, <1>3, PTL DEF Spec
=============================================================================
