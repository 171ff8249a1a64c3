-------------------------- MODULE HttpServerProofs --------------------------
(***************************************************************************)
(* Theorems about HttpServer, for any connections, requests, descriptors   *)
(* and workers.                                                            *)
(***************************************************************************)
EXTENDS HttpServer, DataLemmas

\* A connection waits in the backlog once, and is nowhere else.
BacklogIsNew ==
  /\ \A i, j \in DOMAIN backlog : backlog[i] = backlog[j] => i = j
  /\ \A i \in DOMAIN backlog : fdOf[backlog[i]] = NoFd /\ peer[backlog[i]] # "new"
  /\ \A c \in Conns : peer[c] = "new" => fdOf[c] = NoFd

\* The descriptor on which a connection sits is the one it was accepted on.
SockIsFdOf == \A f \in Fds : sock[f] # NoConn => fdOf[sock[f]] = f

\* What arrives on a connection was sent on it.
InboxIsOwn == \A c \in Conns : \A i \in DOMAIN inbox[c] : inbox[c][i].from = c

\* A record holds nothing but what came in on its descriptor, though perhaps
\* from several connections, and names its descriptor unless it is a ghost.
RecordIsLocal ==
  \A f \in Fds : clients[f] # NoClient =>
    /\ clients[f].fd \in {f, Stdin}
    /\ \A i \in DOMAIN clients[f].raw : fdOf[clients[f].raw[i].from] = f

\* A worker has a descriptor while it handles it, and answers only a request
\* that came in on it.
ViewIsLocal ==
  \A w \in Workers :
    /\ wpc[w] = "idle" <=> running[w] = NoFd
    /\ wpc[w] \in {"parse", "respond", "retry"} => view[w].to \in {running[w], Stdin}
    /\ wpc[w] \in {"respond", "retry"} =>
         view[w].from # NoConn /\ (view[w].from # Garbled => fdOf[view[w].from] = running[w])

\* Between accept and emplace the loop has a descriptor.
NewFdKnown == lpc = "accepted" => newFd \in Fds

AnsweredWasAccepted == \A c \in Conns : replies[c] # <<>> => fdOf[c] # NoFd

IInv ==
  /\ TypeOK
  /\ BacklogIsNew
  /\ SockIsFdOf
  /\ InboxIsOwn
  /\ RecordIsLocal
  /\ ViewIsLocal
  /\ NewFdKnown
  /\ AnsweredWasAccepted
  /\ AnswerStaysOnDescriptor

-----------------------------------------------------------------------------
(* The operators of the model. *)

\* HeaderEnd finds a piece of the sequence, or says 0.
LEMMA HeaderEndRange ==
  ASSUME NEW raw \in Seq(Piece)
  PROVE  HeaderEnd(raw) \in 0..Len(raw)
<1> DEFINE I == {i \in 1..Len(raw) : raw[i].kind = "eoh"}
<1>1. HeaderEnd(raw) = IF I # {} THEN Min(I) ELSE 0
  BY DEF HeaderEnd, SelectInSeq
<1>2. I \in SUBSET Nat
  OBVIOUS
<1>3. I # {} => Min(I) \in I
  BY <1>2, MinMember
<1> QED
  BY <1>1, <1>3

\* The authors of a header are connections.
LEMMA AuthorsAreConns ==
  ASSUME NEW raw \in Seq(Piece)
  PROVE  Authors(raw) \subseteq Conns
<1>1. ASSUME NEW i \in 1..HeaderEnd(raw) PROVE raw[i].from \in Conns
  <2>1. i \in 1..Len(raw)
    BY HeaderEndRange
  <2>2. raw[i] \in Piece
    BY <2>1
  <2> QED
    BY <2>2 DEF Piece
<1> QED
  BY <1>1 DEF Authors

\* What one read takes and what it leaves are parts of what had arrived.
LEMMA TakenLeft ==
  ASSUME TypeOK, NEW c \in Conns
  PROVE  /\ Taken(c) \in Seq(Piece) /\ Left(c) \in Seq(Piece)
         /\ \A i \in DOMAIN Taken(c) : \E j \in DOMAIN inbox[c] : Taken(c)[i] = inbox[c][j]
         /\ \A i \in DOMAIN Left(c) : \E j \in DOMAIN inbox[c] : Left(c)[i] = inbox[c][j]
<1> DEFINE n == IF Len(inbox[c]) < ReadMax THEN Len(inbox[c]) ELSE ReadMax
<1>1. inbox[c] \in Seq(Piece)
  BY DEF TypeOK
<1>2. n \in 0..Len(inbox[c])
  BY <1>1, ServerAssumption
<1>3. Taken(c) = SubSeq(inbox[c], 1, n) /\ Len(Taken(c)) = n
  BY <1>1, <1>2 DEF Taken
<1>4. Left(c) = SubSeq(inbox[c], n + 1, Len(inbox[c]))
  BY <1>3 DEF Left
<1> HIDE DEF n
<1>5. /\ Taken(c) \in Seq(Piece)
      /\ \A i \in DOMAIN Taken(c) : \E j \in DOMAIN inbox[c] : Taken(c)[i] = inbox[c][j]
  BY <1>1, <1>2, <1>3, PartOf
<1>6. /\ Left(c) \in Seq(Piece)
      /\ \A i \in DOMAIN Left(c) : \E j \in DOMAIN inbox[c] : Left(c)[i] = inbox[c][j]
  BY <1>1, <1>2, <1>4, PartOf
<1> QED
  BY <1>5, <1>6

\* Parsing keeps a record a record, and changes neither its descriptor nor raw.
LEMMA ParsedType ==
  ASSUME NEW r \in Client, NEW raw \in Seq(Piece), NEW d \in Conns
  PROVE  /\ Parsed(r, raw, d) \in Client
         /\ Parsed(r, raw, d).fd = r.fd /\ Parsed(r, raw, d).raw = raw
<1>1. HeaderEnd(raw) \in Nat /\ Length[d] \in Int
  BY HeaderEndRange, ServerAssumption
<1>2. CASE r.inBody \/ HeaderEnd(raw) = 0
  BY <1>2 DEF Parsed, Client
<1>3. CASE ~(r.inBody \/ HeaderEnd(raw) = 0)
  <2> DEFINE q == [fd |-> r.fd, raw |-> raw, length |-> Length[d],
                   headerEnd |-> HeaderEnd(raw), inBody |-> Length[d] # 0]
  <2>1. Parsed(r, raw, d) = q
    BY <1>3 DEF Parsed, Client
  <2>2. q \in Client
    BY <1>1 DEF Client
  <2> QED
    BY <2>1, <2>2
<1> QED
  BY <1>2, <1>3

\* A record that is found is a record; an inserted one is an empty ghost.
LEMMA FoundType ==
  ASSUME TypeOK, RecordIsLocal, NEW f \in Fds
  PROVE  /\ Found(f) \in Client
         /\ Found(f).fd \in {f, Stdin}
         /\ \A i \in DOMAIN Found(f).raw : fdOf[Found(f).raw[i].from] = f
         /\ Fresh(f) \in Client /\ Fresh(f).fd = f /\ Fresh(f).raw = <<>>
BY ServerAssumption DEF TypeOK, RecordIsLocal, Found, Ghost, Fresh, Client

\* Workers stay workers whatever disturbs them.
LEMMA DisturbedType ==
  ASSUME TypeOK, NEW reshaped \in BOOLEAN, NEW f
  PROVE  Disturbed(reshaped, f) \in [Workers -> BOOLEAN]
BY DEF TypeOK, Disturbed

-----------------------------------------------------------------------------
(* The invariant is inductive. *)

\* The server starts in the inductive invariant.
LEMMA InitIInv == Init => IInv
<1> SUFFICES ASSUME Init PROVE IInv
  OBVIOUS
<1>1. TypeOK
  <2>1. [fd |-> Listen, in |-> FALSE] \in Entry /\ pollFds = <<[fd |-> Listen, in |-> FALSE]>>
    BY DEF Init, Entry
  <2>2. pollFds \in Seq(Entry)
    BY <2>1
  <2>3. view \in [Workers -> [to : Fds \cup {Stdin, NoFd}, from : Conns \cup {NoConn, Garbled}]]
    BY DEF Init, NoView
  <2>4. /\ backlog \in Seq(Conns) /\ inbox \in [Conns -> Seq(Piece)]
        /\ queue \in Seq(Fds) /\ replies \in [Conns -> Seq(Conns \cup {Garbled})]
    BY DEF Init, Pool!PoolInit
  <2>5. /\ sock \in [Fds -> Conns \cup {NoConn}] /\ sent \in [Conns -> Nat]
        /\ peer \in [Conns -> {"new", "open", "closed"}]
        /\ clients \in [Fds -> Client \cup {NoClient}]
        /\ fdOf \in [Conns -> Fds \cup {NoFd}]
    BY DEF Init
  <2>6. /\ running \in [Workers -> Fds \cup {NoFd}] /\ torn \in [Workers -> BOOLEAN]
        /\ wpc \in [Workers -> {"idle", "lookup", "parse", "respond", "retry", "close"}]
    BY DEF Init, Pool!PoolInit
  <2> QED
    BY <2>2, <2>3, <2>4, <2>5, <2>6 DEF Init, TypeOK
<1>2. /\ backlog = <<>> /\ \A c \in Conns : inbox[c] = <<>> /\ replies[c] = <<>> /\ fdOf[c] = NoFd
  BY DEF Init
<1>3. BacklogIsNew /\ InboxIsOwn /\ AnsweredWasAccepted /\ AnswerStaysOnDescriptor
  BY <1>2 DEF BacklogIsNew, InboxIsOwn, AnsweredWasAccepted, AnswerStaysOnDescriptor
<1>4. SockIsFdOf /\ RecordIsLocal /\ NewFdKnown
  BY DEF Init, SockIsFdOf, RecordIsLocal, NewFdKnown
<1>5. ViewIsLocal
  BY DEF Init, Pool!PoolInit, ViewIsLocal
<1> QED
  BY <1>1, <1>3, <1>4, <1>5 DEF IInv

\* The invariant does not depend on up, torn and raced but for their types.
LEMMA DieStep ==
  ASSUME IInv, Die, raced' \in BOOLEAN
  PROVE  IInv'
BY DEF IInv, Die, net, loop, work, TypeOK, BacklogIsNew, SockIsFdOf, InboxIsOwn,
  RecordIsLocal, ViewIsLocal, NewFdKnown, AnsweredWasAccepted, AnswerStaysOnDescriptor

\* What a client does keeps the invariant.
LEMMA ClientStep ==
  ASSUME IInv, NEW c \in Conns, Connect(c) \/ Send(c) \/ HangUp(c)
  PROVE  IInv'
<1> USE DEF IInv
<1>1. CASE Connect(c)
  <2>1. TypeOK'
    <3>1. backlog' \in Seq(Conns) /\ peer' \in [Conns -> {"new", "open", "closed"}]
      BY <1>1 DEF Connect, TypeOK
    <3> QED
      BY <1>1, <3>1 DEF Connect, TypeOK, loop, work, hist
  <2>2. BacklogIsNew'
    <3>1. backlog \in Seq(Conns) /\ backlog' = Append(backlog, c) /\ fdOf' = fdOf
      BY <1>1 DEF Connect, TypeOK, hist
    <3>2. \A d \in Conns : peer'[d] = IF d = c THEN "open" ELSE peer[d]
      BY <1>1 DEF Connect, TypeOK
    <3>3. peer[c] = "new" /\ fdOf[c] = NoFd
      BY <1>1 DEF Connect, BacklogIsNew
    <3>4. \A j \in DOMAIN backlog' :
            \/ j \in DOMAIN backlog /\ backlog'[j] = backlog[j] /\ backlog[j] \in Conns
            \/ j = Len(backlog) + 1 /\ backlog'[j] = c
      BY <3>1
    <3>5. \A j \in DOMAIN backlog : backlog[j] # c
      BY <3>3 DEF BacklogIsNew
    <3>6. \A j, k \in DOMAIN backlog' : backlog'[j] = backlog'[k] => j = k
      BY <3>4, <3>5 DEF BacklogIsNew
    <3>7. \A j \in DOMAIN backlog' : fdOf'[backlog'[j]] = NoFd /\ peer'[backlog'[j]] # "new"
      BY <3>1, <3>2, <3>3, <3>4 DEF BacklogIsNew
    <3> QED
      BY <3>1, <3>2, <3>6, <3>7 DEF BacklogIsNew
  <2> QED
    BY <1>1, <2>1, <2>2 DEF Connect, loop, work, hist, SockIsFdOf, InboxIsOwn, RecordIsLocal,
       ViewIsLocal, NewFdKnown, AnsweredWasAccepted, AnswerStaysOnDescriptor
<1>2. CASE Send(c)
  <2> DEFINE p == [from |-> c, kind |-> Request[c][sent[c] + 1]]
  <2>1. p \in Piece
    <3>1. Request[c] \in Seq({"head", "eoh", "body"}) /\ sent[c] \in Nat
      BY ServerAssumption DEF TypeOK
    <3>2. sent[c] + 1 \in DOMAIN Request[c]
      BY <1>2, <3>1 DEF Send
    <3> QED
      BY <3>1, <3>2 DEF Piece
  <2>2. inbox' = [inbox EXCEPT ![c] = Append(@, p)]
    BY <1>2 DEF Send
  <2> HIDE DEF p
  <2>3. TypeOK'
    BY <1>2, <2>1, <2>2 DEF Send, TypeOK, loop, work, hist
  <2>4. InboxIsOwn'
    BY <2>2 DEF p, TypeOK, InboxIsOwn
  <2> QED
    BY <1>2, <2>3, <2>4 DEF Send, loop, work, hist, BacklogIsNew, SockIsFdOf, RecordIsLocal,
       ViewIsLocal, NewFdKnown, AnsweredWasAccepted, AnswerStaysOnDescriptor
<1>3. CASE HangUp(c)
  <2>1. TypeOK'
    BY <1>3 DEF HangUp, TypeOK, loop, work, hist
  <2>2. BacklogIsNew'
    BY <1>3 DEF HangUp, TypeOK, BacklogIsNew, hist
  <2> QED
    BY <1>3, <2>1, <2>2 DEF HangUp, loop, work, hist, SockIsFdOf, InboxIsOwn, RecordIsLocal,
       ViewIsLocal, NewFdKnown, AnsweredWasAccepted, AnswerStaysOnDescriptor
<1> QED
  BY <1>1, <1>2, <1>3

\* A step that only moves the loop and the marks of its poll set.
LEMMA ScanStep ==
  ASSUME IInv, pollFds' \in Seq(Entry),
         lpc' \in {"poll", "scan"}, UNCHANGED <<net, clients, newFd, work, hist, up>>
  PROVE  IInv'
<1>1. TypeOK'
  BY DEF IInv, TypeOK, net, work, hist
<1> QED
  BY <1>1 DEF IInv, net, work, hist, BacklogIsNew, SockIsFdOf, InboxIsOwn,
     RecordIsLocal, ViewIsLocal, NewFdKnown, AnsweredWasAccepted, AnswerStaysOnDescriptor

\* Looking at an entry keeps the poll set a poll set.
LEMMA VisitedType ==
  ASSUME TypeOK, NEW i, At(i)
  PROVE  /\ Visited(i) \in Seq(Entry)
         /\ i \in DOMAIN pollFds /\ pollFds[i].fd \in Fds \cup {Listen}
         /\ lpc = "scan"
<1>1. i \in DOMAIN pollFds /\ lpc = "scan"
  BY DEF At, Marked
<1>2. pollFds \in Seq(Entry) /\ pollFds[i] \in Entry
  BY <1>1 DEF TypeOK
<1>3. [pollFds[i] EXCEPT !.in = FALSE] \in Entry /\ pollFds[i].fd \in Fds \cup {Listen}
  BY <1>2 DEF Entry
<1>4. Visited(i) = [pollFds EXCEPT ![i] = [pollFds[i] EXCEPT !.in = FALSE]]
  BY DEF Visited
<1>5. Visited(i) \in Seq(Entry)
  BY <1>1, <1>2, <1>3, <1>4
<1> QED
  BY <1>1, <1>3, <1>5

\* accept gives the first connection of the backlog a descriptor; whatever was
\* known of other connections stays so.
LEMMA AcceptStep ==
  ASSUME IInv, NEW i, Accept(i)
  PROVE  IInv'
<1> DEFINE c == Head(backlog)
<1> USE DEF IInv
<1>1. PICK f \in Fds : /\ newFd' = f /\ sock' = [sock EXCEPT ![f] = c]
                       /\ fdOf' = [fdOf EXCEPT ![c] = f]
  BY DEF Accept, FreeFds
<1>2. backlog \in Seq(Conns) /\ backlog # <<>> /\ backlog' = Tail(backlog)
  BY DEF Accept, TypeOK
<1>3. c \in Conns /\ 1 \in DOMAIN backlog /\ c = backlog[1]
  BY <1>2
<1>4. fdOf[c] = NoFd /\ peer[c] # "new"
  BY <1>3 DEF BacklogIsNew
<1>5. \A d \in Conns : fdOf[d] \in Fds => d # c /\ fdOf'[d] = fdOf[d]
  BY <1>1, <1>3, <1>4, ServerAssumption DEF TypeOK
<1>6. \A j \in DOMAIN backlog' : j + 1 \in DOMAIN backlog /\ backlog'[j] = backlog[j + 1]
  BY <1>2
<1>7. UNCHANGED <<inbox, sent, peer, clients, queue, running, wpc, torn, view, replies, raced, up>>
  BY DEF Accept, work
<1> HIDE DEF c
<1>8. TypeOK'
  <2>1. pollFds' \in Seq(Entry) /\ lpc' = "accepted"
    BY VisitedType DEF Accept
  <2>2. sock' \in [Fds -> Conns \cup {NoConn}] /\ fdOf' \in [Conns -> Fds \cup {NoFd}]
    BY <1>1, <1>3 DEF TypeOK
  <2>3. backlog' \in Seq(Conns) /\ newFd' \in Fds
    BY <1>1, <1>2
  <2> QED
    BY <1>7, <2>1, <2>2, <2>3 DEF TypeOK
<1>9. BacklogIsNew'
  <2>1. \A j, k \in DOMAIN backlog' : backlog'[j] = backlog'[k] => j = k
    BY <1>2, <1>6 DEF BacklogIsNew
  <2>2. ASSUME NEW j \in DOMAIN backlog'
        PROVE  fdOf'[backlog'[j]] = NoFd /\ peer'[backlog'[j]] # "new"
    <3>1. j + 1 # 1 /\ j + 1 \in DOMAIN backlog /\ backlog'[j] = backlog[j + 1]
      BY <1>2, <1>6
    <3>2. backlog[j + 1] # c
      BY <1>3, <3>1 DEF BacklogIsNew
    <3>3. fdOf[backlog[j + 1]] = NoFd /\ peer[backlog[j + 1]] # "new"
      BY <3>1 DEF BacklogIsNew
    <3>4. backlog[j + 1] \in Conns
      BY <1>2, <3>1
    <3>5. fdOf'[backlog[j + 1]] = fdOf[backlog[j + 1]]
      BY <1>1, <3>2, <3>4 DEF TypeOK
    <3> QED
      BY <1>7, <3>1, <3>3, <3>5
  <2>3. \A d \in Conns : peer'[d] = "new" => fdOf'[d] = NoFd
    BY <1>1, <1>4, <1>7 DEF BacklogIsNew, TypeOK
  <2> QED
    BY <2>1, <2>2, <2>3 DEF BacklogIsNew
<1>10. SockIsFdOf'
  BY <1>1, <1>3, <1>5 DEF SockIsFdOf, TypeOK
<1>11. RecordIsLocal'
  <2> SUFFICES ASSUME NEW g \in Fds, clients[g] # NoClient
               PROVE  /\ clients[g].fd \in {g, Stdin}
                      /\ \A j \in DOMAIN clients[g].raw : fdOf'[clients[g].raw[j].from] = g
    BY <1>7 DEF RecordIsLocal
  <2>1. clients[g] \in Client
    BY DEF TypeOK
  <2>2. \A j \in DOMAIN clients[g].raw : clients[g].raw[j].from \in Conns
    <3>1. clients[g].raw \in Seq(Piece)
      BY <2>1 DEF Client
    <3>2. \A j \in DOMAIN clients[g].raw : clients[g].raw[j] \in Piece
      BY <3>1
    <3> QED
      BY <3>2 DEF Piece
  <2> QED
    BY <1>5, <2>2 DEF RecordIsLocal
<1>12. ViewIsLocal'
  <2> SUFFICES ASSUME NEW w \in Workers, wpc[w] \in {"respond", "retry"}, view[w].from # Garbled
               PROVE  fdOf'[view[w].from] = running[w]
    BY <1>7 DEF ViewIsLocal
  <2>1. view[w].from \in Conns /\ fdOf[view[w].from] = running[w]
    BY DEF ViewIsLocal, TypeOK
  <2>2. running[w] \in Fds
    BY DEF ViewIsLocal, TypeOK
  <2> QED
    BY <1>5, <2>1, <2>2
<1>13. AnswerStaysOnDescriptor'
  <2> SUFFICES ASSUME NEW d \in Conns, NEW j \in DOMAIN replies[d], replies[d][j] # Garbled
               PROVE  fdOf'[replies[d][j]] = fdOf'[d]
    BY <1>7 DEF AnswerStaysOnDescriptor
  <2>1. replies[d] # <<>> /\ replies[d][j] \in Conns
    BY DEF TypeOK
  <2>2. fdOf[replies[d][j]] = fdOf[d] /\ fdOf[d] \in Fds
    BY <2>1 DEF AnswerStaysOnDescriptor, AnsweredWasAccepted, TypeOK
  <2> QED
    BY <1>5, <2>1, <2>2
<1>14. AnsweredWasAccepted'
  BY <1>4, <1>5, <1>7 DEF AnsweredWasAccepted, TypeOK
<1> QED
  BY <1>1, <1>7, <1>8, <1>9, <1>10, <1>11, <1>12, <1>13, <1>14 DEF InboxIsOwn, NewFdKnown

\* A step that changes only records of descriptors, and what the loop or a
\* worker keeps beside them, keeps the invariant if the new record is local.
LEMMA RecordStep ==
  ASSUME IInv, NEW f \in Fds, NEW q,
         q = NoClient \/ /\ q \in Client /\ q.fd \in {f, Stdin}
                         /\ \A i \in DOMAIN q.raw : fdOf[q.raw[i].from] = f,
         clients' = [clients EXCEPT ![f] = q],
         pollFds' \in Seq(Entry), lpc' \in {"poll", "scan", "stdin"}, newFd' \in Fds \cup {NoFd},
         torn' \in [Workers -> BOOLEAN],
         queue' \in Seq(Fds), UNCHANGED <<running, wpc, view>>,
         inbox' \in [Conns -> Seq(Piece)],
         \A c \in Conns : \A i \in DOMAIN inbox'[c] : \E j \in DOMAIN inbox[c] : inbox'[c][i] = inbox[c][j],
         UNCHANGED <<backlog, sock, sent, peer, hist, up>>
  PROVE  IInv'
<1> USE DEF IInv
<1>1. clients \in [Fds -> Client \cup {NoClient}]
  BY DEF TypeOK
<1>2. clients' \in [Fds -> Client \cup {NoClient}]
  BY <1>1
<1>3. TypeOK'
  BY <1>2 DEF TypeOK, hist
<1>4. RecordIsLocal'
  BY <1>1, ServerAssumption DEF RecordIsLocal, hist
<1>5. InboxIsOwn'
  BY DEF InboxIsOwn
<1>6. BacklogIsNew' /\ SockIsFdOf'
  BY DEF BacklogIsNew, SockIsFdOf, hist
<1>7. ViewIsLocal' /\ NewFdKnown'
  BY DEF ViewIsLocal, NewFdKnown, hist
<1>8. AnsweredWasAccepted' /\ AnswerStaysOnDescriptor'
  BY DEF AnsweredWasAccepted, AnswerStaysOnDescriptor, hist
<1> QED
  BY <1>3, <1>4, <1>5, <1>6, <1>7, <1>8

\* emplace inserts a fresh record or keeps the one there is.
LEMMA RegisterStep ==
  ASSUME IInv, Register
  PROVE  IInv'
<1>1. newFd \in Fds /\ TypeOK /\ RecordIsLocal
  BY DEF IInv, NewFdKnown, Register
<1> DEFINE q == Emplaced(newFd)
<1>2. /\ q \in Client /\ q.fd \in {newFd, Stdin}
      /\ \A i \in DOMAIN q.raw : fdOf[q.raw[i].from] = newFd
  BY <1>1, FoundType DEF Emplaced, Found
<1>3. [fd |-> newFd, in |-> FALSE] \in Entry
  BY <1>1 DEF Entry
<1>4. pollFds' \in Seq(Entry)
  BY <1>1, <1>3 DEF Register, TypeOK
<1>5. torn' \in [Workers -> BOOLEAN]
  BY <1>1, DisturbedType DEF Register
<1>6. clients' = [clients EXCEPT ![newFd] = q]
  BY DEF Register
<1>7. /\ lpc' = "scan" /\ newFd' = NoFd
      /\ UNCHANGED <<queue, running, wpc, view, inbox, backlog, sock, sent, peer, hist, up>>
  BY DEF Register, net
<1>8. queue \in Seq(Fds) /\ inbox \in [Conns -> Seq(Piece)]
  BY <1>1 DEF TypeOK
<1> HIDE DEF q
<1> QED
  BY <1>1, <1>2, <1>4, <1>5, <1>6, <1>7, <1>8, RecordStep

\* An entry that is read is that of a client.
LEMMA ReadsClient ==
  ASSUME TypeOK, NEW i, NEW outcomes, Reads(i, outcomes)
  PROVE  /\ pollFds[i].fd \in Fds
         /\ Visited(i) \in Seq(Entry) /\ i \in DOMAIN pollFds /\ lpc = "scan"
BY VisitedType DEF Reads

\* Pieces are read from the connection that was accepted on the descriptor.
LEMMA PiecesAreLocal ==
  ASSUME IInv, NEW i, Reads(i, {"pieces"})
  PROVE  LET f == pollFds[i].fd
         IN f \in Fds /\ Found(f).fd = f /\ sock[f] \in Conns /\ fdOf[sock[f]] = f
<1> DEFINE f == pollFds[i].fd
<1>1. f \in Fds
  BY ReadsClient DEF IInv
<1>2. Found(f).fd \in {f, Stdin}
  BY <1>1, FoundType DEF IInv
<1>3. Outcome(Found(f).fd) = "pieces"
  BY DEF Reads
<1>4. Found(f).fd # Stdin /\ sock[Found(f).fd] # NoConn
  BY <1>3 DEF Outcome
<1> QED
  BY <1>1, <1>2, <1>4 DEF IInv, SockIsFdOf, TypeOK

\* read_request appends what came in on the descriptor to the record of it.
LEMMA ReadDataStep ==
  ASSUME IInv, NEW i, ReadData(i)
  PROVE  IInv'
<1> DEFINE f == pollFds[i].fd
           r == Found(f)
           c == sock[r.fd]
           raw == r.raw \o Taken(c)
           header == ~r.inBody /\ HeaderEnd(raw) # 0
<1>1. TypeOK /\ RecordIsLocal /\ InboxIsOwn
  BY DEF IInv
<1>2. Reads(i, {"pieces"})
  BY DEF ReadData
<1>3. f \in Fds /\ r.fd = f /\ c \in Conns /\ fdOf[c] = f
  BY <1>2, PiecesAreLocal
<1>4. r \in Client /\ r.raw \in Seq(Piece) /\ \A j \in DOMAIN r.raw : fdOf[r.raw[j].from] = f
  BY <1>1, <1>3, FoundType DEF Client
<1>5. Taken(c) \in Seq(Piece) /\ \A j \in DOMAIN Taken(c) : Taken(c)[j].from = c
  BY <1>1, <1>3, TakenLeft DEF InboxIsOwn
<1>6. raw \in Seq(Piece) /\ \A j \in DOMAIN raw : fdOf[raw[j].from] = f
  <2>1. PICK s \in Seq(Piece), t \in Seq(Piece) : s = r.raw /\ t = Taken(c) /\ raw = s \o t
    BY <1>4, <1>5
  <2>2. /\ s \o t \in Seq(Piece)
        /\ \A j \in DOMAIN (s \o t) : \/ \E k \in DOMAIN s : (s \o t)[j] = s[k]
                                     \/ \E k \in DOMAIN t : (s \o t)[j] = t[k]
    BY ConcatParts
  <2>3. /\ \A k \in DOMAIN s : fdOf[s[k].from] = f
        /\ \A k \in DOMAIN t : fdOf[t[k].from] = f
    BY <1>3, <1>4, <1>5, <2>1
  <2> HIDE DEF raw, r, c, f
  <2>4. \A j \in DOMAIN (s \o t) : fdOf[(s \o t)[j].from] = f
    BY <2>2, <2>3
  <2> QED
    BY <2>1, <2>2, <2>4
<1>7. PICK d \in IF header THEN Authors(raw) ELSE {c} :
        /\ clients' = [clients EXCEPT ![f] = Parsed(r, raw, d)]
        /\ IF EndOfConnection(r, Parsed(r, raw, d))
             THEN Pool!Submit(Parsed(r, raw, d).fd) ELSE UNCHANGED <<queue, running>>
  BY DEF ReadData
<1>8. d \in Conns
  BY <1>3, <1>6, <1>7, AuthorsAreConns
<1> DEFINE q == Parsed(r, raw, d)
<1>9. q \in Client /\ q.fd = f /\ q.raw = raw
  <2>1. r \in Client /\ raw \in Seq(Piece) /\ d \in Conns /\ r.fd = f
    BY <1>3, <1>4, <1>6, <1>8
  <2> HIDE DEF r, raw, f
  <2> QED
    BY <2>1, ParsedType
<1>10. queue' \in Seq(Fds) /\ running' = running
  <2>1. queue \in Seq(Fds)
    BY <1>1 DEF TypeOK
  <2>2. (queue' = Append(queue, q.fd) \/ queue' = queue) /\ running' = running
    BY <1>7 DEF Pool!Submit
  <2> HIDE DEF q, f
  <2> QED
    BY <1>3, <1>9, <2>1, <2>2
<1>11. clients' = [clients EXCEPT ![f] = q]
  BY <1>7
<1>12. inbox' = [inbox EXCEPT ![c] = Left(c)]
  BY DEF ReadData
<1>13. torn' \in [Workers -> BOOLEAN]
  BY <1>1, DisturbedType DEF ReadData
<1>14. pollFds' \in Seq(Entry) /\ lpc = "scan"
  BY <1>1, <1>2, ReadsClient DEF ReadData
<1>15. UNCHANGED <<backlog, sock, sent, peer, lpc, newFd, wpc, view, hist, up>>
  BY DEF ReadData
<1>16. inbox' \in [Conns -> Seq(Piece)]
  BY <1>1, <1>3, <1>12, TakenLeft DEF TypeOK
<1>17. \A e \in Conns : \A j \in DOMAIN inbox'[e] : \E k \in DOMAIN inbox[e] : inbox'[e][j] = inbox[e][k]
  <2> SUFFICES ASSUME NEW e \in Conns, NEW j \in DOMAIN inbox'[e]
               PROVE  \E k \in DOMAIN inbox[e] : inbox'[e][j] = inbox[e][k]
    OBVIOUS
  <2>1. inbox'[e] = IF e = c THEN Left(c) ELSE inbox[e]
    BY <1>1, <1>12 DEF TypeOK
  <2>2. \A k \in DOMAIN Left(c) : \E l \in DOMAIN inbox[c] : Left(c)[k] = inbox[c][l]
    BY <1>1, <1>3, TakenLeft
  <2> HIDE DEF c
  <2> QED
    BY <2>1, <2>2
<1>18. newFd \in Fds \cup {NoFd}
  BY <1>1 DEF TypeOK
<1>19. \A j \in DOMAIN q.raw : fdOf[q.raw[j].from] = f
  BY <1>6, <1>9
<1> HIDE DEF f, q
<1> QED
  BY <1>3, <1>9, <1>10, <1>11, <1>13, <1>14, <1>15, <1>16, <1>17, <1>18, <1>19, RecordStep

\* The end of a stream erases the record and the entry, or makes a ghost.
LEMMA ReadEndsStep ==
  ASSUME IInv, NEW i, ReadEnds(i) \/ ReadBlocks(i)
  PROVE  IInv'
<1> DEFINE f == pollFds[i].fd
           r == Found(f)
<1>1. TypeOK /\ RecordIsLocal
  BY DEF IInv
<1>2. f \in Fds /\ Visited(i) \in Seq(Entry) /\ i \in DOMAIN pollFds /\ lpc = "scan"
  BY <1>1, ReadsClient DEF ReadEnds, ReadBlocks
<1>3. PICK q \in {r, NoClient} : clients' = [clients EXCEPT ![f] = q]
  BY DEF ReadEnds, ReadBlocks
<1>4. r \in Client /\ r.fd \in {f, Stdin} /\ \A j \in DOMAIN r.raw : fdOf[r.raw[j].from] = f
  BY <1>1, <1>2, FoundType
<1>5. pollFds' \in Seq(Entry)
  <2>1. pollFds \in Seq(Entry)
    BY <1>1 DEF TypeOK
  <2> QED
    BY <1>2, <2>1, RemoveAtType DEF ReadEnds, ReadBlocks, Dropped
<1>6. torn' \in [Workers -> BOOLEAN]
  BY <1>1, DisturbedType DEF ReadEnds, ReadBlocks
<1>7. /\ lpc' \in {"scan", "stdin"}
      /\ UNCHANGED <<newFd, queue, running, wpc, view, inbox, backlog, sock, sent, peer, hist, up>>
  BY <1>2 DEF ReadEnds, ReadBlocks, net
<1>8. queue \in Seq(Fds) /\ inbox \in [Conns -> Seq(Piece)] /\ newFd \in Fds \cup {NoFd}
  BY <1>1 DEF TypeOK
<1> HIDE DEF f, r
<1> QED
  BY <1>2, <1>3, <1>4, <1>5, <1>6, <1>7, <1>8, RecordStep

\* Every step of the event loop keeps the invariant.
LEMMA LoopStep ==
  ASSUME IInv, Loop
  PROVE  IInv'
<1>1. TypeOK
  BY DEF IInv
<1>2. CASE Poll
  <2>1. pollFds \in Seq(Entry)
    BY <1>1 DEF TypeOK
  <2>2. ASSUME NEW i \in DOMAIN pollFds
        PROVE  [pollFds[i] EXCEPT !.in = Readable(pollFds[i].fd)] \in Entry
    <3>1. pollFds[i] \in Entry
      BY <2>1
    <3> QED
      BY <3>1 DEF Entry, Readable
  <2>3. pollFds' \in Seq(Entry)
    BY <1>2, <2>1, <2>2 DEF Poll
  <2> QED
    BY <1>2, <2>3, ScanStep DEF Poll
<1>3. CASE EndScan
  BY <1>1, <1>3, ScanStep DEF EndScan, TypeOK
<1>4. CASE RegisterFails
  BY <1>1, <1>4, DieStep DEF RegisterFails, TypeOK
<1>5. ASSUME NEW i, AcceptFails(i) PROVE IInv'
  BY <1>1, <1>5, VisitedType, ScanStep DEF AcceptFails
<1>6. ASSUME NEW i, ReadThrows(i) PROVE IInv'
  BY <1>1, <1>6, DieStep DEF ReadThrows, TypeOK
<1>7. ASSUME NEW i, ReadNothing(i) PROVE IInv'
  BY <1>1, <1>7, ReadsClient, ScanStep DEF ReadNothing
<1> QED
  BY <1>2, <1>3, <1>4, <1>5, <1>6, <1>7, RegisterStep, AcceptStep, ReadDataStep, ReadEndsStep DEF Loop

\* What a worker does to the kernel: nothing, or it closes a descriptor.
NetShrinks ==
  /\ UNCHANGED <<backlog, sent, peer>>
  /\ sock' \in [Fds -> Conns \cup {NoConn}] /\ \A f \in Fds : sock'[f] \in {sock[f], NoConn}
  /\ inbox' \in [Conns -> Seq(Piece)] /\ \A c \in Conns : inbox'[c] \in {inbox[c], <<>>}

\* The answers stay what the invariant says of them.
RepliesLocal ==
  /\ replies \in [Conns -> Seq(Conns \cup {Garbled})]
  /\ AnsweredWasAccepted
  /\ AnswerStaysOnDescriptor

LEMMA NetUnchanged ==
  ASSUME TypeOK, UNCHANGED net
  PROVE  NetShrinks
BY DEF TypeOK, net, NetShrinks

LEMMA RepliesUnchanged ==
  ASSUME IInv, UNCHANGED <<replies, fdOf>>
  PROVE  RepliesLocal'
BY DEF IInv, TypeOK, RepliesLocal, AnsweredWasAccepted, AnswerStaysOnDescriptor

\* A step of worker w that leaves the loop's own state alone keeps the
\* invariant if w's new view and its answer are local.
LEMMA WorkerFrame ==
  ASSUME IInv, NEW w \in Workers,
         NEW there \in {"idle", "lookup", "parse", "respond", "retry", "close"},
         wpc' = [wpc EXCEPT ![w] = there],
         NEW v \in [to : Fds \cup {Stdin, NoFd}, from : Conns \cup {NoConn, Garbled}],
         view' = [view EXCEPT ![w] = v],
         NEW f \in Fds \cup {NoFd},
         running' = [running EXCEPT ![w] = f],
         there = "idle" <=> f = NoFd,
         there \in {"parse", "respond", "retry"} => v.to \in {f, Stdin},
         there \in {"respond", "retry"} =>
           v.from # NoConn /\ (v.from # Garbled => fdOf[v.from] = f),
         queue' \in Seq(Fds), torn' \in [Workers -> BOOLEAN], raced' \in BOOLEAN,
         UNCHANGED <<pollFds, lpc, newFd, fdOf, up>>, NetShrinks, RepliesLocal',
         clients' = clients \/ clients' = [clients EXCEPT ![running[w]] = Found(running[w])]
  PROVE  IInv'
<1> USE DEF IInv
<1>1. /\ clients' \in [Fds -> Client \cup {NoClient}]
      /\ RecordIsLocal'
  <2>1. clients \in [Fds -> Client \cup {NoClient}] /\ running[w] \in Fds \cup {NoFd}
    BY DEF TypeOK
  <2>2. CASE running[w] \in Fds /\ clients' = [clients EXCEPT ![running[w]] = Found(running[w])]
    <3>1. LET r == Found(running[w])
          IN r \in Client /\ r.fd \in {running[w], Stdin}
             /\ \A i \in DOMAIN r.raw : fdOf[r.raw[i].from] = running[w]
      BY <2>2, FoundType
    <3> QED
      BY <2>1, <2>2, <3>1 DEF RecordIsLocal
  <2>3. CASE clients' = clients
    BY <2>1, <2>3 DEF RecordIsLocal
  <2>4. CASE running[w] \notin Fds /\ clients' = [clients EXCEPT ![running[w]] = Found(running[w])]
    BY <2>1, <2>3, <2>4
  <2> QED
    BY <2>2, <2>3, <2>4
<1>2. TypeOK'
  <2>1. /\ running' \in [Workers -> Fds \cup {NoFd}]
        /\ wpc' \in [Workers -> {"idle", "lookup", "parse", "respond", "retry", "close"}]
        /\ view' \in [Workers -> [to : Fds \cup {Stdin, NoFd}, from : Conns \cup {NoConn, Garbled}]]
    BY DEF TypeOK
  <2> QED
    BY <1>1, <2>1 DEF TypeOK, NetShrinks, RepliesLocal
<1>3. ViewIsLocal'
  <2> SUFFICES ASSUME NEW u \in Workers
               PROVE  /\ wpc'[u] = "idle" <=> running'[u] = NoFd
                      /\ wpc'[u] \in {"parse", "respond", "retry"} => view'[u].to \in {running'[u], Stdin}
                      /\ wpc'[u] \in {"respond", "retry"} =>
                           /\ view'[u].from # NoConn
                           /\ view'[u].from # Garbled => fdOf[view'[u].from] = running'[u]
    BY DEF ViewIsLocal
  <2>1. CASE u = w
    BY <2>1 DEF TypeOK
  <2>2. CASE u # w
    BY <2>2 DEF TypeOK, ViewIsLocal
  <2> QED
    BY <2>1, <2>2
<1>4. BacklogIsNew' /\ SockIsFdOf' /\ InboxIsOwn'
  <2>1. BacklogIsNew'
    BY DEF BacklogIsNew, NetShrinks
  <2>2. SockIsFdOf'
    BY DEF SockIsFdOf, NetShrinks
  <2>3. InboxIsOwn'
    <3> SUFFICES ASSUME NEW c \in Conns, NEW i \in DOMAIN inbox'[c] PROVE inbox'[c][i].from = c
      BY DEF InboxIsOwn
    <3>1. inbox'[c] = inbox[c]
      BY DEF NetShrinks
    <3> QED
      BY <3>1 DEF InboxIsOwn
  <2> QED
    BY <2>1, <2>2, <2>3
<1>5. NewFdKnown' /\ AnsweredWasAccepted' /\ AnswerStaysOnDescriptor'
  BY DEF NewFdKnown, RepliesLocal
<1> QED
  BY <1>1, <1>2, <1>3, <1>4, <1>5

\* Every step of a worker keeps the invariant.
LEMMA WorkerStep ==
  ASSUME IInv, NEW w \in Workers, Worker(w)
  PROVE  IInv'
<1> DEFINE f == running[w]
<1>1. TypeOK /\ RecordIsLocal /\ ViewIsLocal
  BY DEF IInv
<1>2. /\ f \in Fds \cup {NoFd} /\ (wpc[w] = "idle" <=> f = NoFd)
      /\ view[w] \in [to : Fds \cup {Stdin, NoFd}, from : Conns \cup {NoConn, Garbled}]
      /\ queue \in Seq(Fds) /\ torn \in [Workers -> BOOLEAN] /\ raced \in BOOLEAN
      /\ running = [running EXCEPT ![w] = f] /\ view = [view EXCEPT ![w] = view[w]]
  BY <1>1 DEF TypeOK, ViewIsLocal
<1>3. CASE Begin(w)
  <2>1. /\ queue # <<>> /\ queue' = Tail(queue)
        /\ running' = [running EXCEPT ![w] = Head(queue)]
        /\ wpc' = [wpc EXCEPT ![w] = "lookup"]
        /\ UNCHANGED <<net, loop, torn, view, hist, up>>
    BY <1>3 DEF Begin, Pool!Start, Step
  <2>2. Head(queue) \in Fds /\ queue' \in Seq(Fds)
    BY <1>2, <2>1
  <2> HIDE DEF f
  <2> QED
    BY <1>1, <1>2, <2>1, <2>2, NetUnchanged, RepliesUnchanged, WorkerFrame, ServerAssumption
       DEF loop, hist
<1>4. CASE Lookup(w)
  <2> DEFINE r == Found(f)
             v == [view[w] EXCEPT !.to = r.fd]
  <2>1. f \in Fds
    BY <1>2, <1>4 DEF Lookup, Step
  <2>2. r.fd \in {f, Stdin}
    BY <1>1, <2>1, FoundType
  <2>3. PICK there \in {"close", "parse"} : wpc' = [wpc EXCEPT ![w] = there]
    BY <1>4 DEF Lookup, Step
  <2>4. /\ view' = [view EXCEPT ![w] = v] /\ clients' = [clients EXCEPT ![f] = r]
        /\ raced' \in BOOLEAN
        /\ UNCHANGED <<net, pollFds, lpc, newFd, queue, running, replies, fdOf, up>>
    BY <1>2, <1>4 DEF Lookup
  <2>5. v \in [to : Fds \cup {Stdin, NoFd}, from : Conns \cup {NoConn, Garbled}] /\ v.to = r.fd
    BY <1>2, <2>1, <2>2
  <2>6. torn' \in [Workers -> BOOLEAN]
    BY <1>1, <1>2, <1>4, DisturbedType DEF Lookup
  <2> HIDE DEF v
  <2> QED
    BY <1>1, <1>2, <2>1, <2>2, <2>3, <2>4, <2>5, <2>6, NetUnchanged, RepliesUnchanged, WorkerFrame,
       ServerAssumption
<1>5. CASE Parse(w)
  <2> DEFINE c == Head(clients[f].raw).from
             v == [view[w] EXCEPT !.from = c]
  <2>1. f \in Fds /\ view[w].to \in {f, Stdin}
    BY <1>1, <1>2, <1>5 DEF Parse, Step, ViewIsLocal
  <2>2. clients[f] \in Client /\ clients[f].raw # <<>>
    BY <1>1, <1>5, <2>1 DEF Parse, TypeOK
  <2>3. clients[f].raw \in Seq(Piece) /\ 1 \in DOMAIN clients[f].raw
    BY <2>2 DEF Client
  <2>4. c \in Conns /\ c = clients[f].raw[1].from
    <3>1. clients[f].raw[1] \in Piece /\ Head(clients[f].raw) = clients[f].raw[1]
      BY <2>3
    <3> QED
      BY <3>1 DEF Piece
  <2>5. fdOf[c] = f
    BY <1>1, <1>5, <2>1, <2>3, <2>4 DEF Parse, RecordIsLocal
  <2>6. /\ wpc' = [wpc EXCEPT ![w] = "respond"] /\ view' = [view EXCEPT ![w] = v]
        /\ raced' \in BOOLEAN
        /\ UNCHANGED <<net, loop, queue, running, torn, replies, fdOf, up>>
    BY <1>2, <1>5 DEF Parse, Step
  <2>7. /\ v \in [to : Fds \cup {Stdin, NoFd}, from : Conns \cup {NoConn, Garbled}]
        /\ v.to = view[w].to /\ v.from = c
    BY <1>2, <2>4
  <2>8. v.to \in {f, Stdin} /\ v.from # NoConn /\ (v.from # Garbled => fdOf[v.from] = f)
    BY <2>1, <2>4, <2>5, <2>7, ServerAssumption
  <2> HIDE DEF v, c, f
  <2> QED
    BY <1>1, <1>2, <2>1, <2>6, <2>7, <2>8, NetUnchanged, RepliesUnchanged, WorkerFrame,
       ServerAssumption DEF loop
<1>6. CASE UseTorn(w)
  <2>1. CASE Die
    BY <1>6, <2>1, DieStep DEF UseTorn
  <2>2. CASE ~Die
    <3> DEFINE v == [to |-> f, from |-> Garbled]
    <3>1. f \in Fds
      BY <1>2, <1>6 DEF UseTorn
    <3>2. /\ \/ wpc' = [wpc EXCEPT ![w] = "close"] /\ view' = view
             \/ wpc' = [wpc EXCEPT ![w] = "respond"] /\ view' = [view EXCEPT ![w] = v]
          /\ raced' = TRUE
          /\ UNCHANGED <<net, loop, queue, running, torn, replies, fdOf, up>>
      BY <1>6, <2>2 DEF UseTorn, Step
    <3>3. /\ v \in [to : Fds \cup {Stdin, NoFd}, from : Conns \cup {NoConn, Garbled}]
          /\ v.to = f /\ v.from = Garbled
      BY <3>1
    <3> HIDE DEF v, f
    <3>4. CASE wpc' = [wpc EXCEPT ![w] = "close"] /\ view' = view
      BY <1>1, <1>2, <3>1, <3>2, <3>4, NetUnchanged, RepliesUnchanged, WorkerFrame,
         ServerAssumption DEF loop
    <3>5. CASE wpc' = [wpc EXCEPT ![w] = "respond"] /\ view' = [view EXCEPT ![w] = v]
      BY <1>1, <1>2, <3>1, <3>2, <3>3, <3>5, NetUnchanged, RepliesUnchanged, WorkerFrame,
         ServerAssumption, ZenonT(40) DEF loop
    <3> QED
      BY <3>2, <3>4, <3>5
  <2> QED
    BY <2>1, <2>2
<1>7. CASE InsertRaces(w) \/ BrokenPipe(w)
  BY <1>2, <1>7, DieStep DEF InsertRaces, BrokenPipe
<1>8. CASE Respond(w)
  <2> DEFINE c == SockOf(view[w].to)
  <2>1. /\ wpc[w] \in {"respond", "retry"} /\ wpc' = [wpc EXCEPT ![w] = "close"]
        /\ c # NoConn
        /\ replies' = [replies EXCEPT ![c] = Append(@, view[w].from)] \/ replies' = replies
        /\ UNCHANGED <<net, loop, queue, running, torn, view, fdOf, raced, up>>
    BY <1>8 DEF Respond, Step
  <2>2. f \in Fds /\ view[w].to = f /\ c = sock[f]
    BY <1>1, <1>2, <2>1, ServerAssumption DEF ViewIsLocal, SockOf
  <2>3. c \in Conns /\ fdOf[c] = f
    BY <1>1, <2>1, <2>2 DEF IInv, SockIsFdOf, TypeOK
  <2>4. view[w].from \in Conns \cup {Garbled} /\ (view[w].from # Garbled => fdOf[view[w].from] = f)
    BY <1>1, <1>2, <2>1 DEF ViewIsLocal
  <2>5. RepliesLocal'
    <3>1. CASE replies' = replies
      BY <2>1, <3>1, RepliesUnchanged
    <3>2. CASE replies' = [replies EXCEPT ![c] = Append(@, view[w].from)]
      <4>1. replies \in [Conns -> Seq(Conns \cup {Garbled})]
        BY <1>1 DEF TypeOK
      <4>2. replies' \in [Conns -> Seq(Conns \cup {Garbled})]
        <5>1. Append(replies[c], view[w].from) \in Seq(Conns \cup {Garbled})
          BY <2>3, <2>4, <4>1
        <5> QED
          BY <3>2, <4>1, <5>1
      <4>3. AnsweredWasAccepted'
        BY <2>1, <2>2, <2>3, <3>2, <4>1, ServerAssumption DEF IInv, AnsweredWasAccepted
      <4>4. ASSUME NEW d \in Conns, NEW i \in DOMAIN replies'[d], replies'[d][i] # Garbled
            PROVE  fdOf[replies'[d][i]] = fdOf[d]
        <5>1. CASE d = c /\ i = Len(replies[c]) + 1
          BY <2>3, <2>4, <3>2, <4>1, <4>4, <5>1
        <5>2. CASE ~(d = c /\ i = Len(replies[c]) + 1)
          <6>1. i \in DOMAIN replies[d] /\ replies'[d][i] = replies[d][i]
            BY <2>3, <2>4, <3>2, <4>1, <5>2
          <6> QED
            BY <4>4, <6>1 DEF IInv, AnswerStaysOnDescriptor
        <5> QED
          BY <5>1, <5>2
      <4>5. AnswerStaysOnDescriptor'
        BY <2>1, <4>4 DEF AnswerStaysOnDescriptor
      <4> QED
        BY <4>2, <4>3, <4>5 DEF RepliesLocal
    <3> QED
      BY <2>1, <3>1, <3>2
  <2> HIDE DEF f, c
  <2> QED
    <3>1. NetShrinks /\ UNCHANGED <<pollFds, lpc, newFd, clients>>
      BY <1>1, <2>1, NetUnchanged DEF loop
    <3>2. f # NoFd /\ running' = [running EXCEPT ![w] = f] /\ view' = [view EXCEPT ![w] = view[w]]
      BY <1>2, <2>1, <2>2, ServerAssumption
    <3> QED
      BY <1>2, <2>1, <2>5, <3>1, <3>2, WorkerFrame
<1>9. CASE RespondFails(w)
  <2>1. PICK there \in {"retry", "close"} : wpc' = [wpc EXCEPT ![w] = there]
    BY <1>9 DEF RespondFails, Step
  <2>2. /\ wpc[w] \in {"respond", "retry"}
        /\ UNCHANGED <<net, loop, queue, running, torn, view, hist, up>>
    BY <1>9 DEF RespondFails, Step
  <2>3. /\ f \in Fds /\ view[w].to \in {f, Stdin} /\ view[w].from # NoConn
        /\ view[w].from # Garbled => fdOf[view[w].from] = f
    BY <1>1, <1>2, <2>2 DEF ViewIsLocal
  <2> HIDE DEF f
  <2> QED
    BY <1>1, <1>2, <2>1, <2>2, <2>3, NetUnchanged, RepliesUnchanged, WorkerFrame,
       ServerAssumption DEF loop, hist
<1>10. CASE Close(w)
  <2>1. /\ wpc[w] = "close" /\ wpc' = [wpc EXCEPT ![w] = "idle"]
        /\ running' = [running EXCEPT ![w] = NoFd] /\ queue' = queue
        /\ view' = [view EXCEPT ![w] = NoView]
        /\ UNCHANGED <<backlog, sent, peer, loop, hist, up>>
    BY <1>10 DEF Close, Step, Pool!Finish
  <2>2. /\ sock' = [sock EXCEPT ![f] = NoConn]
        /\ inbox' = [c \in Conns |-> IF c = sock[f] THEN <<>> ELSE inbox[c]]
        /\ torn' = [torn EXCEPT ![w] = FALSE]
    BY <1>10 DEF Close
  <2>3. NetShrinks
    <3>1. sock \in [Fds -> Conns \cup {NoConn}] /\ inbox \in [Conns -> Seq(Piece)]
      BY <1>1 DEF TypeOK
    <3>2. sock' \in [Fds -> Conns \cup {NoConn}] /\ \A g \in Fds : sock'[g] \in {sock[g], NoConn}
      BY <2>2, <3>1
    <3>3. \A c \in Conns : inbox'[c] \in {inbox[c], <<>>} /\ inbox'[c] \in Seq(Piece)
      BY <2>2, <3>1
    <3>4. inbox' \in [Conns -> Seq(Piece)]
      BY <2>2, <3>1
    <3> QED
      BY <2>1, <3>2, <3>3, <3>4 DEF NetShrinks
  <2>4. torn' \in [Workers -> BOOLEAN]
    BY <1>2, <2>2
  <2>5. NoView \in [to : Fds \cup {Stdin, NoFd}, from : Conns \cup {NoConn, Garbled}]
    BY DEF NoView
  <2> HIDE DEF f
  <2> QED
    BY <1>1, <1>2, <2>1, <2>3, <2>4, <2>5, RepliesUnchanged, WorkerFrame,
       ServerAssumption DEF loop, hist
<1> QED
  BY <1>3, <1>4, <1>5, <1>6, <1>7, <1>8, <1>9, <1>10 DEF Worker

\* Every step keeps the invariant.
LEMMA NextIInv == IInv /\ [Next]_vars => IInv'
<1>1. IInv /\ UNCHANGED vars => IInv'
  BY DEF vars, net, loop, work, hist, IInv, TypeOK, BacklogIsNew, SockIsFdOf, InboxIsOwn,
     RecordIsLocal, ViewIsLocal, NewFdKnown, AnsweredWasAccepted, AnswerStaysOnDescriptor
<1>2. IInv /\ Next => IInv'
  BY ClientStep, LoopStep, WorkerStep DEF Next
<1> QED
  BY <1>1, <1>2

\* The inductive invariant holds in every reachable state.
LEMMA Inductive == Spec => []IInv
BY InitIInv, NextIInv, PTL DEF Spec

-----------------------------------------------------------------------------
\* Every variable keeps its type: in particular every task given to the pool is
\* a descriptor for connections, though its record may name descriptor 0.
THEOREM TypeCorrect == Spec => []TypeOK
<1>1. IInv => TypeOK
  BY DEF IInv
<1> QED
  BY <1>1, Inductive, PTL

\* Whatever is reused, closed or read late, no client gets an answer to a
\* request that came in on another descriptor.
THEOREM AnswersStay == Spec => []AnswerStaysOnDescriptor
<1>1. IInv => AnswerStaysOnDescriptor
  BY DEF IInv
<1> QED
  BY <1>1, Inductive, PTL
=============================================================================
