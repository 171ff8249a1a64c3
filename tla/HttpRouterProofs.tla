-------------------------- MODULE HttpRouterProofs --------------------------
(***************************************************************************)
(* Theorems about HttpRouter, for any filters, handlers, sizes of          *)
(* responses and of send buffers.                                          *)
(***************************************************************************)
EXTENDS HttpRouter, DataLemmas

\* What Route may be told.
Found == {"badLine", "undefined", "noHandle", "badRequest", "found"}

Units == [answer : Nat, unit : 1..Size]
Statuses == {200, 403, 404, 500}

\* TypeOK, with the sets of units and statuses as sets the provers need not open.
Types ==
  /\ pc \in {"start", "filter", "handler", "send", "poll", "done", "terminated"}
  /\ request \in {"new", "badLine", "undefined", "noHandle", "badRequest", "found"}
  /\ filters \in Filters /\ passed \in 0..Len(filters)
  /\ handler \in Handlers /\ step \in 0..Len(handler)
  /\ answers \in Seq(Statuses)
  /\ total \in 0..Size
  /\ stream \in Seq(Units)
  /\ read \in 0..Len(stream)
  /\ peer \in {"reading", "closed", "reset", "broken"}
  /\ cut \in BOOLEAN

\* respond is at work on the last answer, and has not handed over all of it.
Sending == pc \in {"send", "poll"}
SendingLast == Sending => answers # <<>> /\ total < Size

\* The answers respond has done with.
Given == IF Sending THEN Len(answers) - 1 ELSE Len(answers)

\* Until an answer is given up, or its connection fails, the stream holds all of
\* what was given and the part of the last answer that was handed over.
StreamHoldsAnswers ==
  ~cut /\ peer # "broken" /\ pc # "terminated" =>
    Len(stream) = Size * Given + (IF Sending THEN total ELSE 0)

\* What the client's stream rests on; inductive together with the types.
StreamInv == SendingLast /\ StreamHoldsAnswers /\ WholeResponses

\* The thread's place and the fate of the request go together.
PlaceTellsRequest ==
  /\ pc = "start" => request = "new" /\ passed = 0 /\ step = 0 /\ answers = <<>>
  /\ pc \in {"filter", "handler"} => request = "found"
  /\ request = "new" => pc = "start"
  /\ request = "badLine" => pc = "done"
  /\ request = "undefined" => pc = "terminated"

One(status) == Len(answers) = 1 /\ answers[1] = status

\* The first n steps of the handler are responses, and there is an answer to each.
Responded(n) == \A i \in 1..n : handler[i] = "respond" /\ answers[i] = 200

\* What was answered is what the filters and the steps taken call for: a filter
\* stopped the request, or every step responded, or the last of them threw.
AnsweredByFilter ==
  /\ passed < Len(filters) /\ step = 0 /\ filters[passed + 1] \in {"deny", "throw"}
  /\ One(IF filters[passed + 1] = "deny" THEN 403 ELSE 500)
AnsweredBySteps ==
  passed = Len(filters) /\ Len(answers) = step /\ Responded(step)
AnsweredByThrow ==
  /\ passed = Len(filters) /\ step > 0 /\ Len(answers) = step
  /\ Responded(step - 1) /\ handler[step] = "throw" /\ answers[step] = 500

FoundIsAnswered ==
  /\ \A i \in 1..passed : filters[i] = "pass"
  /\ pc = "filter" => step = 0 /\ answers = <<>>
  /\ pc = "handler" => AnsweredBySteps
  /\ Sending => AnsweredByFilter \/ (AnsweredBySteps /\ step > 0) \/ AnsweredByThrow
  /\ pc = "done" => AnsweredByFilter \/ (AnsweredBySteps /\ step = Len(handler)) \/ AnsweredByThrow

\* What was answered so far, until the connection fails or the process ends.
AnswersAreDue ==
  peer # "broken" /\ pc # "terminated" =>
    /\ request = "badLine" => answers = <<>>
    /\ request = "noHandle" => One(404)
    /\ request = "badRequest" => One(500)
    /\ request = "found" => FoundIsAnswered

\* What EveryAnswerGiven rests on, besides the stream.
AnswerInv == PlaceTellsRequest /\ AnswersAreDue

-----------------------------------------------------------------------------
(* The types. *)

LEMMA TypesRead == TypeOK <=> Types
BY Zenon DEF TypeOK, Types, Units, Statuses

\* The numbers and sequences a step deals with.
LEMMA Ranges ==
  ASSUME Types
  PROVE  /\ Size \in Nat \ {0} /\ total \in Nat /\ total <= Size
         /\ filters \in Seq({"pass", "deny", "throw", "escape"})
         /\ handler \in Seq({"respond", "throw", "escape"})
         /\ passed \in Nat /\ passed <= Len(filters) /\ step \in Nat /\ step <= Len(handler)
         /\ Len(filters) \in Nat /\ Len(handler) \in Nat
         /\ answers \in Seq(Statuses) /\ Len(answers) \in Nat
         /\ stream \in Seq(Units) /\ Len(stream) \in Nat /\ read \in Nat /\ read <= Len(stream)
<1>1. filters \in Seq({"pass", "deny", "throw", "escape"}) /\ passed \in 0..Len(filters)
  BY RouterAssumption, Zenon DEF Types
<1>2. handler \in Seq({"respond", "throw", "escape"}) /\ step \in 0..Len(handler)
  BY RouterAssumption, Zenon DEF Types
<1>3. stream \in Seq(Units) /\ read \in 0..Len(stream)
  BY DEF Types
<1>4. answers \in Seq(Statuses)
  BY DEF Types
<1>5. Size \in Nat \ {0} /\ total \in 0..Size
  BY RouterAssumption, Zenon DEF Types
<1>6. Len(filters) \in Nat /\ Len(handler) \in Nat
  BY <1>1, <1>2
<1>7. Len(answers) \in Nat /\ Len(stream) \in Nat
  BY <1>3, <1>4
<1> QED
  BY <1>1, <1>2, <1>3, <1>4, <1>5, <1>6, <1>7

\* Answering and throwing keep the types of what they change.
LEMMA AnswerTypes ==
  ASSUME answers \in Seq(Statuses), NEW status \in Statuses, Answer(status)
  PROVE  /\ pc' = "send" /\ answers' = Append(answers, status) /\ total' = 0
         /\ answers' \in Seq(Statuses)
         /\ answers' # <<>> /\ Len(answers') = Len(answers) + 1
BY DEF Answer

\* An exception ends the request or begins the answer 500.
LEMMA ThrowTypes ==
  ASSUME answers \in Seq(Statuses), Throw
  PROVE  \/ /\ pc' = "done" /\ UNCHANGED <<answers, total>>
            /\ answers # <<>> /\ Last(answers) = 500
         \/ /\ pc' = "send" /\ answers' = Append(answers, 500) /\ total' = 0
            /\ answers' \in Seq(Statuses)
            /\ answers' # <<>> /\ Len(answers') = Len(answers) + 1
<1>1. CASE Catching
  BY <1>1 DEF Throw, Catching, Silently
<1>2. CASE ~Catching
  <2>1. 500 \in Statuses /\ Answer(500)
    BY <1>2 DEF Throw, Statuses
  <2> QED
    BY <2>1, AnswerTypes
<1> QED
  BY <1>1, <1>2

\* What one send puts into the stream.
LEMMA SentTypes ==
  ASSUME Types, NEW n \in 1..(Size - total),
         NEW more, more = [k \in 1..n |-> [answer |-> Len(answers), unit |-> Offset(k)]]
  PROVE  /\ stream \o more \in Seq(Units)
         /\ Len(stream \o more) = Len(stream) + n
         /\ \A i \in 1..Len(stream) : (stream \o more)[i] = stream[i]
         /\ \A i \in Len(stream) + 1..Len(stream) + n :
              (stream \o more)[i] = [answer |-> Len(answers), unit |-> total + (i - Len(stream))]
<1>1. total \in Nat /\ Size \in Nat /\ stream \in Seq(Units) /\ Len(answers) \in Nat
      /\ n \in Nat /\ total + n <= Size
  BY Ranges DEF Types
<1>2. \A k \in 1..n : more[k] = [answer |-> Len(answers), unit |-> total + k]
  BY DEF Offset
<1>3. \A k \in 1..n : more[k] \in Units
  <2> SUFFICES ASSUME NEW k \in 1..n PROVE more[k] \in Units
    OBVIOUS
  <2>1. total + k \in 1..Size
    BY <1>1
  <2> QED
    BY <1>1, <1>2, <2>1 DEF Units
<1>4. DOMAIN more = 1..n /\ more = [k \in 1..n |-> more[k]]
  OBVIOUS
<1>5. more \in Seq(Units) /\ Len(more) = n
  <2>1. more \in [1..n -> Units]
    BY <1>3, <1>4
  <2> QED
    BY <1>1, <2>1
<1>6. /\ stream \o more \in Seq(Units)
      /\ Len(stream \o more) = Len(stream) + n
      /\ \A i \in 1..Len(stream) : (stream \o more)[i] = stream[i]
      /\ \A k \in 1..n : (stream \o more)[Len(stream) + k] = more[k]
  BY <1>1, <1>5
<1>7. ASSUME NEW i \in Len(stream) + 1..Len(stream) + n
      PROVE  (stream \o more)[i] = [answer |-> Len(answers), unit |-> total + (i - Len(stream))]
  <2>1. i - Len(stream) \in 1..n /\ Len(stream) + (i - Len(stream)) = i
    BY <1>1
  <2> QED
    BY <1>2, <1>6, <2>1
<1> QED
  BY <1>6, <1>7

\* Every step keeps the types.
LEMMA TypeStep == Types /\ [Next]_vars => Types'
<1> SUFFICES ASSUME Types, [Next]_vars PROVE Types'
  OBVIOUS
<1> USE Ranges DEF Types, input, link
<1>1. ASSUME NEW what \in Found, Route(what)
      PROVE  Types'
  <2>1. \/ pc' \in {"done", "filter", "terminated"} /\ UNCHANGED <<answers, total>>
        \/ pc' = "send" /\ answers' \in Seq(Statuses) /\ total' = 0
    <3>1. 404 \in Statuses
      BY DEF Statuses
    <3>2. CASE what \in {"badLine", "undefined", "found"}
      BY <1>1, <3>2 DEF Route, Silently, Terminate
    <3>3. CASE what = "noHandle"
      BY <1>1, <3>1, <3>3, AnswerTypes DEF Route
    <3>4. CASE what = "badRequest"
      BY <1>1, <3>4, ThrowTypes DEF Route
    <3> QED
      BY <1>1, <3>2, <3>3, <3>4 DEF Found
  <2> QED
    BY <1>1, <2>1 DEF Route, Found
<1>2. CASE Filter
  <2>1. CASE filters[passed + 1] = "throw"
    BY <1>2, <2>1, ThrowTypes DEF Filter
  <2>4. CASE filters[passed + 1] = "escape"
    BY <1>2, <2>4 DEF Filter, Terminate
  <2>2. CASE filters[passed + 1] \notin {"throw", "escape"} /\ Refused
    <3>1. 403 \in Statuses /\ Answer(403)
      BY <1>2, <2>2 DEF Filter, Statuses
    <3> QED
      BY <1>2, <2>2, <3>1, AnswerTypes DEF Filter
  <2>3. CASE filters[passed + 1] \notin {"throw", "escape"} /\ ~Refused
    BY <1>2, <2>3 DEF Filter
  <2> QED
    BY <2>1, <2>2, <2>3, <2>4
<1>3. CASE FiltersPassed
  BY <1>3 DEF FiltersPassed
<1>4. CASE Handle
  <2>1. step + 1 \in 1..Len(handler) /\ handler[step + 1] \in {"respond", "throw", "escape"}
    BY <1>4 DEF Handle
  <2>2. 200 \in Statuses
    BY DEF Statuses
  <2>3. \/ pc' \in {"done", "terminated"} /\ UNCHANGED <<answers, total>>
        \/ pc' = "send" /\ answers' \in Seq(Statuses) /\ total' = 0
    BY <1>4, <2>1, <2>2, AnswerTypes, ThrowTypes DEF Handle, Terminate
  <2> QED
    BY <1>4, <2>1, <2>3 DEF Handle
<1>5. CASE HandlerReturns
  BY <1>5 DEF HandlerReturns, Silently
<1>6. CASE Send
  <2>1. PICK n \in 1..(Size - total) :
          /\ stream' = stream \o [k \in 1..n |-> [answer |-> Len(answers), unit |-> Offset(k)]]
          /\ total' = total + n
          /\ pc' = IF total + n = Size THEN Caller ELSE "send"
    BY <1>6 DEF Send
  <2>2. stream' \in Seq(Units) /\ Len(stream') = Len(stream) + n
    BY <2>1, SentTypes
  <2>3. read' \in 0..Len(stream') /\ total' \in 0..Size
    BY <1>6, <2>1, <2>2 DEF Send
  <2>4. pc' \in {"handler", "done", "send"}
    BY <2>1 DEF Caller
  <2> QED
    BY <1>6, <2>2, <2>3, <2>4 DEF Send
<1>7. CASE SendBlocks \/ PollReturns \/ PollTimesOut \/ BrokenPipe
  BY <1>7 DEF SendBlocks, PollReturns, PollTimesOut, Caller, BrokenPipe
<1>8. CASE SendFails
  BY <1>8, ThrowTypes DEF SendFails
<1>9. CASE ClientReads \/ ClientLeaves
  BY <1>9 DEF ClientReads, ClientLeaves
<1>10. CASE UNCHANGED vars
  BY <1>10 DEF vars
<1> QED
  BY <1>1, <1>2, <1>3, <1>4, <1>5, <1>6, <1>7, <1>8, <1>9, <1>10 DEF Next, Thread, Found

\* A request starts with the types it keeps.
LEMMA InitTypes == Init => Types
<1> SUFFICES ASSUME Init PROVE Types
  OBVIOUS
<1>1. filters \in Seq({"pass", "deny", "throw", "escape"}) /\ handler \in Seq({"respond", "throw", "escape"})
  BY RouterAssumption, Zenon DEF Init
<1>2. 0 \in 0..Len(filters) /\ 0 \in 0..Len(handler)
  BY <1>1
<1>3. <<>> \in Seq(Statuses) /\ <<>> \in Seq(Units) /\ 0 \in 0..Len(<<>>) /\ 0 \in 0..Size
  BY RouterAssumption
<1> QED
  BY <1>2, <1>3 DEF Init, Types

\* Every state keeps them.
LEMMA Typed == Spec => []Types
BY InitTypes, TypeStep, PTL DEF Spec

\* Every state of a request is well typed, for any filters, handlers and sizes.
THEOREM TypeCorrect == Spec => []TypeOK
BY TypesRead, Typed, PTL

-----------------------------------------------------------------------------
(* The client's stream. *)

\* A new answer begins where the stream stands.
LEMMA BeginAnswer ==
  ASSUME Types, ~Sending, pc' = "send", answers' # <<>>, total' = 0,
         Len(answers') = Len(answers) + 1, UNCHANGED <<stream, cut, peer>>,
         StreamInv, pc # "terminated"
  PROVE  StreamInv'
<1>1. SendingLast'
  BY Ranges DEF SendingLast
<1>2. StreamHoldsAnswers'
  BY Ranges DEF StreamInv, StreamHoldsAnswers, Given, Sending
<1>3. WholeResponses'
  BY DEF StreamInv, WholeResponses
<1> QED
  BY <1>1, <1>2, <1>3 DEF StreamInv

\* Where a send puts unit total + k of the last answer is where it belongs.
LEMMA UnitPlace ==
  ASSUME NEW size \in Nat \ {0}, NEW q \in Nat, NEW r \in Nat, NEW k \in 1..(size - r),
         NEW i \in Nat, i = size * q + r + k
  PROVE  (i - 1) \div size = q /\ (i - 1) % size = r + k - 1
<1>1. r + k - 1 \in 0..(size - 1) /\ i - 1 = size * q + (r + k - 1)
  <2>1. r + k - 1 \in 0..(size - 1)
    OBVIOUS
  <2>2. size * q \in Nat
    OBVIOUS
  <2> QED
    BY <2>1, <2>2
<1> QED
  BY <1>1, DivMod

\* A send keeps the stream whole.
LEMMA SendStream ==
  ASSUME Types, StreamInv, Send
  PROVE  StreamInv'
<1>1. PICK n \in 1..(Size - total) :
        /\ stream' = stream \o [k \in 1..n |-> [answer |-> Len(answers), unit |-> Offset(k)]]
        /\ total' = total + n
        /\ pc' = IF total + n = Size THEN Caller ELSE "send"
  BY DEF Send
<1>2. /\ Len(stream') = Len(stream) + n
      /\ \A i \in 1..Len(stream) : stream'[i] = stream[i]
      /\ \A i \in Len(stream) + 1..Len(stream) + n :
           stream'[i] = [answer |-> Len(answers), unit |-> total + (i - Len(stream))]
      /\ stream' \in Seq(Units)
  BY <1>1, SentTypes
<1>3. /\ pc = "send" /\ peer \in {"reading", "closed"} /\ UNCHANGED <<answers, peer, cut>>
      /\ answers # <<>> /\ Caller \in {"handler", "done"}
  BY DEF Send, link, StreamInv, SendingLast, Sending, Caller
<1>4. Len(answers) \in Nat /\ Len(answers) > 0
  <2>1. answers \in Seq(Statuses)
    BY Ranges
  <2> QED
    BY <1>3, <2>1
<1> DEFINE q == Len(answers) - 1
<1>5. q \in Nat /\ Size \in Nat \ {0} /\ total \in Nat /\ Len(stream) \in Nat /\ n \in Nat
      /\ total + n <= Size
  BY <1>4, Ranges
<1>6. ~cut => Len(stream) = Size * q + total
  BY <1>3 DEF StreamInv, StreamHoldsAnswers, Given, Sending
<1>7. ASSUME ~cut PROVE StreamHoldsAnswers'
  <2>1. Len(stream') = Size * q + (total + n)
    <3>1. Size * q \in Nat
      BY <1>5
    <3> HIDE DEF q
    <3> QED
      BY <1>2, <1>5, <1>6, <1>7, <3>1
  <2>2. CASE total + n = Size
    <3>1. Size * q + Size = Size * (q + 1) /\ q + 1 = Len(answers)
      BY <1>4, <1>5
    <3>2. pc' \in {"handler", "done"}
      BY <1>1, <1>3, <2>2
    <3> QED
      BY <1>3, <1>4, <1>5, <2>1, <2>2, <3>1, <3>2 DEF StreamHoldsAnswers, Given, Sending
  <2>3. CASE total + n # Size
    BY <1>1, <1>3, <2>1, <2>3 DEF StreamHoldsAnswers, Given, Sending
  <2> QED
    BY <2>2, <2>3
<1>8. ASSUME ~cut PROVE WholeResponses'
  <2> SUFFICES ASSUME NEW i \in 1..Len(stream')
               PROVE  stream'[i] = [answer |-> ((i - 1) \div Size) + 1,
                                    unit |-> ((i - 1) % Size) + 1]
    BY <1>2 DEF WholeResponses
  <2>1. CASE i \in 1..Len(stream)
    <3>1. stream'[i] = stream[i] /\ i \in DOMAIN stream
      BY <1>2, <2>1, Ranges
    <3> QED
      BY <1>8, <3>1 DEF StreamInv, WholeResponses
  <2>2. CASE i \notin 1..Len(stream)
    <3> DEFINE k == i - Len(stream)
    <3>1. i \in Len(stream) + 1..Len(stream) + n
      BY <1>2, <1>5, <2>2
    <3>2. k \in 1..(Size - total) /\ i \in Nat
      BY <1>5, <3>1
    <3>3. i = Size * q + total + k
      <4>1. Size * q \in Nat
        BY <1>5
      <4> QED
        BY <1>5, <1>6, <1>8, <3>2, <4>1
    <3> HIDE DEF k, q
    <3>4. (i - 1) \div Size = q /\ (i - 1) % Size = total + k - 1
      BY <1>5, <3>2, <3>3, UnitPlace
    <3>5. q + 1 = Len(answers) /\ (total + k - 1) + 1 = total + k
      BY <1>4, <1>5, <3>2 DEF q
    <3>6. stream'[i] = [answer |-> Len(answers), unit |-> total + k]
      BY <1>2, <3>1 DEF k
    <3> QED
      BY <3>4, <3>5, <3>6
  <2> QED
    BY <2>1, <2>2
<1>9. SendingLast'
  <2>1. pc' = "send" => total + n # Size
    BY <1>1, <1>3
  <2>2. pc' # "poll"
    BY <1>1, <1>3
  <2> QED
    BY <1>1, <1>3, <1>5, <2>1, <2>2 DEF SendingLast, Sending
<1>10. cut => StreamHoldsAnswers' /\ WholeResponses'
  BY <1>3 DEF StreamHoldsAnswers, WholeResponses
<1> QED
  BY <1>7, <1>8, <1>9, <1>10 DEF StreamInv

\* A step that leaves the stream and the answers alone, and neither begins nor
\* ends one, keeps the stream whole.
LEMMA SameStream ==
  ASSUME StreamInv, UNCHANGED <<stream, answers, total>>,
         Sending' <=> Sending, cut => cut', peer = "broken" => peer' = "broken",
         pc # "terminated"
  PROVE  StreamInv'
BY DEF StreamInv, SendingLast, StreamHoldsAnswers, WholeResponses, Given

\* Where nothing is being sent any more only the stream itself matters.
LEMMA StreamLeft ==
  ASSUME StreamInv, ~Sending', UNCHANGED stream, cut => cut',
         cut' \/ peer' = "broken" \/ pc' = "terminated"
  PROVE  StreamInv'
BY DEF StreamInv, SendingLast, StreamHoldsAnswers, WholeResponses

\* Every step keeps the stream whole.
LEMMA StreamStep ==
  ASSUME Types, StreamInv, [Next]_vars
  PROVE  StreamInv'
<1> answers \in Seq(Statuses) /\ Size \in Nat \ {0}
  BY Ranges
<1> USE DEF input, link
<1>1. ASSUME NEW what \in Found, Route(what)
      PROVE  StreamInv'
  <2>0. pc = "start" /\ UNCHANGED <<stream, cut, peer>>
    BY <1>1 DEF Route
  <2>1. \/ pc' \in {"done", "filter", "terminated"} /\ UNCHANGED <<answers, total>>
        \/ pc' = "send" /\ answers' # <<>> /\ Len(answers') = Len(answers) + 1 /\ total' = 0
    <3>1. 404 \in Statuses
      BY DEF Statuses
    <3>2. CASE what \in {"badLine", "undefined", "found"}
      BY <1>1, <3>2 DEF Route, Silently, Terminate
    <3>3. CASE what = "noHandle"
      BY <1>1, <3>1, <3>3, AnswerTypes DEF Route
    <3>4. CASE what = "badRequest"
      BY <1>1, <3>4, ThrowTypes DEF Route
    <3> QED
      BY <1>1, <3>2, <3>3, <3>4 DEF Found
  <2> QED
    BY <2>0, <2>1, BeginAnswer, SameStream DEF Sending
<1>2. CASE Filter
  <2>0. pc = "filter" /\ UNCHANGED <<stream, cut, peer>>
    BY <1>2 DEF Filter
  <2>1. \/ pc' \in {"done", "filter", "terminated"} /\ UNCHANGED <<answers, total>>
        \/ pc' = "send" /\ answers' # <<>> /\ Len(answers') = Len(answers) + 1 /\ total' = 0
    <3>1. 403 \in Statuses
      BY DEF Statuses
    <3>2. CASE filters[passed + 1] = "throw"
      BY <1>2, <3>2, ThrowTypes DEF Filter
    <3>3. CASE filters[passed + 1] # "throw"
      BY <1>2, <3>1, <3>3, AnswerTypes DEF Filter, Terminate
    <3> QED
      BY <3>2, <3>3
  <2> QED
    BY <2>0, <2>1, BeginAnswer, SameStream DEF Sending
<1>3. CASE FiltersPassed
  BY <1>3, SameStream DEF FiltersPassed, Sending
<1>4. CASE Handle
  <2>0. pc = "handler" /\ UNCHANGED <<stream, cut, peer>>
    BY <1>4 DEF Handle
  <2>1. \/ pc' \in {"done", "terminated"} /\ UNCHANGED <<answers, total>>
        \/ pc' = "send" /\ answers' # <<>> /\ Len(answers') = Len(answers) + 1 /\ total' = 0
    <3>1. 200 \in Statuses
      BY DEF Statuses
    <3>2. handler[step + 1] \in {"respond", "throw", "escape"}
      BY <1>4, Ranges DEF Handle
    <3> QED
      BY <1>4, <3>1, <3>2, AnswerTypes, ThrowTypes DEF Handle, Terminate
  <2> QED
    BY <2>0, <2>1, BeginAnswer, SameStream DEF Sending
<1>5. CASE HandlerReturns
  BY <1>5, SameStream DEF HandlerReturns, Silently, Sending
<1>6. CASE Send
  BY <1>6, SendStream
<1>7. CASE SendBlocks \/ PollReturns
  BY <1>7, SameStream DEF SendBlocks, PollReturns, Sending
<1>8. CASE PollTimesOut
  BY <1>8, StreamLeft DEF PollTimesOut, Sending, Caller
<1>9. CASE SendFails
  <2>0. pc = "send" /\ peer' = "broken" /\ UNCHANGED <<stream, cut>>
    BY <1>9 DEF SendFails
  <2>1. \/ pc' = "done"
        \/ pc' = "send" /\ answers' # <<>> /\ total' = 0
    BY <1>9, ThrowTypes DEF SendFails
  <2>2. SendingLast'
    BY <2>1 DEF SendingLast, Sending
  <2> QED
    BY <2>0, <2>2 DEF StreamInv, StreamHoldsAnswers, WholeResponses
<1>10. CASE BrokenPipe
  BY <1>10, StreamLeft DEF BrokenPipe, Sending
<1>11. CASE ClientReads \/ ClientLeaves
  BY <1>11, SameStream DEF ClientReads, ClientLeaves, Sending
<1>12. CASE UNCHANGED vars
  BY <1>12 DEF vars, StreamInv, SendingLast, StreamHoldsAnswers, WholeResponses, Given, Sending
<1> QED
  BY <1>1, <1>2, <1>3, <1>4, <1>5, <1>6, <1>7, <1>8, <1>9, <1>10, <1>11, <1>12 DEF Next, Thread, Found

\* The stream is whole in every state.
LEMMA StreamWhole == Spec => []StreamInv
<1>1. Init => StreamInv
  <2> SUFFICES ASSUME Init PROVE StreamInv
    OBVIOUS
  <2>1. pc = "start" /\ Len(answers) = 0 /\ Len(stream) = 0 /\ DOMAIN stream = {} /\ Size * 0 = 0
    BY RouterAssumption DEF Init
  <2> QED
    BY <2>1 DEF StreamInv, SendingLast, StreamHoldsAnswers, WholeResponses, Given, Sending
<1>2. Types /\ [Next]_vars /\ StreamInv => StreamInv'
  BY StreamStep
<1> QED
  BY <1>1, <1>2, Typed, PTL DEF Spec

\* For responses and send buffers of any size, and however the client's reads
\* split the sends, the client's stream is whole responses one after the other
\* until respond gives one up.
THEOREM StreamIsWhole == Spec => []WholeResponses
<1>1. StreamInv => WholeResponses
  BY DEF StreamInv
<1> QED
  BY <1>1, StreamWhole, PTL

-----------------------------------------------------------------------------
(* The answers. *)

\* The appended answer is the last one and the others stay.
LEMMA Appended ==
  ASSUME answers \in Seq(Statuses), NEW status \in Statuses, answers' = Append(answers, status)
  PROVE  /\ Len(answers') = Len(answers) + 1 /\ answers'[Len(answers) + 1] = status
         /\ \A i \in 1..Len(answers) : answers'[i] = answers[i]
OBVIOUS

\* The steps answered so far stay answered when one more answer is given.
LEMMA StillResponded ==
  ASSUME Types, NEW status \in Statuses, answers' = Append(answers, status), UNCHANGED handler,
         NEW n \in Nat, n <= Len(answers), Responded(n)
  PROVE  Responded(n)'
<1>1. \A i \in 1..n : i \in 1..Len(answers)
  BY Ranges
<1>2. \A i \in 1..Len(answers) : answers'[i] = answers[i]
  BY Ranges, Appended
<1> QED
  BY <1>1, <1>2 DEF Responded

\* Nothing has failed in a request that is still filtered or handled, so that
\* what it throws is answered.
LEMMA ThrowAnswers ==
  ASSUME Types, AnswerInv, peer # "broken", pc \in {"start", "filter", "handler"}, Throw
  PROVE  Answer(500)
<1>1. ASSUME Catching PROVE FALSE
  <2>1. pc = "handler" /\ AnsweredBySteps /\ answers # <<>> /\ answers[Len(answers)] = 500
    BY <1>1 DEF AnswerInv, PlaceTellsRequest, AnswersAreDue, FoundIsAnswered, Catching, Last
  <2>2. Len(answers) \in 1..step
    BY <2>1, Ranges DEF AnsweredBySteps
  <2> QED
    BY <2>1, <2>2 DEF AnsweredBySteps, Responded
<1> QED
  BY <1>1 DEF Throw

\* parse_request_line, the lookup and the request.
LEMMA RouteAnswers ==
  ASSUME Types, AnswerInv, NEW what \in Found, Route(what)
  PROVE  AnswerInv'
<1>1. /\ pc = "start" /\ request' = what /\ passed = 0 /\ step = 0 /\ answers = <<>>
      /\ UNCHANGED <<filters, handler, passed, step, peer>>
  BY DEF Route, AnswerInv, PlaceTellsRequest, link
<1>2. answers \in Seq(Statuses) /\ {404, 500} \subseteq Statuses /\ Len(answers) = 0
  BY <1>1, Ranges DEF Statuses
<1>3. CASE what = "badLine"
  <2>1. pc' = "done" /\ answers' = <<>>
    BY <1>1, <1>3 DEF Route, Silently
  <2> QED
    BY <1>1, <1>3, <2>1 DEF AnswerInv, PlaceTellsRequest, AnswersAreDue
<1>7. CASE what = "undefined"
  <2>1. pc' = "terminated"
    BY <1>7 DEF Route, Terminate
  <2> QED
    BY <1>1, <1>7, <2>1 DEF AnswerInv, PlaceTellsRequest, AnswersAreDue
<1>4. CASE what = "noHandle"
  <2>1. pc' = "send" /\ One(404)'
    BY <1>2, <1>4, Appended DEF Route, Answer, One
  <2> QED
    BY <1>1, <1>4, <2>1 DEF AnswerInv, PlaceTellsRequest, AnswersAreDue
<1>5. CASE what = "badRequest"
  <2>1. pc' = "send" /\ One(500)'
    <3>1. ~Catching
      BY <1>1 DEF Catching
    <3> QED
      BY <1>2, <1>5, <3>1, Appended DEF Route, Throw, Answer, One
  <2> QED
    BY <1>1, <1>5, <2>1 DEF AnswerInv, PlaceTellsRequest, AnswersAreDue
<1>6. CASE what = "found"
  <2>1. pc' = "filter" /\ answers' = <<>> /\ Len(answers') = 0
    BY <1>1, <1>2, <1>6 DEF Route
  <2>2. FoundIsAnswered'
    BY <1>1, <2>1 DEF FoundIsAnswered, Sending
  <2> QED
    BY <1>1, <1>6, <2>1, <2>2 DEF AnswerInv, PlaceTellsRequest, AnswersAreDue
<1> QED
  BY <1>3, <1>4, <1>5, <1>6, <1>7 DEF Found

\* A request that is filtered or handled was found and its connection is whole, or
\* the answers no longer matter.
LEMMA FoundHere ==
  ASSUME AnswerInv, pc \in {"filter", "handler"}
  PROVE  request = "found" /\ (peer # "broken" => FoundIsAnswered)
BY DEF AnswerInv, PlaceTellsRequest, AnswersAreDue

\* A step within a request that was found.
LEMMA FoundStep ==
  ASSUME AnswerInv, request = "found", request' = "found", pc' # "start",
         peer' # "broken" /\ pc' # "terminated" => FoundIsAnswered'
  PROVE  AnswerInv'
BY DEF AnswerInv, PlaceTellsRequest, AnswersAreDue

\* A filter passes, refuses or throws.
LEMMA FilterAnswers ==
  ASSUME Types, AnswerInv, Filter
  PROVE  AnswerInv'
<1>1. /\ pc = "filter" /\ request = "found" /\ passed < Len(filters)
      /\ UNCHANGED <<request, filters, handler, step, peer>>
  BY FoundHere DEF Filter, input, link
<1>4. CASE filters[passed + 1] = "escape"
  <2>1. pc' = "terminated"
    BY <1>1, <1>4 DEF Filter, Terminate
  <2> QED
    BY <1>1, <2>1, FoundStep
<1>2. ASSUME peer # "broken", filters[passed + 1] # "escape"
      PROVE  FoundIsAnswered'
  <2>1. /\ \A i \in 1..passed : filters[i] = "pass"
        /\ step = 0 /\ answers = <<>> /\ Len(answers) = 0
    BY <1>1, <1>2, FoundHere DEF FoundIsAnswered
  <2>2. passed \in Nat /\ answers \in Seq(Statuses) /\ {403, 500} \subseteq Statuses
    BY Ranges DEF Statuses
  <2>3. CASE filters[passed + 1] = "throw"
    <3>1. Answer(500) /\ UNCHANGED passed
      BY <1>1, <1>2, <2>3, ThrowAnswers DEF Filter
    <3>2. pc' = "send" /\ One(500)'
      BY <2>1, <2>2, <3>1, Appended DEF Answer, One
    <3>3. AnsweredByFilter'
      BY <1>1, <2>1, <2>3, <3>1, <3>2 DEF AnsweredByFilter, One
    <3> QED
      BY <1>1, <2>1, <3>1, <3>2, <3>3 DEF FoundIsAnswered, Sending
  <2>4. CASE filters[passed + 1] # "throw" /\ Refused
    <3>1. Answer(403) /\ UNCHANGED passed /\ filters[passed + 1] = "deny"
      BY <1>2, <2>4 DEF Filter, Refused
    <3>2. pc' = "send" /\ One(403)'
      BY <2>1, <2>2, <3>1, Appended DEF Answer, One
    <3>3. AnsweredByFilter'
      BY <1>1, <2>1, <3>1, <3>2 DEF AnsweredByFilter, One
    <3> QED
      BY <1>1, <2>1, <3>1, <3>2, <3>3 DEF FoundIsAnswered, Sending
  <2>5. CASE filters[passed + 1] # "throw" /\ ~Refused
    <3>1. passed' = passed + 1 /\ pc' = "filter" /\ answers' = <<>>
      BY <1>1, <1>2, <2>1, <2>5 DEF Filter
    <3>2. filters[passed + 1] \in {"pass", "deny", "throw", "escape"}
      BY <1>1, <2>2, Ranges
    <3>3. filters[passed + 1] = "pass"
      BY <1>2, <2>5, <3>2 DEF Refused
    <3>4. \A i \in 1..(passed + 1) : filters[i] = "pass"
      BY <2>1, <2>2, <3>3
    <3> QED
      BY <1>1, <2>1, <3>1, <3>4 DEF FoundIsAnswered, Sending
  <2> QED
    BY <2>3, <2>4, <2>5
<1>3. pc' # "start"
  BY <1>1, ThrowTypes, Ranges DEF Filter, Answer, Terminate
<1> QED
  BY <1>1, <1>2, <1>3, <1>4, FoundStep

\* The filters have passed, or the handler returns.
LEMMA TurnAnswers ==
  ASSUME Types, AnswerInv, FiltersPassed \/ HandlerReturns
  PROVE  AnswerInv'
<1>1. CASE FiltersPassed
  <2>1. /\ pc = "filter" /\ pc' = "handler" /\ passed = Len(filters) /\ request = "found"
        /\ UNCHANGED <<request, filters, handler, passed, step, answers, peer>>
    BY <1>1, FoundHere DEF FiltersPassed, input, link
  <2>2. ASSUME peer # "broken" PROVE FoundIsAnswered'
    <3>1. /\ \A i \in 1..passed : filters[i] = "pass"
          /\ step = 0 /\ Len(answers) = 0
      BY <2>1, <2>2, FoundHere DEF FoundIsAnswered
    <3>2. AnsweredBySteps'
      BY <2>1, <3>1 DEF AnsweredBySteps, Responded
    <3> QED
      BY <2>1, <3>1, <3>2 DEF FoundIsAnswered, Sending
  <2> QED
    BY <2>1, <2>2, FoundStep
<1>2. CASE HandlerReturns
  <2>1. /\ pc = "handler" /\ pc' = "done" /\ step = Len(handler) /\ request = "found"
        /\ UNCHANGED <<request, filters, handler, passed, step, answers, peer>>
    BY <1>2, FoundHere DEF HandlerReturns, Silently, input, link
  <2>2. ASSUME peer # "broken" PROVE FoundIsAnswered'
    <3>1. (\A i \in 1..passed : filters[i] = "pass") /\ AnsweredBySteps
      BY <2>1, <2>2, FoundHere DEF FoundIsAnswered
    <3>2. AnsweredBySteps'
      BY <2>1, <3>1 DEF AnsweredBySteps, Responded
    <3> QED
      BY <2>1, <3>1, <3>2 DEF FoundIsAnswered, Sending
  <2> QED
    BY <2>1, <2>2, FoundStep
<1> QED
  BY <1>1, <1>2

\* A step of the handler.
LEMMA HandleAnswers ==
  ASSUME Types, AnswerInv, Handle
  PROVE  AnswerInv'
<1>1. /\ pc = "handler" /\ request = "found" /\ step < Len(handler) /\ step' = step + 1
      /\ UNCHANGED <<request, filters, handler, passed, peer>>
  BY FoundHere DEF Handle, input, link
<1>2. /\ step \in Nat /\ answers \in Seq(Statuses) /\ {200, 500} \subseteq Statuses
      /\ handler[step + 1] \in {"respond", "throw", "escape"}
  BY <1>1, Ranges DEF Statuses
<1>3. ASSUME peer # "broken", pc' # "terminated"
      PROVE  FoundIsAnswered'
  <2>1. /\ \A i \in 1..passed : filters[i] = "pass"
        /\ AnsweredBySteps /\ passed = Len(filters) /\ Len(answers) = step /\ Responded(step)
    BY <1>1, <1>3, FoundHere DEF FoundIsAnswered, AnsweredBySteps
  <2>2. \A i \in 1..step : handler[i] = "respond" /\ answers[i] = 200
    BY <2>1 DEF Responded
  <2>3. CASE handler[step + 1] = "respond"
    <3>1. pc' = "send" /\ answers' = Append(answers, 200)
      BY <2>3 DEF Handle, Answer
    <3>2. /\ Len(answers') = step + 1 /\ answers'[step + 1] = 200
          /\ \A i \in 1..step : answers'[i] = 200
      BY <1>2, <2>1, <2>2, <3>1, Appended
    <3>3. AnsweredBySteps' /\ step' > 0
      <4>1. \A i \in 1..(step + 1) : handler[i] = "respond" /\ answers'[i] = 200
        BY <1>2, <2>2, <2>3, <3>2
      <4> QED
        BY <1>1, <1>2, <2>1, <3>2, <4>1 DEF AnsweredBySteps, Responded
    <3> QED
      BY <1>1, <2>1, <3>1, <3>3 DEF FoundIsAnswered, Sending
  <2>4. CASE handler[step + 1] = "throw"
    <3>1. Answer(500)
      BY <1>1, <1>3, <2>4, ThrowAnswers DEF Handle
    <3>2. pc' = "send" /\ answers' = Append(answers, 500)
      BY <3>1 DEF Answer
    <3>3. /\ Len(answers') = step + 1 /\ answers'[step + 1] = 500
          /\ \A i \in 1..step : answers'[i] = 200
      BY <1>2, <2>1, <2>2, <3>2, Appended
    <3>4. AnsweredByThrow'
      <4>1. step' - 1 = step /\ step' > 0
        BY <1>1, <1>2
      <4>2. \A i \in 1..(step' - 1) : handler'[i] = "respond" /\ answers'[i] = 200
        BY <1>1, <2>2, <3>3, <4>1
      <4> QED
        BY <1>1, <2>1, <2>4, <3>3, <4>1, <4>2 DEF AnsweredByThrow, Responded
    <3> QED
      BY <1>1, <2>1, <3>2, <3>4 DEF FoundIsAnswered, Sending
  <2>5. CASE handler[step + 1] = "escape"
    BY <1>3, <2>5 DEF Handle, Terminate
  <2> QED
    BY <1>2, <2>3, <2>4, <2>5
<1>4. pc' # "start"
  BY <1>1, <1>2, ThrowTypes DEF Handle, Answer, Terminate
<1> QED
  BY <1>1, <1>3, <1>4, FoundStep

\* Which of the ways a found request is answered in leads back to the handler
\* when respond returns.
LEMMA CallerTells ==
  ASSUME Types, AnswerInv, Sending, peer # "broken"
  PROVE  /\ request \in {"noHandle", "badRequest"} => Caller = "done"
         /\ request = "found" => /\ FoundIsAnswered
                                 /\ \/ AnsweredBySteps /\ Caller = "handler"
                                    \/ (AnsweredByFilter \/ AnsweredByThrow) /\ Caller = "done"
<1>1. pc # "terminated" /\ Caller = IF answers[Len(answers)] = 200 THEN "handler" ELSE "done"
  BY DEF Sending, Caller, Last
<1>2. CASE request \in {"noHandle", "badRequest"}
  BY <1>1, <1>2 DEF AnswerInv, AnswersAreDue, One
<1>3. CASE request = "found"
  <2>1. FoundIsAnswered
    BY <1>1, <1>3 DEF AnswerInv, AnswersAreDue
  <2>2. CASE AnsweredByFilter
    BY <1>1, <1>3, <2>1, <2>2 DEF AnsweredByFilter, One
  <2>3. CASE AnsweredBySteps /\ step > 0
    <3>1. step \in 1..step
      BY <2>3, Ranges
    <3> QED
      BY <1>1, <1>3, <2>1, <2>3, <3>1 DEF AnsweredBySteps, Responded
  <2>4. CASE AnsweredByThrow
    BY <1>1, <1>3, <2>1, <2>4 DEF AnsweredByThrow
  <2> QED
    BY <2>1, <2>2, <2>3, <2>4 DEF FoundIsAnswered
<1> QED
  BY <1>2, <1>3

\* respond goes on, or returns after the last byte or for want of room.
LEMMA RespondAnswers ==
  ASSUME Types, AnswerInv, Sending,
         pc' \in {"send", "poll"} \/ (pc' = Caller /\ peer # "broken"),
         UNCHANGED <<request, filters, handler, passed, step, answers, peer>>
  PROVE  AnswerInv'
<1>1. Caller \in {"handler", "done"} /\ request \notin {"new", "badLine", "undefined"}
  BY DEF Caller, AnswerInv, PlaceTellsRequest, Sending
<1>2. pc' \in {"send", "poll", "handler", "done"}
  BY <1>1
<1>3. request \in {"noHandle", "badRequest", "found"}
  BY <1>1 DEF Types
<1>4. CASE request \in {"noHandle", "badRequest"}
  <2>1. pc' # "handler"
    BY <1>4, CallerTells
  <2> QED
    BY <1>2, <1>4, <2>1 DEF AnswerInv, PlaceTellsRequest, AnswersAreDue, One, Sending
<1>5. CASE request = "found"
  <2>1. ASSUME peer # "broken" PROVE FoundIsAnswered'
    <3>1. /\ FoundIsAnswered
          /\ \/ AnsweredBySteps /\ Caller = "handler"
             \/ (AnsweredByFilter \/ AnsweredByThrow) /\ Caller = "done"
      BY <1>5, <2>1, CallerTells
    <3>2. /\ AnsweredBySteps => AnsweredBySteps'
          /\ AnsweredByFilter => AnsweredByFilter'
          /\ AnsweredByThrow => AnsweredByThrow'
      BY DEF AnsweredBySteps, AnsweredByFilter, AnsweredByThrow, Responded, One
    <3>3. (\A i \in 1..passed' : filters'[i] = "pass") /\ pc' # "filter"
      BY <1>2, <3>1 DEF FoundIsAnswered
    <3>4. CASE pc' \in {"send", "poll"}
      BY <3>1, <3>2, <3>3, <3>4 DEF FoundIsAnswered, Sending
    <3>5. CASE pc' = Caller
      BY <1>1, <3>1, <3>2, <3>3, <3>5 DEF FoundIsAnswered, Sending
    <3> QED
      BY <3>4, <3>5
  <2> QED
    BY <1>2, <1>5, <2>1, FoundStep
<1> QED
  BY <1>3, <1>4, <1>5

\* A step after which the answers no longer matter.
LEMMA AnswersLeft ==
  ASSUME AnswerInv, pc' \in {"send", "done", "terminated"}, UNCHANGED request,
         peer' = "broken" \/ pc' = "terminated", pc # "start",
         request # "badLine", request # "undefined"
  PROVE  AnswerInv'
BY DEF AnswerInv, PlaceTellsRequest, AnswersAreDue

\* A step of the client, who may also break the connection.
LEMMA SameAnswers ==
  ASSUME AnswerInv, peer = "broken" => peer' = "broken",
         UNCHANGED <<pc, request, filters, handler, passed, step, answers>>
  PROVE  AnswerInv'
BY DEF AnswerInv, PlaceTellsRequest, AnswersAreDue, FoundIsAnswered, AnsweredBySteps,
  AnsweredByFilter, AnsweredByThrow, Responded, One, Sending

\* Every step keeps the answers those that are due.
LEMMA AnswerStep ==
  ASSUME Types, AnswerInv, [Next]_vars
  PROVE  AnswerInv'
<1> USE DEF input, link
<1>1. ASSUME NEW what \in Found, Route(what)
      PROVE  AnswerInv'
  BY <1>1, RouteAnswers
<1>2. CASE Filter
  BY <1>2, FilterAnswers
<1>3. CASE FiltersPassed \/ HandlerReturns
  BY <1>3, TurnAnswers
<1>4. CASE Handle
  BY <1>4, HandleAnswers
<1>5. CASE Send
  <2>1. /\ Sending /\ peer # "broken" /\ pc' \in {"send", Caller}
        /\ UNCHANGED <<request, filters, handler, passed, step, answers, peer>>
    BY <1>5 DEF Send, Sending
  <2> QED
    BY <2>1, RespondAnswers
<1>6. CASE SendBlocks \/ PollReturns \/ PollTimesOut
  <2>1. /\ Sending
        /\ pc' \in {"send", "poll"} \/ (pc' = Caller /\ peer # "broken")
        /\ UNCHANGED <<request, filters, handler, passed, step, answers, peer>>
    BY <1>6 DEF SendBlocks, PollReturns, PollTimesOut, MaxWaitElapses, Sending
  <2> QED
    BY <2>1, RespondAnswers
<1>7. CASE SendFails
  <2>1. /\ pc = "send" /\ peer' = "broken" /\ UNCHANGED request
        /\ request \notin {"badLine", "undefined"}
    BY <1>7 DEF SendFails, AnswerInv, PlaceTellsRequest
  <2>2. pc' \in {"send", "done"}
    BY <1>7, Ranges, ThrowTypes DEF SendFails
  <2> QED
    BY <2>1, <2>2, AnswersLeft
<1>8. CASE BrokenPipe
  <2>1. /\ pc = "send" /\ pc' = "terminated" /\ UNCHANGED request
        /\ request \notin {"badLine", "undefined"}
    BY <1>8 DEF BrokenPipe, AnswerInv, PlaceTellsRequest
  <2> QED
    BY <2>1, AnswersLeft
<1>9. CASE ClientReads \/ ClientLeaves
  BY <1>9, SameAnswers DEF ClientReads, ClientLeaves
<1>10. CASE UNCHANGED vars
  BY <1>10, SameAnswers DEF vars
<1> QED
  BY <1>1, <1>2, <1>3, <1>4, <1>5, <1>6, <1>7, <1>8, <1>9, <1>10 DEF Next, Thread, Found

\* What is answered in a state is what is due there.
LEMMA AnswersDue == Spec => []AnswerInv
<1>1. Init => AnswerInv
  BY DEF Init, AnswerInv, PlaceTellsRequest, AnswersAreDue
<1>2. Types /\ [Next]_vars /\ AnswerInv => AnswerInv'
  BY AnswerStep
<1> QED
  BY <1>1, <1>2, Typed, PTL DEF Spec

\* The first entry of a sequence that is not v is where Min finds it.
LEMMA FirstOther ==
  ASSUME NEW S, NEW s \in Seq(S), NEW v, NEW k \in 1..Len(s), s[k] # v,
         \A i \in 1..(k - 1) : s[i] = v
  PROVE  {i \in 1..Len(s) : s[i] # v} # {} /\ Min({i \in 1..Len(s) : s[i] # v}) = k
<1> DEFINE I == {i \in 1..Len(s) : s[i] # v}
<1>1. I \in SUBSET Nat /\ k \in I
  OBVIOUS
<1>2. Min(I) \in I /\ Min(I) <= k
  BY <1>1, MinMember
<1>3. ASSUME NEW i \in I PROVE ~(i < k)
  <2> SUFFICES ASSUME i < k PROVE FALSE
    OBVIOUS
  <2>1. i \in 1..(k - 1) /\ s[i] # v
    OBVIOUS
  <2> QED
    BY <2>1
<1>4. Min(I) \in Nat /\ k \in Nat
  BY <1>1, <1>2
<1> QED
  BY <1>1, <1>2, <1>3, <1>4

\* FirstStop and FirstThrow, by the entries before them.
LEMMA FirstStopIs ==
  ASSUME Types
  PROVE  /\ (\A i \in 1..Len(filters) : filters[i] = "pass") => FirstStop = 0
         /\ \A k \in 1..Len(filters) :
              filters[k] # "pass" /\ (\A i \in 1..(k - 1) : filters[i] = "pass") => FirstStop = k
<1> DEFINE I == {i \in 1..Len(filters) : filters[i] # "pass"}
<1>1. FirstStop = IF I # {} THEN Min(I) ELSE 0
  BY DEF FirstStop, SelectInSeq
<1>2. ASSUME NEW k \in 1..Len(filters), filters[k] # "pass",
             \A i \in 1..(k - 1) : filters[i] = "pass"
      PROVE  I # {} /\ Min(I) = k
  BY <1>2, Ranges, FirstOther
<1>3. (\A i \in 1..Len(filters) : filters[i] = "pass") => I = {}
  OBVIOUS
<1> HIDE DEF I
<1> QED
  BY <1>1, <1>2, <1>3

LEMMA FirstThrowIs ==
  ASSUME Types
  PROVE  /\ (\A i \in 1..Len(handler) : handler[i] = "respond") => FirstThrow = 0
         /\ \A k \in 1..Len(handler) :
              handler[k] # "respond" /\ (\A i \in 1..(k - 1) : handler[i] = "respond") => FirstThrow = k
<1> DEFINE I == {i \in 1..Len(handler) : handler[i] # "respond"}
<1>1. FirstThrow = IF I # {} THEN Min(I) ELSE 0
  BY DEF FirstThrow, SelectInSeq
<1>2. ASSUME NEW k \in 1..Len(handler), handler[k] # "respond",
             \A i \in 1..(k - 1) : handler[i] = "respond"
      PROVE  I # {} /\ Min(I) = k
  BY <1>2, Ranges, FirstOther
<1>3. (\A i \in 1..Len(handler) : handler[i] = "respond") => I = {}
  OBVIOUS
<1> HIDE DEF I
<1> QED
  BY <1>1, <1>2, <1>3

\* Sequences of statuses with the same entries are the same.
LEMMA SameSequence ==
  ASSUME NEW S, NEW s \in Seq(S), NEW t \in Seq(S), Len(s) = Len(t),
         \A i \in 1..Len(s) : s[i] = t[i]
  PROVE  s = t
OBVIOUS

\* A request that is done was answered as it is owed.
LEMMA DoneIsAnswered ==
  ASSUME Types, AnswerInv, pc = "done", peer = "reading"
  PROVE  answers = Owed
<1>1. /\ request \in {"badLine", "noHandle", "badRequest", "found"}
      /\ answers \in Seq(Statuses) /\ AnswersAreDue
      /\ {200, 403, 404, 500} \subseteq Statuses
  BY Ranges DEF Types, AnswerInv, PlaceTellsRequest, Statuses
<1>2. CASE request = "badLine"
  BY <1>1, <1>2 DEF AnswersAreDue, Owed
<1>3. ASSUME NEW status \in Statuses, One(status) PROVE answers = <<status>>
  BY <1>1, <1>3 DEF One
<1>4. CASE request = "noHandle"
  BY <1>1, <1>3, <1>4 DEF AnswersAreDue, Owed
<1>5. CASE request = "badRequest"
  BY <1>1, <1>3, <1>5 DEF AnswersAreDue, Owed
<1>6. CASE request = "found"
  <2>1. FoundIsAnswered
    BY <1>1, <1>6 DEF AnswersAreDue
  <2>2. Owed = IF FirstStop # 0 THEN IF filters[FirstStop] = "deny" THEN <<403>> ELSE <<500>>
               ELSE [i \in 1..(IF FirstThrow = 0 THEN Len(handler) ELSE FirstThrow) |->
                       IF i = FirstThrow THEN 500 ELSE 200]
    BY <1>6 DEF Owed
  <2>3. CASE AnsweredByFilter
    <3>1. passed + 1 \in 1..Len(filters) /\ (passed + 1) - 1 = passed
      BY <2>3, Ranges DEF AnsweredByFilter
    <3>2. FirstStop = passed + 1 /\ passed + 1 # 0
      BY <2>1, <2>3, <3>1, FirstStopIs DEF AnsweredByFilter, FoundIsAnswered
    <3> QED
      BY <1>1, <1>3, <2>2, <2>3, <3>2 DEF AnsweredByFilter
  <2>4. CASE AnsweredBySteps /\ step = Len(handler)
    <3>1. FirstStop = 0
      BY <2>1, <2>4, FirstStopIs DEF AnsweredBySteps, FoundIsAnswered
    <3>2. FirstThrow = 0
      BY <2>4, FirstThrowIs DEF AnsweredBySteps, Responded
    <3>3. Owed = [i \in 1..Len(handler) |-> IF i = 0 THEN 500 ELSE 200]
      BY <2>2, <3>1, <3>2
    <3>4. /\ Owed \in Seq(Statuses) /\ Len(Owed) = Len(handler)
          /\ \A i \in 1..Len(handler) : Owed[i] = 200
      BY <1>1, <3>3, Ranges
    <3> QED
      BY <1>1, <2>4, <3>4, SameSequence DEF AnsweredBySteps, Responded
  <2>5. CASE AnsweredByThrow
    <3>1. FirstStop = 0
      BY <2>1, <2>5, FirstStopIs DEF AnsweredByThrow, FoundIsAnswered
    <3>2. step \in 1..Len(handler) /\ step # 0
      BY <2>5, Ranges DEF AnsweredByThrow
    <3>3. FirstThrow = step
      BY <2>5, <3>2, FirstThrowIs DEF AnsweredByThrow, Responded
    <3>4. Owed = [i \in 1..step |-> IF i = step THEN 500 ELSE 200]
      BY <2>2, <3>1, <3>2, <3>3
    <3>5. /\ Owed \in Seq(Statuses) /\ Len(Owed) = step
          /\ \A i \in 1..step : Owed[i] = IF i = step THEN 500 ELSE 200
      BY <1>1, <3>2, <3>4, Ranges
    <3>6. \A i \in 1..step : answers[i] = IF i = step THEN 500 ELSE 200
      <4>1. \A i \in 1..step : i = step \/ i \in 1..(step - 1)
        BY <3>2, Ranges
      <4> QED
        BY <2>5, <4>1 DEF AnsweredByThrow, Responded
    <3> QED
      BY <1>1, <2>5, <3>5, <3>6, SameSequence DEF AnsweredByThrow
  <2> QED
    BY <2>1, <2>3, <2>4, <2>5 DEF FoundIsAnswered
<1> QED
  BY <1>1, <1>2, <1>4, <1>5, <1>6

\* Whatever filters are registered and whatever the handler does, a client that
\* stays gets the answers it is owed and no other, all of each unless it stops
\* reading for MAX_WAIT.
THEOREM AnswersGiven == Spec => []EveryAnswerGiven
<1>1. Types /\ AnswerInv /\ StreamInv => EveryAnswerGiven
  <2> SUFFICES ASSUME Types, AnswerInv, StreamInv, pc = "done", peer = "reading"
               PROVE  answers = Owed /\ (~cut => Len(stream) = Size * Len(Owed))
    BY DEF EveryAnswerGiven
  <2>1. answers = Owed
    BY DoneIsAnswered
  <2>2. ~cut => Len(stream) = Size * Len(answers)
    <3>1. Size * Len(answers) \in Nat
      BY Ranges
    <3> QED
      BY <3>1 DEF StreamInv, StreamHoldsAnswers, Given, Sending
  <2> QED
    BY <2>1, <2>2
<1> QED
  BY <1>1, Typed, AnswersDue, StreamWhole, PTL

-----------------------------------------------------------------------------
(* Who can end the process. *)

\* A filter that is asked and escapes is the first that does not pass.
LEMMA FilterEscapes ==
  ASSUME Types, AnswerInv, Filter, filters[passed + 1] = "escape", peer # "broken"
  PROVE  request = "found" /\ Escapes
<1>1. /\ pc = "filter" /\ request = "found" /\ passed + 1 \in 1..Len(filters)
      /\ (passed + 1) - 1 = passed /\ passed + 1 # 0
  <2>1. pc = "filter" /\ passed < Len(filters) /\ passed \in Nat /\ Len(filters) \in Nat
    BY Ranges DEF Filter
  <2> QED
    BY <2>1, FoundHere
<1>2. \A i \in 1..passed : filters[i] = "pass"
  BY <1>1, FoundHere DEF FoundIsAnswered
<1>3. FirstStop = passed + 1
  BY <1>1, <1>2, FirstStopIs
<1> QED
  BY <1>1, <1>3 DEF Escapes

\* A handler that is called and escapes is behind filters that pass, and has
\* only responded before.
LEMMA HandlerEscapes ==
  ASSUME Types, AnswerInv, Handle, handler[step + 1] = "escape", peer # "broken"
  PROVE  request = "found" /\ Escapes
<1>1. /\ pc = "handler" /\ request = "found" /\ step + 1 \in 1..Len(handler)
      /\ (step + 1) - 1 = step /\ step + 1 # 0
  BY FoundHere, Ranges DEF Handle
<1>2. /\ \A i \in 1..passed : filters[i] = "pass"
      /\ passed = Len(filters) /\ \A i \in 1..step : handler[i] = "respond"
  BY <1>1, FoundHere DEF FoundIsAnswered, AnsweredBySteps, Responded
<1>3. FirstStop = 0
  BY <1>2, FirstStopIs
<1>4. FirstThrow = step + 1
  BY <1>1, <1>2, FirstThrowIs
<1> QED
  BY <1>1, <1>3, <1>4 DEF Escapes

\* Only the steps that end the process make it so, and nothing undoes it.
LEMMA KillStep ==
  ASSUME Types, AnswerInv, OnlyTheseKill, [Next]_vars
  PROVE  OnlyTheseKill'
<1> USE DEF input, link
<1> answers \in Seq(Statuses)
  BY DEF Types
<1>1. CASE BrokenPipe
  BY <1>1 DEF BrokenPipe, OnlyTheseKill
<1>2. CASE Handle
  <2>1. handler[step + 1] \in {"respond", "throw", "escape"}
    BY <1>2, Ranges DEF Handle
  <2>2. pc' = "terminated" => handler[step + 1] = "escape"
    BY <1>2, <2>1, ThrowTypes DEF Handle, Answer
  <2>3. UNCHANGED <<peer, request, filters, handler>> /\ peer \in {"reading", "closed", "reset", "broken"}
    BY <1>2 DEF Handle, Types
  <2>4. Escapes => Escapes'
    BY <2>3 DEF Escapes, FirstStop, FirstThrow, SelectInSeq
  <2> QED
    BY <1>2, <2>2, <2>3, <2>4, HandlerEscapes DEF OnlyTheseKill
<1>3. CASE Filter
  <2>1. pc' = "terminated" => filters[passed + 1] = "escape"
    BY <1>3, ThrowTypes DEF Filter, Answer
  <2>2. UNCHANGED <<peer, request, filters, handler>>
    BY <1>3 DEF Filter
  <2>3. Escapes => Escapes'
    BY <2>2 DEF Escapes, FirstStop, FirstThrow, SelectInSeq
  <2> QED
    BY <1>3, <2>1, <2>2, <2>3, FilterEscapes DEF OnlyTheseKill
<1>4. ASSUME NEW what \in Found, Route(what)
      PROVE  OnlyTheseKill'
  <2>1. what # "undefined" => pc' # "terminated"
    BY <1>4, ThrowTypes DEF Route, Silently, Answer, Found
  <2> QED
    BY <1>4, <2>1 DEF Route, OnlyTheseKill
<1>5. ASSUME \/ FiltersPassed \/ HandlerReturns \/ Send \/ SendBlocks \/ PollReturns
             \/ PollTimesOut \/ SendFails
      PROVE  pc' # "terminated"
  BY <1>5, ThrowTypes DEF FiltersPassed, HandlerReturns, Silently, Send, SendBlocks, PollReturns,
    PollTimesOut, SendFails, Caller
<1>6. ASSUME ClientReads \/ ClientLeaves PROVE pc' # "terminated"
  BY <1>6 DEF ClientReads, ClientLeaves
<1>7. CASE UNCHANGED vars
  BY <1>7 DEF vars, OnlyTheseKill, Escapes, FirstStop, FirstThrow, SelectInSeq
<1> QED
  BY <1>1, <1>2, <1>3, <1>4, <1>5, <1>6, <1>7 DEF Next, Thread, OnlyTheseKill, Found

\* For any filters and handlers, and however slowly the client reads, the process
\* is ended by nothing but a client that leaves, user code that is reached and
\* throws something that is no std::exception, or the undefined lookup.
THEOREM KilledByTheseOnly == Spec => []OnlyTheseKill
<1>1. Init => OnlyTheseKill
  BY DEF Init, OnlyTheseKill
<1>2. Types /\ AnswerInv /\ [Next]_vars /\ OnlyTheseKill => OnlyTheseKill'
  BY KillStep
<1> QED
  BY <1>1, <1>2, Typed, AnswersDue, PTL DEF Spec
=============================================================================
