------------------------- MODULE HttpExchangeProofs -------------------------
(***************************************************************************)
(* Theorems about HttpExchange, for any header lines, bodies, parameters   *)
(* and names of fields, any two ranges of integers one of which holds the  *)
(* other, and any number of lines and calls.                               *)
(***************************************************************************)
EXTENDS HttpExchange, DataLemmas

(***************************************************************************)
(* Sequences of records that need not be of one kind, tables, and the last *)
(* member of a set of indices.                                             *)
(***************************************************************************)

\* A sequence is one over its own elements.
Sequential(s) == s \in Seq(Range(s))

LEMMA SequentialLen ==
  ASSUME NEW s, Sequential(s)
  PROVE  Len(s) \in Nat /\ DOMAIN s = 1..Len(s)
<1>1. s \in Seq(Range(s))
  BY DEF Sequential
<1> QED
  BY <1>1

\* What Append does, whatever the elements are.
LEMMA Appended ==
  ASSUME NEW s, Sequential(s), NEW x, NEW t, t = Append(s, x)
  PROVE  /\ Sequential(t)
         /\ Len(s) \in Nat /\ Len(t) = Len(s) + 1
         /\ DOMAIN s = 1..Len(s) /\ DOMAIN t = 1..(Len(s) + 1)
         /\ t[Len(s) + 1] = x
         /\ \A i \in DOMAIN s : t[i] = s[i]
<1> DEFINE S == Range(s) \cup {x}
<1>1. s \in Seq(S) /\ x \in S
  <2>1. s \in Seq(Range(s))
    BY DEF Sequential
  <2>2. \A i \in 1..Len(s) : s[i] \in Range(s)
    BY <2>1
  <2> QED
    BY <2>1, <2>2
<1> HIDE DEF S
<1>2. /\ t \in Seq(S) /\ Len(s) \in Nat /\ Len(t) = Len(s) + 1
      /\ DOMAIN s = 1..Len(s) /\ DOMAIN t = 1..(Len(s) + 1)
      /\ t[Len(s) + 1] = x /\ \A i \in DOMAIN s : t[i] = s[i]
  BY <1>1
<1>3. Sequential(t)
  <2>1. Range(t) = {t[i] : i \in DOMAIN t}
    BY DEF Range
  <2>2. \A i \in DOMAIN t : t[i] \in Range(t)
    BY <2>1
  <2>3. t \in Seq(Range(t))
    BY <1>2, <2>2
  <2> QED
    BY <2>3 DEF Sequential
<1> QED
  BY <1>2, <1>3

\* The last member of a set that ends at n.
LEMMA LastIs ==
  ASSUME NEW n \in Nat \ {0}, NEW S \in SUBSET (1..n), n \in S
  PROVE  LastOf(S) = n
<1>1. \A x \in S : x \in Nat /\ n >= x
  OBVIOUS
<1>2. \A x \in S : (\A y \in S : x >= y) => x = n
  BY <1>1
<1>3. Max(S) \in S /\ \A y \in S : Max(S) >= y
  BY <1>1 DEF Max
<1> QED
  BY <1>2, <1>3 DEF LastOf

\* A set of indices that is not empty has a last member; the empty one has none.
LEMMA LastMember ==
  ASSUME NEW n \in Nat, NEW S \in SUBSET (1..n)
  PROVE  /\ S = {} => LastOf(S) = 0
         /\ S # {} => /\ LastOf(S) \in S
                      /\ \A y \in S : y <= LastOf(S)
<1>1. CASE S = {}
  BY <1>1 DEF LastOf
<1>2. CASE S # {}
  <2> DEFINE T == {n - x : x \in S}
  <2>0. \A x \in S : x \in 1..n /\ n - x \in Nat
    OBVIOUS
  <2>1. T \in SUBSET Nat /\ T # {}
    BY <1>2, <2>0
  <2>2. PICK m \in T : \A y \in T : m <= y
    BY <2>1, LeastNat, Zenon
  <2>3. PICK x \in S : m = n - x
    BY <2>2
  <2>4. \A y \in S : n - y \in T /\ y \in 1..n
    OBVIOUS
  <2>5. ASSUME NEW y \in S PROVE x >= y
    <3>1. n - x <= n - y
      BY <2>2, <2>3, <2>4
    <3> QED
      BY <2>4, <3>1
  <2>6. Max(S) \in S /\ \A y \in S : Max(S) >= y
    BY <2>5 DEF Max
  <2>7. LastOf(S) = Max(S)
    BY <1>2 DEF LastOf
  <2> QED
    BY <1>2, <2>4, <2>6, <2>7
<1> QED
  BY <1>1, <1>2

\* A name in lower case is its key.
LEMMA LowerOnce ==
  ASSUME NEW j, NEW k
  PROVE  /\ Lower(j) = Lower(k) => j = k
         /\ Lower(k).lower = TRUE /\ Lower(k).key = k
BY DEF Lower

-----------------------------------------------------------------------------
(***************************************************************************)
(* What each step is: one of the ends of the exchange, a line, or a call,  *)
(* and what the call makes of the object it is called on.                  *)
(***************************************************************************)

\* What a setter, called with a name and a value, makes of a response.
Setter(o, call, name, value, new) ==
  \/ call = "set_body" /\ value \in {"hello", "json"} /\ new = WithBody(object[o], value)
  \/ call = "set_status" /\ value \in Statuses /\ new = WithStatus(object[o], value)
  \/ call = "set_custom_message" /\ value = "Fine" /\ new = WithMessage(object[o], value)
  \/ /\ call = "set_version" /\ o = "response" /\ value = "1.0"
     /\ new = WithVersion(object[o], value)
  \/ /\ call = "set_header" /\ name = ContentType /\ new = WithField(object[o], name, value)
  \/ /\ call = "set_header" /\ o = "response" /\ name \in FieldNames
     /\ new = WithField(object[o], name, value)
  \/ /\ call = "remove_header" /\ o = "response" /\ name \in FieldNames
     /\ new = WithoutField(object[o], name)
  \/ /\ call = "set_cookie" /\ o = "response" /\ name = SetCookieName
     /\ new = WithField(object[o], name, Baked(cookie))

Set ==
  \E o \in Objects : \E call, name, value, new :
    Changed(o, call, name, value, new) /\ Setter(o, call, name, value, new)

Queried ==
  \E p \in Parameters, type \in {"int", "int64_t"} : ReadQuery(p, type)

Thrown ==
  \E call \in {"set_header", "set_cookie"} : \E name, value : Threw("response", call, name, value)

RequestSet ==
  \E name \in {Title("x-user"), Lower("x-user")} : SetRequestHeader(name, "ann")

CookieSet ==
  \/ \E value \in {"", "8"} : SetCookieValue(value)
  \/ \E a \in {"SameSite", "Secure"}, v \in {"", "Lax", "yes"} : SetAttribute(a, v)

\* The exchange is answered; nothing but the answer, and a line that was
\* refused, is new.
Ended ==
  /\ phase # "answered" /\ phase' = "answered"
  /\ UNCHANGED <<headers, body, object, cookie, calls>>
  /\ sent' = sent \/ (Room /\ \E line \in Lines : sent' = Append(sent, line))
  /\ \/ \E code \in {403, 404, 500} : answer' = to_string(ErrorResponse(code))
     \/ answer' = to_string(object.response)

\* Every step of the exchange is of one of these kinds.
LEMMA StepKinds ==
  ASSUME [Next]_vars
  PROVE  \/ \E line \in Lines : ReadLine(line)
         \/ Ended \/ HeadersEnd \/ RequestSet \/ Queried \/ Set \/ CookieSet \/ Build
         \/ Thrown
         \/ UNCHANGED vars
<1>1. ASSUME NEW line \in Lines, LineRefused(line) PROVE Ended
  BY <1>1 DEF LineRefused, Ended, AnswerError
<1>2. NoHeaders \/ Respond \/ Refuse \/ NotFound => Ended
  BY DEF NoHeaders, Respond, Refuse, NotFound, Ended, AnswerError
<1>3. ASSUME NEW o \in Objects,
             \/ SetBody(o, "hello") \/ SetBodyJson(o)
             \/ \E code \in Statuses : SetStatus(o, code)
             \/ SetCustomMessage(o, "Fine") \/ SetContentType(o, "text/html")
      PROVE  Set
  <2>1. CASE SetBody(o, "hello")
    BY <2>1 DEF SetBody, Set, Setter
  <2>2. CASE SetBodyJson(o)
    BY <2>2 DEF SetBodyJson, Set, Setter
  <2>3. CASE \E code \in Statuses : SetStatus(o, code)
    BY <2>3 DEF SetStatus, Set, Setter
  <2>4. CASE SetCustomMessage(o, "Fine")
    BY <2>4 DEF SetCustomMessage, Set, Setter
  <2>5. CASE SetContentType(o, "text/html")
    BY <2>5 DEF SetContentType, Set, Setter
  <2> QED
    BY <1>3, <2>1, <2>2, <2>3, <2>4, <2>5
<1>4. ASSUME NEW name \in FieldNames,
             SetHeader(name, Plain("2")) \/ SetHeaderType(name, Plain("5")) \/ RemoveHeader(name)
      PROVE  Set \/ Thrown
  <2>1. "response" \in Objects
    BY DEF Objects
  <2>2. CASE SetHeader(name, Plain("2")) /\ name = SetCookieName
    BY <2>2 DEF SetHeader, Thrown
  <2>3. CASE SetHeader(name, Plain("2")) /\ name # SetCookieName
    BY <2>1, <2>3 DEF SetHeader, Set, Setter
  <2>4. CASE SetHeaderType(name, Plain("5"))
    BY <2>1, <2>4 DEF SetHeaderType, Set, Setter
  <2>5. CASE RemoveHeader(name)
    BY <2>1, <2>5 DEF RemoveHeader, Set, Setter
  <2> QED
    BY <1>4, <2>2, <2>3, <2>4, <2>5
<1>5. ASSUME SetVersion("1.0") PROVE Set
  BY <1>5 DEF SetVersion, Set, Setter, Objects
<1>6. ASSUME SetCookie PROVE Set \/ Thrown
  <2>1. CASE empty_cookie(cookie)
    BY <1>6, <2>1 DEF SetCookie, Thrown
  <2>2. CASE ~empty_cookie(cookie)
    BY <1>6, <2>2 DEF SetCookie, Set, Setter, Objects
  <2> QED
    BY <2>1, <2>2
<1>7. ASSUME Request
      PROVE  \/ \E line \in Lines : ReadLine(line)
             \/ Ended \/ HeadersEnd \/ RequestSet \/ Queried
  BY <1>1, <1>2, <1>7 DEF Request, RequestSet, Queried
<1>8. ASSUME Answer PROVE Ended \/ Set \/ CookieSet \/ Build \/ Thrown
  <2>1. CASE \E o \in Objects :
               \/ SetBody(o, "hello") \/ SetBodyJson(o)
               \/ \E code \in Statuses : SetStatus(o, code)
               \/ SetCustomMessage(o, "Fine") \/ SetContentType(o, "text/html")
    BY <1>3, <2>1
  <2>2. CASE \E name \in FieldNames :
               SetHeader(name, Plain("2")) \/ SetHeaderType(name, Plain("5")) \/ RemoveHeader(name)
    BY <1>4, <2>2
  <2>3. CASE SetVersion("1.0") \/ SetCookie \/ Build
    BY <1>5, <1>6, <2>3
  <2>4. CASE \/ \E value \in {"", "8"} : SetCookieValue(value)
             \/ SetAttribute("SameSite", "Lax") \/ \E v \in {"", "yes"} : SetAttribute("Secure", v)
    BY <2>4 DEF CookieSet
  <2>5. CASE Respond \/ Refuse \/ NotFound
    BY <1>2, <2>5
  <2> QED
    BY <1>8, <2>1, <2>2, <2>3, <2>4, <2>5 DEF Answer
<1> QED
  BY <1>7, <1>8 DEF Next

-----------------------------------------------------------------------------
(***************************************************************************)
(* Types.                                                                  *)
(***************************************************************************)

ResponseFields == {"headers", "body", "code", "message", "version"}

\* What TypeOK says of one response, and the fields it has.
TypedResponse(r) ==
  /\ DOMAIN r = ResponseFields
  /\ DOMAIN r.headers \subseteq FieldNames \cup {ContentType, ContentLength, SetCookieName}
  /\ r.body \in {"", "hello", "json"}
  /\ r.code \in Statuses /\ r.version \in {"", "1.0", "1.1"}
  /\ r.message \in {"", "OK", "Fine"} \cup {MessageOf(code) : code \in Statuses}

CookieType ==
  [name : {"id"}, value : {"", "7", "8"}, response : BOOLEAN,
   attribute : [Attributes -> {"", "None", "Lax", "yes"}]]

HeadersTyped ==
  \A n \in DOMAIN headers :
    n.lower \/ \E i \in DOMAIN calls : calls[i].on = "request" /\ calls[i].name = n
HistoryTyped == Sequential(sent) /\ Sequential(calls) /\ Len(sent) + Len(calls) <= MaxEvents
ObjectTyped == DOMAIN object = Objects /\ \A o \in Objects : TypedResponse(object[o])

\* TypeOK with the fields that the history and the objects have; inductive on
\* its own.
TInv ==
  /\ phase \in {"reading", "handling", "answered"}
  /\ body \in Bodies \cup {""}
  /\ HeadersTyped /\ HistoryTyped /\ ObjectTyped /\ cookie \in CookieType

LEMMA TInvTypes == TInv => TypeOK
<1>1. ObjectTyped =>
        \A o \in Objects :
          /\ DOMAIN object[o].headers
               \subseteq FieldNames \cup {ContentType, ContentLength, SetCookieName}
          /\ object[o].body \in {"", "hello", "json"}
          /\ object[o].code \in Statuses /\ object[o].version \in {"", "1.0", "1.1"}
          /\ object[o].message
               \in {"", "OK", "Fine"} \cup {MessageOf(code) : code \in Statuses}
  BY DEF ObjectTyped, TypedResponse
<1>2. cookie \in CookieType => /\ cookie.attribute \in [Attributes -> {"", "None", "Lax", "yes"}]
                               /\ cookie.value \in {"", "7", "8"}
  BY DEF CookieType
<1> QED
  BY <1>1, <1>2 DEF TInv, TypeOK, HeadersTyped, HistoryTyped

\* A setter makes a response of a response.
LEMMA SetterType ==
  ASSUME NEW r, TypedResponse(r), NEW name, NEW value
  PROVE  /\ value \in {"hello", "json"} => TypedResponse(WithBody(r, value))
         /\ value \in Statuses => TypedResponse(WithStatus(r, value))
         /\ value = "Fine" => TypedResponse(WithMessage(r, value))
         /\ value = "1.0" => TypedResponse(WithVersion(r, value))
         /\ name \in FieldNames \cup {ContentType, ContentLength, SetCookieName} =>
              TypedResponse(WithField(r, name, value))
         /\ TypedResponse(WithoutField(r, name))
<1>1. value \in {"hello", "json"} => TypedResponse(WithBody(r, value))
  BY DEF TypedResponse, ResponseFields, WithBody
<1>2. value \in Statuses => TypedResponse(WithStatus(r, value))
  BY DEF TypedResponse, ResponseFields, WithStatus
<1>3. value = "Fine" => TypedResponse(WithMessage(r, value))
  BY DEF TypedResponse, ResponseFields, WithMessage
<1>4. value = "1.0" => TypedResponse(WithVersion(r, value))
  BY DEF TypedResponse, ResponseFields, WithVersion
<1>5. name \in FieldNames \cup {ContentType, ContentLength, SetCookieName} =>
        TypedResponse(WithField(r, name, value))
  BY DEF TypedResponse, ResponseFields, WithField, Assigned
<1>6. TypedResponse(WithoutField(r, name))
  BY DEF TypedResponse, ResponseFields, WithoutField
<1> QED
  BY <1>1, <1>2, <1>3, <1>4, <1>5, <1>6

\* The response a setter leaves is one.
LEMMA SetType ==
  ASSUME TInv, NEW o \in Objects, NEW call, NEW name, NEW value, NEW new,
         Setter(o, call, name, value, new)
  PROVE  TypedResponse(new)
<1>1. TypedResponse(object[o])
  BY DEF TInv, ObjectTyped
<1> DEFINE r == object[o]
<1> HIDE DEF r
<1>2. TypedResponse(r)
  BY <1>1 DEF r
<1>3. \/ value \in {"hello", "json"} /\ new = WithBody(r, value)
      \/ value \in Statuses /\ new = WithStatus(r, value)
      \/ value = "Fine" /\ new = WithMessage(r, value)
      \/ value = "1.0" /\ new = WithVersion(r, value)
      \/ /\ name \in FieldNames \cup {ContentType, ContentLength, SetCookieName}
         /\ new = WithField(r, name, value) \/ new = WithField(r, name, Baked(cookie))
      \/ new = WithoutField(r, name)
  BY DEF Setter, r
<1> QED
  BY <1>2, <1>3, SetterType

\* The exchange starts typed.
LEMMA InitTInv == Init => TInv
<1> SUFFICES ASSUME Init PROVE TInv
  OBVIOUS
<1>1. TypedResponse(NewResponse)
  BY DEF NewResponse, TypedResponse, ResponseFields, Assigned, NoFields, Statuses
<1>2. NewCookie("id", "7") \in CookieType
  BY DEF NewCookie, CookieType
<1>3. Sequential(<<>>) /\ Len(<<>>) = 0
  BY DEF Sequential, Range
<1>4. DOMAIN NoFields = {}
  BY DEF NoFields
<1>5. Len(sent) + Len(calls) <= MaxEvents
  <2>1. sent = <<>> /\ calls = <<>>
    BY DEF Init
  <2> QED
    BY <1>3, <2>1, ExchangeAssumption
<1>6. \A o \in Objects : object[o] = NewResponse
  BY DEF Init
<1>7. DOMAIN object = Objects
  BY DEF Init
<1>8. HeadersTyped /\ HistoryTyped /\ ObjectTyped
  BY <1>1, <1>3, <1>4, <1>5, <1>6, <1>7 DEF Init, HeadersTyped, HistoryTyped, ObjectTyped
<1> QED
  BY <1>2, <1>8 DEF Init, TInv

\* The history as a call of the handler leaves it.
LEMMA CallAppended ==
  ASSUME TInv, NEW x, Room, calls' = Append(calls, x), sent' = sent
  PROVE  /\ Sequential(calls)' /\ Sequential(sent)'
         /\ Len(calls) \in Nat /\ Len(calls') = Len(calls) + 1
         /\ DOMAIN calls = 1..Len(calls) /\ DOMAIN calls' = 1..(Len(calls) + 1)
         /\ calls'[Len(calls) + 1] = x
         /\ \A i \in DOMAIN calls : calls'[i] = calls[i]
         /\ (Len(sent) + Len(calls) <= MaxEvents)'
<1>1. Sequential(calls) /\ Sequential(sent)
  BY DEF TInv, HistoryTyped
<1>2. /\ Sequential(calls') /\ Len(calls) \in Nat /\ Len(calls') = Len(calls) + 1
      /\ DOMAIN calls = 1..Len(calls) /\ DOMAIN calls' = 1..(Len(calls) + 1)
      /\ calls'[Len(calls) + 1] = x
      /\ \A i \in DOMAIN calls : calls'[i] = calls[i]
  <2>1. Sequential(calls') /\ Len(calls) \in Nat /\ Len(calls') = Len(calls) + 1
    BY <1>1, Appended
  <2>2. DOMAIN calls = 1..Len(calls) /\ DOMAIN calls' = 1..(Len(calls) + 1)
    BY <1>1, Appended
  <2>3. calls'[Len(calls) + 1] = x
    BY <1>1, Appended
  <2>4. \A i \in DOMAIN calls : calls'[i] = calls[i]
    BY <1>1, Appended
  <2> QED
    BY <2>1, <2>2, <2>3, <2>4
<1>3. Len(sent) \in Nat
  BY <1>1 DEF Sequential
<1>4. Len(sent') + Len(calls') <= MaxEvents
  BY <1>2, <1>3, ExchangeAssumption DEF Room
<1> QED
  BY <1>1, <1>2, <1>4 DEF Sequential

\* The history as a line leaves it.
LEMMA LineAppended ==
  ASSUME TInv, NEW x, Room, sent' = Append(sent, x), calls' = calls
  PROVE  /\ Sequential(calls)' /\ Sequential(sent)'
         /\ Len(sent) \in Nat /\ Len(sent') = Len(sent) + 1
         /\ DOMAIN sent = 1..Len(sent) /\ DOMAIN sent' = 1..(Len(sent) + 1)
         /\ sent'[Len(sent) + 1] = x
         /\ \A i \in DOMAIN sent : sent'[i] = sent[i]
         /\ (Len(sent) + Len(calls) <= MaxEvents)'
<1>1. Sequential(calls) /\ Sequential(sent)
  BY DEF TInv, HistoryTyped
<1>2. /\ Sequential(sent') /\ Len(sent) \in Nat /\ Len(sent') = Len(sent) + 1
      /\ DOMAIN sent = 1..Len(sent) /\ DOMAIN sent' = 1..(Len(sent) + 1)
      /\ sent'[Len(sent) + 1] = x
      /\ \A i \in DOMAIN sent : sent'[i] = sent[i]
  <2>1. Sequential(sent') /\ Len(sent) \in Nat /\ Len(sent') = Len(sent) + 1
    BY <1>1, Appended
  <2>2. DOMAIN sent = 1..Len(sent) /\ DOMAIN sent' = 1..(Len(sent) + 1)
    BY <1>1, Appended
  <2>3. sent'[Len(sent) + 1] = x
    BY <1>1, Appended
  <2>4. \A i \in DOMAIN sent : sent'[i] = sent[i]
    BY <1>1, Appended
  <2> QED
    BY <2>1, <2>2, <2>3, <2>4
<1>3. Len(calls) \in Nat
  BY <1>1 DEF Sequential
<1>4. Len(sent') + Len(calls') <= MaxEvents
  BY <1>2, <1>3, ExchangeAssumption DEF Room
<1> QED
  BY <1>1, <1>2, <1>4 DEF Sequential

\* A call leaves the table of the request and its history typed.
LEMMA CallTyped ==
  ASSUME TInv, NEW x, Room, calls' = Append(calls, x), sent' = sent, headers' = headers
  PROVE  HeadersTyped' /\ HistoryTyped'
<1>1. /\ HistoryTyped'
      /\ DOMAIN calls \subseteq DOMAIN calls' /\ \A i \in DOMAIN calls : calls'[i] = calls[i]
  <2>1. \A n \in Nat : 1..n \subseteq 1..(n + 1)
    OBVIOUS
  <2> QED
    BY <2>1, CallAppended DEF HistoryTyped
<1>2. HeadersTyped
  BY DEF TInv
<1> QED
  BY <1>1, <1>2 DEF HeadersTyped

\* Every step keeps the types.
LEMMA NextTInv == TInv /\ [Next]_vars => TInv'
<1> SUFFICES ASSUME TInv, [Next]_vars PROVE TInv'
  OBVIOUS
<1>0. /\ phase \in {"reading", "handling", "answered"}
      /\ body \in Bodies \cup {""}
      /\ HeadersTyped /\ HistoryTyped /\ ObjectTyped /\ cookie \in CookieType
  BY DEF TInv
<1>1. ASSUME NEW line \in Lines, ReadLine(line) PROVE TInv'
  <2>1. Room /\ sent' = Append(sent, line) /\ calls' = calls
    BY <1>1 DEF ReadLine
  <2>2. HistoryTyped'
    BY <2>1, LineAppended DEF HistoryTyped
  <2>3. \A n \in DOMAIN headers' : n \in DOMAIN headers \/ n.lower
    BY <1>1, LowerOnce DEF ReadLine, WithLine, Emplaced, Assigned, to_lowercase_str
  <2>4. HeadersTyped'
    BY <1>0, <2>1, <2>3 DEF HeadersTyped
  <2> QED
    BY <1>0, <1>1, <2>2, <2>4 DEF ReadLine, ObjectTyped, TInv
<1>2. ASSUME Ended PROVE TInv'
  <2>1. HistoryTyped'
    <3>1. CASE sent' = sent
      BY <1>0, <1>2, <3>1 DEF Ended, HistoryTyped
    <3>2. CASE Room /\ \E line \in Lines : sent' = Append(sent, line)
      BY <1>2, <3>2, LineAppended DEF Ended, HistoryTyped
    <3> QED
      BY <1>2, <3>1, <3>2 DEF Ended
  <2> QED
    BY <1>0, <1>2, <2>1 DEF Ended, HeadersTyped, ObjectTyped, TInv
<1>3. ASSUME HeadersEnd PROVE TInv'
  BY <1>0, <1>3 DEF HeadersEnd, HeadersTyped, HistoryTyped, ObjectTyped, TInv
<1>4. ASSUME RequestSet PROVE TInv'
  <2>1. PICK name \in {Title("x-user"), Lower("x-user")} : SetRequestHeader(name, "ann")
    BY <1>4 DEF RequestSet
  <2> DEFINE x == [on |-> "request", call |-> "set_header", name |-> name,
                   value |-> "ann", threw |-> FALSE]
  <2>2. /\ Room /\ calls' = Append(calls, x) /\ sent' = sent
        /\ headers' = WithHeader(headers, name, "ann")
        /\ UNCHANGED <<phase, body, object, cookie>>
    BY <2>1 DEF SetRequestHeader, Made
  <2>3. x.on = "request" /\ x.name = name
    OBVIOUS
  <2> HIDE DEF x
  <2>4. /\ Sequential(calls)' /\ Sequential(sent)' /\ (Len(sent) + Len(calls) <= MaxEvents)'
        /\ Len(calls) \in Nat
        /\ DOMAIN calls = 1..Len(calls) /\ DOMAIN calls' = 1..(Len(calls) + 1)
        /\ calls'[Len(calls) + 1] = x /\ \A i \in DOMAIN calls : calls'[i] = calls[i]
    BY <2>2, CallAppended
  <2>5. \A n \in DOMAIN headers' : n = name \/ n \in DOMAIN headers
    BY <2>2 DEF WithHeader, Assigned
  <2>6. HeadersTyped'
    <3>1. DOMAIN calls \subseteq DOMAIN calls' /\ Len(calls) + 1 \in DOMAIN calls'
      BY <2>4
    <3> QED
      <4>1. ASSUME NEW n \in DOMAIN headers'
            PROVE  n.lower \/ \E i \in DOMAIN calls' : calls'[i].on = "request" /\ calls'[i].name = n
        <5>1. CASE n = name
          BY <2>3, <2>4, <3>1, <5>1
        <5>2. CASE n \in DOMAIN headers
          BY <1>0, <2>4, <3>1, <5>2 DEF HeadersTyped
        <5> QED
          BY <2>5, <5>1, <5>2
      <4> QED
        BY <4>1 DEF HeadersTyped
  <2> QED
    BY <1>0, <2>2, <2>4, <2>6 DEF HistoryTyped, ObjectTyped, TInv
<1>5. ASSUME Queried PROVE TInv'
  <2>1. /\ Room /\ \E x : calls' = Append(calls, x)
        /\ UNCHANGED <<headers, body, object, cookie, sent>>
        /\ phase' \in {"handling", "answered"}
    BY <1>5 DEF Queried, ReadQuery, Made, Threw, AnswerError
  <2>2. HeadersTyped' /\ HistoryTyped'
    BY <2>1, CallTyped
  <2> QED
    BY <1>0, <2>1, <2>2 DEF ObjectTyped, TInv
<1>6. ASSUME Set PROVE TInv'
  <2>1. PICK o \in Objects : \E call, name, value, new :
          Changed(o, call, name, value, new) /\ Setter(o, call, name, value, new)
    BY <1>6 DEF Set
  <2>2. PICK call, name, value, new :
          Changed(o, call, name, value, new) /\ Setter(o, call, name, value, new)
    BY <2>1
  <2>3. /\ Room /\ \E x : calls' = Append(calls, x)
        /\ UNCHANGED <<headers, body, cookie, sent, phase>>
        /\ object' = [object EXCEPT ![o] = new]
    BY <2>2 DEF Changed, Made
  <2>4. HeadersTyped' /\ HistoryTyped'
    BY <2>3, CallTyped
  <2>5. TypedResponse(new)
    BY <2>2, SetType
  <2>6. ObjectTyped'
    BY <1>0, <2>3, <2>5 DEF ObjectTyped
  <2> QED
    BY <1>0, <2>3, <2>4, <2>6 DEF TInv
<1>7. ASSUME CookieSet PROVE TInv'
  <2>1. /\ Room /\ \E x : calls' = Append(calls, x)
        /\ UNCHANGED <<headers, body, object, sent, phase>>
    BY <1>7 DEF CookieSet, SetCookieValue, SetAttribute, Made
  <2>2. HeadersTyped' /\ HistoryTyped'
    BY <2>1, CallTyped
  <2>3. cookie' \in CookieType
    <3>1. CASE \E value \in {"", "8"} : SetCookieValue(value)
      BY <1>0, <3>1 DEF SetCookieValue, CookieType
    <3>2. CASE \E a \in {"SameSite", "Secure"}, v \in {"", "Lax", "yes"} : SetAttribute(a, v)
      <4>1. PICK a \in {"SameSite", "Secure"}, v \in {"", "Lax", "yes"} : SetAttribute(a, v)
        BY <3>2
      <4>2. /\ cookie.attribute \in [Attributes -> {"", "None", "Lax", "yes"}]
            /\ cookie.name = "id" /\ cookie.value \in {"", "7", "8"}
            /\ DOMAIN cookie = {"name", "value", "response", "attribute"}
        BY <1>0 DEF CookieType
      <4>3. cookie' = [cookie EXCEPT !.attribute[a] = v, !.response = TRUE]
        BY <4>1 DEF SetAttribute, WithAttribute
      <4>4. /\ cookie'.attribute = [cookie.attribute EXCEPT ![a] = v]
            /\ cookie'.name = "id" /\ cookie'.value \in {"", "7", "8"} /\ cookie'.response = TRUE
            /\ DOMAIN cookie' = {"name", "value", "response", "attribute"}
        BY <4>2, <4>3
      <4>5. [cookie.attribute EXCEPT ![a] = v] \in [Attributes -> {"", "None", "Lax", "yes"}]
        BY <4>2
      <4>6. cookie' = [name |-> cookie'.name, value |-> cookie'.value,
                       response |-> cookie'.response, attribute |-> cookie'.attribute]
        BY <4>3, <4>4
      <4> QED
        BY <4>4, <4>5, <4>6 DEF CookieType
    <3> QED
      BY <1>7, <3>1, <3>2 DEF CookieSet
  <2> QED
    BY <1>0, <2>1, <2>2, <2>3 DEF ObjectTyped, TInv
<1>8. ASSUME Build PROVE TInv'
  <2>1. /\ Room /\ \E x : calls' = Append(calls, x)
        /\ UNCHANGED <<headers, body, cookie, sent, phase>>
        /\ object' = [builder |-> MovedFrom(object.builder), response |-> object.builder]
    BY <1>8 DEF Build, Made
  <2>2. HeadersTyped' /\ HistoryTyped'
    BY <2>1, CallTyped
  <2>3. TypedResponse(object["builder"])
    BY <1>0 DEF ObjectTyped, Objects
  <2>4. TypedResponse(MovedFrom(object["builder"]))
    BY <2>3 DEF TypedResponse, MovedFrom, ResponseFields, NoFields
  <2>5. DOMAIN object' = Objects /\ object'["builder"] = MovedFrom(object["builder"])
        /\ object'["response"] = object["builder"]
    BY <2>1 DEF Objects
  <2>6. ObjectTyped'
    BY <2>3, <2>4, <2>5 DEF ObjectTyped, Objects
  <2> QED
    BY <1>0, <2>1, <2>2, <2>6 DEF TInv
<1>9. ASSUME Thrown PROVE TInv'
  <2>1. /\ Room /\ \E x : calls' = Append(calls, x)
        /\ UNCHANGED <<headers, body, object, cookie, sent>>
        /\ phase' \in {"handling", "answered"}
    BY <1>9 DEF Thrown, Threw, AnswerError
  <2>2. HeadersTyped' /\ HistoryTyped'
    BY <2>1, CallTyped
  <2> QED
    BY <1>0, <2>1, <2>2 DEF ObjectTyped, TInv
<1>10. ASSUME UNCHANGED vars PROVE TInv'
  BY <1>0, <1>10 DEF vars, HeadersTyped, HistoryTyped, ObjectTyped, TInv
<1> QED
  BY <1>1, <1>2, <1>3, <1>4, <1>5, <1>6, <1>7, <1>8, <1>9, <1>10, StepKinds

\* Every reachable state has the types it was given.
THEOREM AlwaysTyped == Spec => []TInv
<1>1. Init => TInv
  BY InitTInv
<1>2. TInv /\ [Next]_vars => TInv'
  BY NextTInv
<1> QED
  BY <1>1, <1>2, PTL DEF Spec

\* TypeOK: names in the table of a request are in lower case unless a handler
\* wrote them, and every object has the values its setters give it.
THEOREM TypesHold == Spec => []TypeOK
BY AlwaysTyped, TInvTypes, PTL

-----------------------------------------------------------------------------
(***************************************************************************)
(* The table of a request.                                                 *)
(***************************************************************************)

LinesOf(key) == {i \in DOMAIN sent : sent[i].name.key = key}
SetUnder(key) == {i \in DOMAIN calls : calls[i].on = "request" /\ calls[i].name = Lower(key)}

\* The table has under a key what a handler set last, else what the first line
\* of that key left, else nothing.
KeyTold(key) ==
  /\ SetUnder(key) # {} =>
       Lower(key) \in DOMAIN headers /\ headers[Lower(key)] = calls[LastOf(SetUnder(key))].value
  /\ SetUnder(key) = {} /\ (key = "cookie" \/ LinesOf(key) = {}) => Lower(key) \notin DOMAIN headers
  /\ SetUnder(key) = {} /\ key # "cookie" =>
       \A i \in LinesOf(key) :
         /\ Lower(key) \in DOMAIN headers
         /\ (\A j \in 1..(i - 1) : sent[j].name.key # key) =>
              headers[Lower(key)] = ValueOfLine(sent[i])

\* Until the answer the table tells of every key; while lines are read the
\* handler has set nothing.
HInv ==
  /\ phase = "reading" => calls = <<>>
  /\ phase # "answered" => \A key : KeyTold(key)

\* What is known of every key is known of every name a handler may ask for.
LEMMA HInvRead == TInv /\ HInv => HeaderRead
<1> SUFFICES ASSUME TInv, HInv, phase = "handling", NEW name
             PROVE  LET found == get_header(headers, name)
                    IN IF SetLast(name) # 0 THEN found = calls[SetLast(name)].value
                       ELSE IF name.key = "cookie" \/ FirstLine(name) = {} THEN found = None
                       ELSE \A i \in FirstLine(name) :
                              sent[i].form = "spaced" => found = sent[i].value
  BY DEF HeaderRead, Handled
<1> DEFINE key == name.key
           found == get_header(headers, name)
<1>1. KeyTold(key)
  BY DEF HInv
<1>2. /\ DOMAIN calls = 1..Len(calls) /\ Len(calls) \in Nat
      /\ DOMAIN sent = 1..Len(sent) /\ Len(sent) \in Nat
  BY SequentialLen DEF TInv, HistoryTyped
<1>3. SetLast(name) = LastOf(SetUnder(key))
  BY DEF SetLast, SetUnder
<1>4. /\ SetUnder(key) = {} => SetLast(name) = 0
      /\ SetUnder(key) # {} => SetLast(name) \in SetUnder(key) /\ SetLast(name) # 0
  <2>1. SetUnder(key) \in SUBSET (1..Len(calls))
    BY <1>2 DEF SetUnder
  <2>2. SetUnder(key) = {} => LastOf(SetUnder(key)) = 0
    BY <1>2, <2>1, LastMember
  <2>3. SetUnder(key) # {} => LastOf(SetUnder(key)) \in SetUnder(key)
    BY <1>2, <2>1, LastMember
  <2> QED
    BY <1>2, <1>3, <2>1, <2>2, <2>3
<1>5. FirstLine(name) = {i \in LinesOf(key) : \A j \in 1..(i - 1) : sent[j].name.key # key}
  <2>1. \A j : Lower(j) = Lower(key) <=> j = key
    BY LowerOnce
  <2> QED
    BY <2>1 DEF FirstLine, LinesOf, to_lowercase_str
<1>6. /\ Lower(key) \in DOMAIN headers => found = headers[Lower(key)]
      /\ Lower(key) \notin DOMAIN headers => found = None
  BY DEF get_header, to_lowercase_str
<1>7. FirstLine(name) = {} => LinesOf(key) = {}
  <2> SUFFICES ASSUME LinesOf(key) # {} PROVE FirstLine(name) # {}
    OBVIOUS
  <2>1. LinesOf(key) \in SUBSET Nat
    BY <1>2 DEF LinesOf
  <2>2. PICK i \in LinesOf(key) : \A j \in LinesOf(key) : i <= j
    BY <2>1, LeastNat, Zenon
  <2>3. ASSUME NEW j \in 1..(i - 1) PROVE sent[j].name.key # key
    <3>1. i \in 1..Len(sent) /\ j \in 1..Len(sent) /\ ~(i <= j)
      BY <1>2, <2>2 DEF LinesOf
    <3>2. j \notin LinesOf(key)
      BY <2>2, <3>1
    <3> QED
      BY <1>2, <3>1, <3>2 DEF LinesOf
  <2> QED
    BY <1>5, <2>2, <2>3
<1> HIDE DEF found, key
<1>8. CASE SetLast(name) # 0
  BY <1>1, <1>3, <1>4, <1>6, <1>8 DEF KeyTold, found
<1>9. CASE SetLast(name) = 0 /\ (key = "cookie" \/ FirstLine(name) = {})
  <2>1. found = None
    BY <1>1, <1>4, <1>6, <1>7, <1>9 DEF KeyTold
  <2> QED
    BY <1>9, <2>1 DEF found, key
<1>10. CASE SetLast(name) = 0 /\ ~(key = "cookie" \/ FirstLine(name) = {})
  <2>1. ASSUME NEW i \in FirstLine(name), sent[i].form = "spaced" PROVE found = sent[i].value
    <3>1. i \in LinesOf(key) /\ \A j \in 1..(i - 1) : sent[j].name.key # key
      BY <1>5
    <3>2. found = ValueOfLine(sent[i])
      BY <1>1, <1>4, <1>6, <1>10, <3>1 DEF KeyTold
    <3> QED
      BY <2>1, <3>2 DEF ValueOfLine
  <2> QED
    BY <1>10, <2>1 DEF found, key
<1> QED
  BY <1>8, <1>9, <1>10

\* Calls that set no header of the request leave what the table has to tell.
LEMMA SetUnderStays ==
  ASSUME TInv, NEW x, Room, calls' = Append(calls, x), sent' = sent,
         NEW key, ~(x.on = "request" /\ x.name = Lower(key))
  PROVE  /\ SetUnder(key)' = SetUnder(key)
         /\ SetUnder(key) # {} =>
              calls'[LastOf(SetUnder(key))].value = calls[LastOf(SetUnder(key))].value
<1>1. /\ Len(calls) \in Nat
      /\ DOMAIN calls = 1..Len(calls) /\ DOMAIN calls' = 1..(Len(calls) + 1)
      /\ calls'[Len(calls) + 1] = x /\ \A i \in DOMAIN calls : calls'[i] = calls[i]
  BY CallAppended
<1>2. \A i : i \in DOMAIN calls' <=> i \in DOMAIN calls \/ i = Len(calls) + 1
  BY <1>1
<1>3. SetUnder(key)' = SetUnder(key)
  BY <1>1, <1>2 DEF SetUnder
<1>4. SetUnder(key) \in SUBSET (1..Len(calls))
  BY <1>1 DEF SetUnder
<1>5. SetUnder(key) # {} => LastOf(SetUnder(key)) \in SetUnder(key)
  BY <1>1, <1>4, LastMember
<1> QED
  BY <1>1, <1>3, <1>5 DEF SetUnder

\* Such a call keeps HInv if it leaves the table alone.
LEMMA OtherCallTold ==
  ASSUME TInv, HInv, NEW x, x.on # "request", Room, calls' = Append(calls, x), sent' = sent,
         headers' = headers, phase = "handling", phase' \in {"handling", "answered"}
  PROVE  HInv'
<1>1. ASSUME NEW key PROVE KeyTold(key)'
  <2>1. KeyTold(key)
    BY DEF HInv
  <2>2. /\ SetUnder(key)' = SetUnder(key)
        /\ SetUnder(key) # {} =>
             calls'[LastOf(SetUnder(key))].value = calls[LastOf(SetUnder(key))].value
    BY SetUnderStays
  <2>3. LinesOf(key)' = LinesOf(key)
    BY DEF LinesOf
  <2> QED
    BY <2>1, <2>2, <2>3 DEF KeyTold
<1> QED
  BY <1>1 DEF HInv

\* A line is the first of its key, or changes nothing of what the table has.
LEMMA LineTold ==
  ASSUME TInv, HInv, NEW line \in Lines, ReadLine(line)
  PROVE  HInv'
<1>1. /\ phase = "reading" /\ Room /\ sent' = Append(sent, line) /\ calls' = calls
      /\ headers' = WithLine(headers, line) /\ phase' = phase /\ calls = <<>>
  BY DEF ReadLine, HInv
<1>2. /\ Len(sent) \in Nat
      /\ DOMAIN sent = 1..Len(sent) /\ DOMAIN sent' = 1..(Len(sent) + 1)
      /\ sent'[Len(sent) + 1] = line /\ \A i \in DOMAIN sent : sent'[i] = sent[i]
  BY <1>1, LineAppended
<1> DEFINE n == Len(sent) + 1
<1>3. \A i : i \in DOMAIN sent' <=> i \in DOMAIN sent \/ i = n
  BY <1>2
<1>4. /\ n \notin DOMAIN sent /\ n \in DOMAIN sent' /\ sent'[n] = line /\ n \in Nat
      /\ \A i \in DOMAIN sent : i \in Nat /\ i < n
      /\ \A i \in DOMAIN sent : \A j \in 1..(i - 1) : j \in DOMAIN sent
      /\ \A j \in 1..(n - 1) : j \in DOMAIN sent
  BY <1>2
<1> HIDE DEF n
<1>5. ASSUME NEW key PROVE KeyTold(key)'
  <2>1. KeyTold(key)
    BY <1>1 DEF HInv
  <2>2. SetUnder(key) = {} /\ SetUnder(key)' = {}
    <3>1. DOMAIN <<>> = {}
      OBVIOUS
    <3> QED
      BY <1>1, <3>1 DEF SetUnder
  <2>3. CASE key # line.name.key
    <3>1. LinesOf(key)' = LinesOf(key)
      BY <1>2, <1>3, <1>4, <2>3 DEF LinesOf
    <3>2. Lower(key) # to_lowercase_str(line.name)
      BY <2>3, LowerOnce DEF to_lowercase_str
    <3>3. /\ Lower(key) \in DOMAIN headers' <=> Lower(key) \in DOMAIN headers
          /\ Lower(key) \in DOMAIN headers => headers'[Lower(key)] = headers[Lower(key)]
      BY <1>1, <3>2 DEF WithLine, Emplaced, Assigned
    <3>4. \A i \in LinesOf(key) :
            /\ ValueOfLine(sent'[i]) = ValueOfLine(sent[i])
            /\ (\A j \in 1..(i - 1) : sent'[j].name.key # key)
                 => \A j \in 1..(i - 1) : sent[j].name.key # key
      BY <1>2, <1>4 DEF LinesOf
    <3> QED
      BY <2>1, <2>2, <3>1, <3>3, <3>4 DEF KeyTold
  <2>4. CASE key = line.name.key /\ key = "cookie"
    <3>1. headers' = headers
      BY <1>1, <2>4 DEF WithLine, to_lowercase_str
    <3>2. Lower(key) \notin DOMAIN headers
      BY <2>1, <2>2, <2>4 DEF KeyTold
    <3> QED
      BY <2>2, <2>4, <3>1, <3>2 DEF KeyTold
  <2>5. CASE key = line.name.key /\ key # "cookie"
    <3>1. headers' = Emplaced(headers, Lower(key), ValueOfLine(line))
      BY <1>1, <2>5, LowerOnce DEF WithLine, to_lowercase_str
    <3>2. n \in LinesOf(key)' /\ \A i \in LinesOf(key)' : i = n \/ i \in LinesOf(key)
      BY <1>2, <1>3, <1>4, <2>5 DEF LinesOf
    <3>3. CASE LinesOf(key) = {}
      <4>1. headers'[Lower(key)] = ValueOfLine(line) /\ Lower(key) \in DOMAIN headers'
        BY <2>1, <2>2, <3>1, <3>3 DEF KeyTold, Emplaced, Assigned
      <4> QED
        BY <1>4, <2>2, <2>5, <3>2, <3>3, <4>1 DEF KeyTold
    <3>4. CASE LinesOf(key) # {}
      <4>1. Lower(key) \in DOMAIN headers
        BY <2>1, <2>2, <2>5, <3>4 DEF KeyTold
      <4>2. headers' = headers
        BY <3>1, <4>1 DEF Emplaced
      <4>3. PICK m \in LinesOf(key) : TRUE
        BY <3>4
      <4>4. ~\A j \in 1..(n - 1) : sent'[j].name.key # key
        BY <1>2, <1>4, <4>3 DEF LinesOf
      <4>5. \A i \in LinesOf(key) :
              /\ ValueOfLine(sent'[i]) = ValueOfLine(sent[i])
              /\ (\A j \in 1..(i - 1) : sent'[j].name.key # key)
                   => \A j \in 1..(i - 1) : sent[j].name.key # key
        BY <1>2, <1>4 DEF LinesOf
      <4> QED
        BY <2>1, <2>2, <2>5, <3>2, <4>1, <4>2, <4>4, <4>5 DEF KeyTold
    <3> QED
      BY <3>3, <3>4
  <2> QED
    BY <2>3, <2>4, <2>5
<1> QED
  BY <1>1, <1>5 DEF HInv

\* A header the handler sets is the last under its name.
LEMMA RequestSetTold ==
  ASSUME TInv, HInv, RequestSet
  PROVE  HInv'
<1>1. PICK name \in {Title("x-user"), Lower("x-user")} : SetRequestHeader(name, "ann")
  BY DEF RequestSet
<1> DEFINE x == [on |-> "request", call |-> "set_header", name |-> name,
                 value |-> "ann", threw |-> FALSE]
<1>2. /\ Room /\ calls' = Append(calls, x) /\ sent' = sent
      /\ headers' = WithHeader(headers, name, "ann")
      /\ phase = "handling" /\ phase' = "handling"
  BY <1>1 DEF SetRequestHeader, Made
<1>3. x.on = "request" /\ x.name = name /\ x.value = "ann"
  OBVIOUS
<1> HIDE DEF x
<1>4. /\ Len(calls) \in Nat
      /\ DOMAIN calls = 1..Len(calls) /\ DOMAIN calls' = 1..(Len(calls) + 1)
      /\ calls'[Len(calls) + 1] = x /\ \A i \in DOMAIN calls : calls'[i] = calls[i]
  BY <1>2, CallAppended
<1>5. ASSUME NEW key PROVE KeyTold(key)'
  <2>1. KeyTold(key)
    BY <1>2 DEF HInv
  <2>2. LinesOf(key)' = LinesOf(key)
    BY <1>2 DEF LinesOf
  <2>3. CASE Lower(key) # name
    <3>1. /\ Lower(key) \in DOMAIN headers' <=> Lower(key) \in DOMAIN headers
          /\ Lower(key) \in DOMAIN headers => headers'[Lower(key)] = headers[Lower(key)]
      BY <1>2, <2>3 DEF WithHeader, Assigned
    <3>2. ~(x.on = "request" /\ x.name = Lower(key))
      BY <1>3, <2>3
    <3>3. /\ SetUnder(key)' = SetUnder(key)
          /\ SetUnder(key) # {} =>
               calls'[LastOf(SetUnder(key))].value = calls[LastOf(SetUnder(key))].value
      BY <1>2, <3>2, SetUnderStays
    <3> QED
      BY <1>2, <2>1, <2>2, <3>1, <3>3 DEF KeyTold
  <2>4. CASE Lower(key) = name
    <3>1. Lower(key) \in DOMAIN headers' /\ headers'[Lower(key)] = "ann"
      BY <1>2, <2>4 DEF WithHeader, Assigned
    <3>2. Len(calls) + 1 \in SetUnder(key)'
      BY <1>3, <1>4, <2>4 DEF SetUnder
    <3>3. SetUnder(key)' \in SUBSET (1..(Len(calls) + 1))
      BY <1>4 DEF SetUnder
    <3>4. LastOf(SetUnder(key)') = Len(calls) + 1
      BY <1>4, <3>2, <3>3, LastIs
    <3>5. LastOf(SetUnder(key))' = LastOf(SetUnder(key)')
      BY DEF LastOf
    <3>6. calls'[LastOf(SetUnder(key)')].value = "ann"
      BY <1>3, <1>4, <3>4
    <3> QED
      BY <3>1, <3>2, <3>5, <3>6 DEF KeyTold
  <2> QED
    BY <2>3, <2>4
<1> QED
  BY <1>2, <1>5 DEF HInv

\* Every step keeps HInv.
LEMMA NextHInv == TInv /\ HInv /\ [Next]_vars => HInv'
<1> SUFFICES ASSUME TInv, HInv, [Next]_vars PROVE HInv'
  OBVIOUS
<1>0. ASSUME headers' = headers, sent' = sent, calls' = calls, phase # "answered", NEW key
      PROVE  KeyTold(key)'
  <2>1. SetUnder(key)' = SetUnder(key) /\ LinesOf(key)' = LinesOf(key)
    BY <1>0 DEF SetUnder, LinesOf
  <2>2. KeyTold(key)
    BY <1>0 DEF HInv
  <2> QED
    BY <1>0, <2>1, <2>2 DEF KeyTold
<1>1. ASSUME headers' = headers, sent' = sent, calls' = calls, phase' # "reading", phase # "answered"
      PROVE  HInv'
  BY <1>0, <1>1 DEF HInv
<1>2. ASSUME Ended PROVE HInv'
  BY <1>2 DEF Ended, HInv
<1>3. ASSUME HeadersEnd PROVE HInv'
  BY <1>1, <1>3 DEF HeadersEnd
<1>4. ASSUME UNCHANGED vars PROVE HInv'
  BY <1>0, <1>4 DEF vars, HInv
<1>5. ASSUME NEW on, on # "request", NEW call, NEW name, NEW value, NEW threw, Room,
             calls' = Append(calls, [on |-> on, call |-> call, name |-> name,
                                     value |-> value, threw |-> threw]),
             UNCHANGED <<sent, headers>>,
             phase = "handling", phase' \in {"handling", "answered"}
      PROVE  HInv'
  <2> DEFINE x == [on |-> on, call |-> call, name |-> name, value |-> value, threw |-> threw]
  <2>1. x.on # "request" /\ Room /\ calls' = Append(calls, x) /\ sent' = sent /\ headers' = headers
    BY <1>5
  <2> HIDE DEF x
  <2> QED
    BY <1>5, <2>1, OtherCallTold
<1>6. ASSUME NEW on, on # "request", NEW call, NEW name, NEW value,
             Made(on, call, name, value), headers' = headers
      PROVE  HInv'
  BY <1>5, <1>6 DEF Made
<1>7. ASSUME NEW on, on # "request", NEW call, NEW name, NEW value, Threw(on, call, name, value)
      PROVE  HInv'
  BY <1>5, <1>7 DEF Threw, AnswerError
<1>8. ASSUME Queried PROVE HInv'
  <2>1. PICK p \in Parameters, type \in {"int", "int64_t"} : ReadQuery(p, type)
    BY <1>8 DEF Queried
  <2>2. \E value : \/ Made("query", type, p.name, value) /\ headers' = headers
                   \/ Threw("query", type, p.name, value)
    BY <2>1 DEF ReadQuery
  <2> QED
    BY <1>6, <1>7, <2>2
<1>9. ASSUME Set PROVE HInv'
  BY <1>6, <1>9 DEF Set, Changed, Objects
<1>10. ASSUME CookieSet PROVE HInv'
  BY <1>6, <1>10 DEF CookieSet, SetCookieValue, SetAttribute
<1>11. ASSUME Build PROVE HInv'
  BY <1>6, <1>11 DEF Build
<1>12. ASSUME Thrown PROVE HInv'
  BY <1>7, <1>12 DEF Thrown
<1> QED
  BY <1>2, <1>3, <1>4, <1>8, <1>9, <1>10, <1>11, <1>12, LineTold, RequestSetTold, StepKinds

\* Nothing was sent, nothing is in the table.
LEMMA InitHInv == Init => HInv
<1>1. DOMAIN <<>> = {} /\ DOMAIN NoFields = {}
  BY DEF NoFields
<1> QED
  BY <1>1 DEF Init, HInv, KeyTold, LinesOf, SetUnder

\* HeaderRead: after any lines, and after any headers the handler set itself, a
\* header is found by whatever spelling of its name.
THEOREM HeadersFound == Spec => []HeaderRead
BY InitHInv, NextHInv, AlwaysTyped, HInvRead, PTL DEF Spec

-----------------------------------------------------------------------------
(***************************************************************************)
(* The length of the answer.                                               *)
(***************************************************************************)

\* The new call has effect if it is one on the response that did not throw;
\* unless it is build, the others have the effect they had.
LEMMA EffectiveStays ==
  ASSUME TInv, NEW x, Room, calls' = Append(calls, x), sent' = sent, x.call # "build"
  PROVE  /\ Builds' = Builds /\ Builds \subseteq DOMAIN calls
         /\ \A i : i \in Effective' <=> \/ i \in Effective
                                       \/ (i = Len(calls) + 1 /\ ~x.threw /\ x.on = "response")
         /\ Effective \subseteq DOMAIN calls
<1>1. /\ Len(calls) \in Nat
      /\ DOMAIN calls = 1..Len(calls) /\ DOMAIN calls' = 1..(Len(calls) + 1)
      /\ calls'[Len(calls) + 1] = x /\ \A i \in DOMAIN calls : calls'[i] = calls[i]
  BY CallAppended
<1> DEFINE n == Len(calls) + 1
<1>2. /\ n \in DOMAIN calls' /\ n \notin DOMAIN calls /\ calls'[n] = x
      /\ \A i : i \in DOMAIN calls' <=> i \in DOMAIN calls \/ i = n
      /\ \A b \in DOMAIN calls : b < n /\ ~(n < b)
  BY <1>1
<1> HIDE DEF n
<1>3. Builds \subseteq DOMAIN calls /\ Effective \subseteq DOMAIN calls
  BY DEF Builds, Effective
<1>4. Builds' = Builds
  BY <1>1, <1>2 DEF Builds
<1>5. ASSUME NEW i \in DOMAIN calls PROVE i \in Effective' <=> i \in Effective
  BY <1>1, <1>2, <1>4 DEF Effective
<1>6. n \in Effective' <=> ~x.threw /\ x.on = "response"
  BY <1>2, <1>3, <1>4 DEF Effective
<1>7. Effective' \subseteq DOMAIN calls'
  BY DEF Effective
<1> QED
  <2>1. \A i : i \in Effective' <=> \/ i \in Effective
                                    \/ (i = n /\ ~x.threw /\ x.on = "response")
    BY <1>2, <1>3, <1>5, <1>6, <1>7
  <2> QED
    BY <1>3, <1>4, <2>1 DEF n

HasLength(n) == n.key = "content-length"

\* An answer tells its length once, and truly.
FramedAs(a) ==
  /\ {n \in DOMAIN a.headers : HasLength(n)} = {ContentLength}
  /\ a.headers[ContentLength] = Plain(Size[a.body])

LengthSet == \E i \in Effective : HasLength(calls[i].name) /\ calls[i].call = "set_header"

\* The builder has no length, the response has only what its handler set.
FInv ==
  /\ \A n \in DOMAIN object["builder"].headers : ~HasLength(n)
  /\ \A n \in DOMAIN object["response"].headers :
       HasLength(n) => \E i \in Effective : calls[i].name = n /\ calls[i].call = "set_header"
  /\ phase = "answered" /\ ~LengthSet => FramedAs(answer)

LEMMA FInvFramed == FInv => Framed
BY DEF FInv, Framed, FramedAs, HasLength, LengthSet

\* What to_string adds to a response without a length.
LEMMA LengthAdded ==
  ASSUME NEW r, DOMAIN r = ResponseFields, \A n \in DOMAIN r.headers : ~HasLength(n)
  PROVE  FramedAs(to_string(r))
<1> DEFINE a == to_string(r)
<1>1. /\ a.body = r.body
      /\ a.headers = Emplaced(r.headers, ContentLength, Plain(Size[r.body]))
  BY DEF to_string, ResponseFields
<1>2. HasLength(ContentLength)
  BY DEF HasLength, ContentLength, Title
<1>3. /\ DOMAIN a.headers = DOMAIN r.headers \cup {ContentLength}
      /\ a.headers[ContentLength] = Plain(Size[r.body])
  BY <1>1, <1>2 DEF Emplaced, Assigned
<1> HIDE DEF a
<1> QED
  BY <1>1, <1>2, <1>3 DEF FramedAs, a

\* The router's own answers have one.
LEMMA ErrorsFramed == ASSUME NEW code PROVE FramedAs(to_string(ErrorResponse(code)))
<1> DEFINE r == ErrorResponse(code)
<1>1. DOMAIN r = ResponseFields /\ DOMAIN r.headers = {ContentType}
  BY DEF ErrorResponse, WithField, WithBody, WithStatus, NewResponse, NoFields, Assigned, ResponseFields
<1>2. ~HasLength(ContentType)
  BY DEF HasLength, ContentType, Title
<1> HIDE DEF r
<1>3. FramedAs(to_string(r))
  BY <1>1, <1>2, LengthAdded
<1> QED
  BY <1>3 DEF r

\* A call that leaves the objects alone, or ends the exchange with an error.
LEMMA CallFramed ==
  ASSUME TInv, FInv, NEW x, Room, calls' = Append(calls, x), sent' = sent, x.call # "build",
         object' = object, phase' = "answered" => answer' = to_string(ErrorResponse(500))
  PROVE  FInv'
<1>1. /\ Effective \subseteq Effective'
      /\ \A i \in Effective : calls'[i] = calls[i]
  <2>1. /\ Effective \subseteq DOMAIN calls
        /\ \A i : i \in Effective => i \in Effective'
    BY EffectiveStays
  <2>2. \A i \in DOMAIN calls : calls'[i] = calls[i]
    BY CallAppended
  <2> QED
    BY <2>1, <2>2
<1>2. phase' = "answered" => FramedAs(answer')
  BY ErrorsFramed
<1>3. \A n \in DOMAIN object["builder"].headers' : ~HasLength(n)
  BY DEF FInv
<1>4. ASSUME NEW n \in DOMAIN object["response"].headers, HasLength(n)
      PROVE  \E i \in Effective' : calls'[i].name = n /\ calls'[i].call = "set_header"
  <2>1. PICK i \in Effective : calls[i].name = n /\ calls[i].call = "set_header"
    BY <1>4 DEF FInv
  <2> QED
    BY <1>1, <2>1
<1> QED
  BY <1>2, <1>3, <1>4 DEF FInv

\* What a setter does to the names a response has.
LEMMA SetterNames ==
  ASSUME TInv, NEW o \in Objects, NEW call, NEW name, NEW value, NEW new,
         Setter(o, call, name, value, new)
  PROVE  \A n \in DOMAIN new.headers :
           \/ n \in DOMAIN object[o].headers
           \/ ~HasLength(n)
           \/ n = name /\ call = "set_header" /\ o = "response"
<1> DEFINE r == object[o]
<1>1. DOMAIN r = ResponseFields
  BY DEF TInv, ObjectTyped, TypedResponse
<1>2. ~HasLength(ContentType) /\ ~HasLength(SetCookieName)
  BY DEF HasLength, ContentType, SetCookieName, Title
<1>3. ASSUME NEW v PROVE DOMAIN WithField(r, name, v).headers = DOMAIN r.headers \cup {name}
  BY <1>1 DEF WithField, Assigned, ResponseFields
<1>4. ASSUME NEW v
      PROVE  /\ WithBody(r, v).headers = r.headers /\ WithStatus(r, v).headers = r.headers
             /\ WithMessage(r, v).headers = r.headers /\ WithVersion(r, v).headers = r.headers
             /\ DOMAIN WithoutField(r, name).headers \subseteq DOMAIN r.headers
  BY <1>1 DEF WithBody, WithStatus, WithMessage, WithVersion, WithoutField, ResponseFields
<1>5. \/ new = WithBody(r, value) \/ new = WithStatus(r, value)
      \/ new = WithMessage(r, value) \/ new = WithVersion(r, value)
      \/ name = ContentType /\ new = WithField(r, name, value)
      \/ call = "set_header" /\ o = "response" /\ new = WithField(r, name, value)
      \/ new = WithoutField(r, name)
      \/ name = SetCookieName /\ new = WithField(r, name, Baked(cookie))
  BY DEF Setter
<1> HIDE DEF r
<1>6. \/ DOMAIN new.headers \subseteq DOMAIN r.headers
      \/ DOMAIN new.headers = DOMAIN r.headers \cup {name} /\ ~HasLength(name)
      \/ DOMAIN new.headers = DOMAIN r.headers \cup {name} /\ call = "set_header" /\ o = "response"
  BY <1>2, <1>3, <1>4, <1>5
<1> QED
  BY <1>6 DEF r

\* A setter leaves a length only where it is one of the handler's.
LEMMA SetFramed ==
  ASSUME TInv, FInv, Set
  PROVE  FInv'
<1>1. PICK o \in Objects : \E call, name, value, new :
        Changed(o, call, name, value, new) /\ Setter(o, call, name, value, new)
  BY DEF Set
<1>2. PICK call, name, value, new :
        Changed(o, call, name, value, new) /\ Setter(o, call, name, value, new)
  BY <1>1
<1> DEFINE x == [on |-> o, call |-> call, name |-> name, value |-> value, threw |-> FALSE]
<1>3. /\ Room /\ calls' = Append(calls, x) /\ sent' = sent
      /\ object' = [object EXCEPT ![o] = new] /\ phase' = "handling"
  BY <1>2 DEF Changed, Made
<1>4. x.call = call /\ x.name = name /\ x.on = o /\ ~x.threw
  OBVIOUS
<1> HIDE DEF x
<1>5. call # "build"
  BY <1>2 DEF Setter
<1>6. /\ Effective \subseteq DOMAIN calls
      /\ \A i : i \in Effective => i \in Effective'
      /\ o = "response" => Len(calls) + 1 \in Effective'
  BY <1>3, <1>4, <1>5, EffectiveStays
<1>7. calls'[Len(calls) + 1] = x /\ \A i \in DOMAIN calls : calls'[i] = calls[i]
  BY <1>3, CallAppended
<1>8. /\ DOMAIN object = Objects /\ object'[o] = new
      /\ \A p \in Objects : p # o => object'[p] = object[p]
      /\ "builder" \in Objects /\ "response" \in Objects
  BY <1>3 DEF TInv, ObjectTyped, Objects
<1>9. \A n \in DOMAIN new.headers :
        \/ n \in DOMAIN object[o].headers
        \/ ~HasLength(n)
        \/ n = name /\ call = "set_header" /\ o = "response"
  BY <1>2, SetterNames
<1>10. \A n \in DOMAIN object'["builder"].headers : ~HasLength(n)
  BY <1>8, <1>9 DEF FInv
<1>11. ASSUME NEW n \in DOMAIN object'["response"].headers, HasLength(n)
       PROVE  \E i \in Effective' : calls'[i].name = n /\ calls'[i].call = "set_header"
  <2>1. CASE n \in DOMAIN object["response"].headers
    <3>1. PICK i \in Effective : calls[i].name = n /\ calls[i].call = "set_header"
      BY <1>11, <2>1 DEF FInv
    <3> QED
      BY <1>6, <1>7, <3>1
  <2>2. CASE n \notin DOMAIN object["response"].headers
    <3>1. o = "response" /\ n = name /\ call = "set_header"
      BY <1>8, <1>9, <1>11, <2>2
    <3> QED
      BY <1>4, <1>6, <1>7, <3>1
  <2> QED
    BY <2>1, <2>2
<1> QED
  BY <1>3, <1>10, <1>11 DEF FInv

\* Every step keeps FInv.
LEMMA NextFInv == TInv /\ FInv /\ [Next]_vars => FInv'
<1> SUFFICES ASSUME TInv, FInv, [Next]_vars PROVE FInv'
  OBVIOUS
<1>1. ASSUME object' = object, calls' = calls, phase' = "answered" => answer' = answer /\ phase = "answered"
      PROVE  FInv'
  <2>1. Effective' = Effective
    BY <1>1 DEF Effective, Builds
  <2> QED
    BY <1>1, <2>1 DEF FInv, LengthSet
<1>2. (\E line \in Lines : ReadLine(line)) \/ HeadersEnd \/ UNCHANGED vars => FInv'
  BY <1>1 DEF ReadLine, HeadersEnd, vars
<1>3. ASSUME Ended PROVE FInv'
  <2>1. calls' = calls /\ object' = object
    BY <1>3 DEF Ended
  <2>2. Effective' = Effective
    BY <2>1 DEF Effective, Builds
  <2>3. ASSUME ~LengthSet PROVE FramedAs(answer')
    <3>1. CASE \E code \in {403, 404, 500} : answer' = to_string(ErrorResponse(code))
      BY <3>1, ErrorsFramed
    <3>2. CASE answer' = to_string(object["response"])
      <4>1. DOMAIN object["response"] = ResponseFields
        BY DEF TInv, ObjectTyped, TypedResponse, Objects
      <4>2. \A n \in DOMAIN object["response"].headers : ~HasLength(n)
        BY <2>3 DEF FInv, LengthSet
      <4> QED
        BY <3>2, <4>1, <4>2, LengthAdded
    <3> QED
      BY <1>3, <3>1, <3>2 DEF Ended
  <2> QED
    BY <2>1, <2>2, <2>3 DEF FInv, LengthSet
<1>4. ASSUME NEW on, NEW call, call # "build", NEW name, NEW value, NEW threw, Room,
             calls' = Append(calls, [on |-> on, call |-> call, name |-> name,
                                     value |-> value, threw |-> threw]),
             UNCHANGED <<sent, object>>,
             phase' = "answered" => answer' = to_string(ErrorResponse(500))
      PROVE  FInv'
  <2> DEFINE x == [on |-> on, call |-> call, name |-> name, value |-> value, threw |-> threw]
  <2>1. x.call # "build" /\ Room /\ calls' = Append(calls, x) /\ sent' = sent /\ object' = object
    BY <1>4
  <2> HIDE DEF x
  <2> QED
    BY <1>4, <2>1, CallFramed
<1>5. ASSUME NEW on, NEW call, call # "build", NEW name, NEW value,
             Made(on, call, name, value), object' = object
      PROVE  FInv'
  BY <1>4, <1>5 DEF Made
<1>6. ASSUME NEW on, NEW call, call # "build", NEW name, NEW value, Threw(on, call, name, value)
      PROVE  FInv'
  BY <1>4, <1>6 DEF Threw, AnswerError
<1>7. ASSUME RequestSet PROVE FInv'
  BY <1>5, <1>7 DEF RequestSet, SetRequestHeader
<1>8. ASSUME Queried PROVE FInv'
  <2>1. PICK p \in Parameters, type \in {"int", "int64_t"} : ReadQuery(p, type)
    BY <1>8 DEF Queried
  <2>2. \E value : \/ Made("query", type, p.name, value) /\ object' = object
                   \/ Threw("query", type, p.name, value)
    BY <2>1 DEF ReadQuery
  <2>3. type # "build"
    OBVIOUS
  <2> QED
    BY <1>5, <1>6, <2>2, <2>3
<1>9. ASSUME CookieSet PROVE FInv'
  BY <1>5, <1>9 DEF CookieSet, SetCookieValue, SetAttribute
<1>10. ASSUME Thrown PROVE FInv'
  BY <1>6, <1>10 DEF Thrown
<1>11. ASSUME Build PROVE FInv'
  <2>1. /\ object' = [builder |-> MovedFrom(object.builder), response |-> object.builder]
        /\ phase' = "handling"
    BY <1>11 DEF Build, Made
  <2>2. object'["response"] = object["builder"] /\ object'["builder"] = MovedFrom(object["builder"])
    BY <2>1
  <2>3. DOMAIN object["builder"] = ResponseFields
    BY DEF TInv, ObjectTyped, TypedResponse, Objects
  <2>4. DOMAIN MovedFrom(object["builder"]).headers = {}
    BY <2>3 DEF MovedFrom, NoFields, ResponseFields
  <2> QED
    BY <2>1, <2>2, <2>4 DEF FInv
<1> QED
  BY <1>2, <1>3, <1>7, <1>8, <1>9, <1>10, <1>11, SetFramed, StepKinds

\* A new response has no length.
LEMMA InitFInv == Init => FInv
<1>1. DOMAIN NewResponse.headers = {ContentType}
  BY DEF NewResponse, NoFields, Assigned
<1>2. ~HasLength(ContentType)
  BY DEF HasLength, ContentType, Title
<1> QED
  BY <1>1, <1>2 DEF Init, FInv, Objects

\* Framed: however builder, response and cookie were called, an answer tells the
\* length of its body in one Content-Length.
THEOREM AnswersFramed == Spec => []Framed
BY InitFInv, NextFInv, AlwaysTyped, FInvFramed, PTL DEF Spec

-----------------------------------------------------------------------------
(***************************************************************************)
(* A response and the calls that made it.  The lemmas are about a history  *)
(* h, the history t that a call x makes of it, and a set E of its calls.   *)
(***************************************************************************)

NextHistory(h, x, t) ==
  /\ Len(h) \in Nat /\ DOMAIN h = 1..Len(h)
  /\ t[Len(h) + 1] = x /\ \A i \in 1..Len(h) : t[i] = h[i]

\* Calls among those that are there already are the last ones they were.
LEMMA LastStays ==
  ASSUME NEW h, NEW x, NEW t, NextHistory(h, x, t), NEW E \in SUBSET (1..Len(h))
  PROVE  /\ \A names : /\ LastCall(t, E, names) = LastCall(h, E, names)
                       /\ LastCall(h, E, names) \in E \cup {0}
         /\ \A name : /\ FieldCall(t, E, name) = FieldCall(h, E, name)
                      /\ FieldCall(h, E, name) \in E \cup {0}
<1>1. Len(h) \in Nat /\ \A i \in E : t[i] = h[i]
  BY DEF NextHistory
<1>2. ASSUME NEW names
      PROVE  /\ LastCall(t, E, names) = LastCall(h, E, names)
             /\ LastCall(h, E, names) \in E \cup {0}
  <2> DEFINE S == {i \in E : h[i].call \in names}
  <2>1. S = {i \in E : t[i].call \in names}
    BY <1>1
  <2>2. S \in SUBSET (1..Len(h)) /\ S \subseteq E
    OBVIOUS
  <2>3. LastCall(h, E, names) = LastOf(S) /\ LastCall(t, E, names) = LastOf(S)
    BY <2>1 DEF LastCall
  <2> HIDE DEF S
  <2>4. LastOf(S) \in S \cup {0}
    BY <1>1, <2>2, LastMember
  <2> QED
    BY <2>2, <2>3, <2>4
<1>3. ASSUME NEW name
      PROVE  /\ FieldCall(t, E, name) = FieldCall(h, E, name)
             /\ FieldCall(h, E, name) \in E \cup {0}
  <2> DEFINE S == {i \in E : h[i].name = name
                               /\ h[i].call \in {"set_header", "remove_header", "set_cookie"}}
  <2>1. S = {i \in E : t[i].name = name
                         /\ t[i].call \in {"set_header", "remove_header", "set_cookie"}}
    BY <1>1
  <2>2. S \in SUBSET (1..Len(h)) /\ S \subseteq E
    OBVIOUS
  <2>3. FieldCall(h, E, name) = LastOf(S) /\ FieldCall(t, E, name) = LastOf(S)
    BY <2>1 DEF FieldCall
  <2> HIDE DEF S
  <2>4. LastOf(S) \in S \cup {0}
    BY <1>1, <2>2, LastMember
  <2> QED
    BY <2>2, <2>3, <2>4
<1> QED
  BY <1>2, <1>3

\* The new call is the last one if it is one of those that are asked for.
LEMMA LastNext ==
  ASSUME NEW h, NEW x, NEW t, NextHistory(h, x, t), NEW E \in SUBSET (1..Len(h)),
         NEW n, n = Len(h) + 1, NEW F, F = E \cup {n}
  PROVE  /\ \A names : LastCall(t, F, names)
                         = IF x.call \in names THEN n ELSE LastCall(h, E, names)
         /\ \A name : FieldCall(t, F, name)
                        = IF /\ x.name = name
                             /\ x.call \in {"set_header", "remove_header", "set_cookie"}
                          THEN n ELSE FieldCall(h, E, name)
<1>1. /\ n \in Nat \ {0} /\ n \notin E /\ t[n] = x /\ \A i \in E : t[i] = h[i]
      /\ F \in SUBSET (1..n)
  <2>1. /\ n \in Nat \ {0} /\ t[n] = x /\ \A i \in 1..Len(h) : i \in 1..n /\ i # n
        /\ n \in 1..n /\ \A i \in 1..Len(h) : t[i] = h[i]
    BY DEF NextHistory
  <2> QED
    BY <2>1
<1>2. ASSUME NEW names
      PROVE  LastCall(t, F, names) = IF x.call \in names THEN n ELSE LastCall(h, E, names)
  <2> DEFINE S == {i \in F : t[i].call \in names}
  <2>1. LastCall(t, F, names) = LastOf(S)
    BY DEF LastCall
  <2>2. CASE x.call \in names
    <3>1. S \in SUBSET (1..n) /\ n \in S
      BY <1>1, <2>2
    <3> HIDE DEF S
    <3>2. LastOf(S) = n
      BY <1>1, <3>1, LastIs
    <3> QED
      BY <2>1, <2>2, <3>2
  <2>3. CASE x.call \notin names
    <3>1. S = {i \in E : h[i].call \in names}
      BY <1>1, <2>3
    <3> QED
      BY <2>1, <2>3, <3>1 DEF LastCall
  <2> QED
    BY <2>2, <2>3
<1>3. ASSUME NEW name
      PROVE  FieldCall(t, F, name)
               = IF x.name = name /\ x.call \in {"set_header", "remove_header", "set_cookie"}
                 THEN n ELSE FieldCall(h, E, name)
  <2> DEFINE S == {i \in F : t[i].name = name
                               /\ t[i].call \in {"set_header", "remove_header", "set_cookie"}}
  <2>1. FieldCall(t, F, name) = LastOf(S)
    BY DEF FieldCall
  <2>2. CASE x.name = name /\ x.call \in {"set_header", "remove_header", "set_cookie"}
    <3>1. S \in SUBSET (1..n) /\ n \in S
      BY <1>1, <2>2
    <3> HIDE DEF S
    <3>2. LastOf(S) = n
      BY <1>1, <3>1, LastIs
    <3> QED
      BY <2>1, <2>2, <3>2
  <2>3. CASE ~(x.name = name /\ x.call \in {"set_header", "remove_header", "set_cookie"})
    <3>1. S = {i \in E : h[i].name = name
                           /\ h[i].call \in {"set_header", "remove_header", "set_cookie"}}
      BY <1>1, <2>3
    <3> QED
      BY <2>1, <2>3, <3>1 DEF FieldCall
  <2> QED
    BY <2>2, <2>3
<1> QED
  BY <1>2, <1>3

\* A cookie that was set is what its setters had made of it, whatever follows.
LEMMA CookieStays ==
  ASSUME NEW h, NEW x, NEW t, NextHistory(h, x, t), NEW i \in 1..(Len(h) + 1)
  PROVE  /\ \A a : /\ AttributeCall(t, a, i) = AttributeCall(h, a, i)
                   /\ AttributeCall(h, a, i) \in (1..(i - 1)) \cup {0}
         /\ CookieAsked(t, i) = CookieAsked(h, i)
<1>1. Len(h) \in Nat /\ i \in Nat \ {0} /\ \A j \in 1..(i - 1) : t[j] = h[j]
  BY DEF NextHistory
<1>2. ASSUME NEW a
      PROVE  /\ AttributeCall(t, a, i) = AttributeCall(h, a, i)
             /\ AttributeCall(h, a, i) \in (1..(i - 1)) \cup {0}
  <2> DEFINE S == {j \in 1..(i - 1) : h[j].on = "cookie" /\ h[j].call = a}
  <2>1. S = {j \in 1..(i - 1) : t[j].on = "cookie" /\ t[j].call = a}
    BY <1>1
  <2>2. S \in SUBSET (1..(i - 1)) /\ i - 1 \in Nat
    BY <1>1
  <2>3. AttributeCall(h, a, i) = LastOf(S) /\ AttributeCall(t, a, i) = LastOf(S)
    BY <2>1 DEF AttributeCall
  <2> HIDE DEF S
  <2>4. LastOf(S) \in S \cup {0}
    BY <2>2, LastMember
  <2> QED
    BY <2>2, <2>3, <2>4
<1>3. ASSUME NEW a, AttributeCall(h, a, i) # 0
      PROVE  t[AttributeCall(t, a, i)] = h[AttributeCall(h, a, i)]
  BY <1>1, <1>2, <1>3
<1>4. CookieAsked(t, i) = CookieAsked(h, i)
  BY <1>2, <1>3 DEF CookieAsked
<1> QED
  BY <1>2, <1>4

\* A response that is as asked stays so while other calls are made.
LEMMA AskedStays ==
  ASSUME NEW h, NEW x, NEW t, NextHistory(h, x, t), NEW E \in SUBSET (1..Len(h)),
         NEW r, AsAsked(r, h, E)
  PROVE  AsAsked(r, t, E)
<1>1. /\ \A names : /\ LastCall(t, E, names) = LastCall(h, E, names)
                    /\ LastCall(h, E, names) \in E \cup {0}
      /\ \A name : /\ FieldCall(t, E, name) = FieldCall(h, E, name)
                   /\ FieldCall(h, E, name) \in E \cup {0}
  BY LastStays
<1>2. \A i \in E : t[i] = h[i] /\ i \in 1..(Len(h) + 1)
  BY DEF NextHistory
<1>3. /\ BodyAsked(t, E) = BodyAsked(h, E) /\ CodeAsked(t, E) = CodeAsked(h, E)
      /\ VersionAsked(t, E) = VersionAsked(h, E) /\ MessageAsked(t, E) = MessageAsked(h, E)
  <2>1. \A names : LET i == LastCall(h, E, names) IN i # 0 => t[i] = h[i]
    BY <1>1, <1>2
  <2>2. BodyAsked(t, E) = BodyAsked(h, E)
    BY <1>1, <2>1 DEF BodyAsked
  <2>3. CodeAsked(t, E) = CodeAsked(h, E)
    BY <1>1, <2>1 DEF CodeAsked
  <2>4. VersionAsked(t, E) = VersionAsked(h, E)
    BY <1>1, <2>1 DEF VersionAsked
  <2>5. MessageAsked(t, E) = MessageAsked(h, E)
    BY <1>1, <2>1 DEF MessageAsked
  <2> QED
    BY <2>2, <2>3, <2>4, <2>5
<1>4. ASSUME NEW name PROVE FieldAsked(t, E, name) = FieldAsked(h, E, name)
  <2> DEFINE i == FieldCall(h, E, name)
  <2>1. FieldCall(t, E, name) = i
    BY <1>1
  <2>2. i # 0 => t[i] = h[i] /\ CookieAsked(t, i) = CookieAsked(h, i)
    BY <1>1, <1>2, CookieStays
  <2> QED
    BY <2>1, <2>2 DEF FieldAsked
<1> QED
  BY <1>3, <1>4 DEF AsAsked

FieldCalls == {"set_header", "remove_header", "set_cookie"}

\* What the response new has of the response r, after a call x that is made with
\* the cookie baked.
Effect(r, x, baked, new) ==
  /\ new.body = IF x.call = "set_body" THEN x.value ELSE r.body
  /\ new.code = IF x.call = "set_status" THEN x.value ELSE r.code
  /\ new.version = IF x.call = "set_version" THEN x.value ELSE r.version
  /\ new.message = IF x.call = "set_status" THEN MessageOf(x.value)
                   ELSE IF x.call = "set_custom_message" THEN x.value ELSE r.message
  /\ \A name :
       FieldIs(new, name) = IF ~(x.name = name /\ x.call \in FieldCalls) THEN FieldIs(r, name)
                            ELSE IF x.call = "remove_header" THEN {}
                            ELSE IF x.call = "set_cookie" THEN {baked}
                            ELSE {x.value}

\* Every setter has its effect, and no other.
LEMMA SetterEffect ==
  ASSUME TInv, NEW o \in Objects, NEW call, NEW name, NEW value, NEW new,
         Setter(o, call, name, value, new),
         NEW x, x.call = call, x.name = name, x.value = value
  PROVE  Effect(object[o], x, Baked(cookie), new)
<1> DEFINE r == object[o]
           baked == Baked(cookie)
<1>1. DOMAIN r = ResponseFields
  BY DEF TInv, ObjectTyped, TypedResponse
<1>2. \/ call = "set_body" /\ new = WithBody(r, value)
      \/ call = "set_status" /\ new = WithStatus(r, value)
      \/ call = "set_custom_message" /\ new = WithMessage(r, value)
      \/ call = "set_version" /\ new = WithVersion(r, value)
      \/ call = "set_header" /\ new = WithField(r, name, value)
      \/ call = "remove_header" /\ new = WithoutField(r, name)
      \/ call = "set_cookie" /\ new = WithField(r, name, baked)
  BY DEF Setter
<1> HIDE DEF r, baked
<1>3. ASSUME NEW v
      PROVE  /\ WithField(r, name, v).body = r.body /\ WithField(r, name, v).code = r.code
             /\ WithField(r, name, v).version = r.version
             /\ WithField(r, name, v).message = r.message
             /\ \A n : FieldIs(WithField(r, name, v), n) = IF n = name THEN {v} ELSE FieldIs(r, n)
  BY <1>1 DEF WithField, Assigned, FieldIs, ResponseFields
<1>4. ASSUME call = "set_body" /\ new = WithBody(r, value) PROVE Effect(r, x, baked, new)
  BY <1>1, <1>4 DEF WithBody, Effect, FieldIs, ResponseFields, FieldCalls
<1>5. ASSUME call = "set_status" /\ new = WithStatus(r, value) PROVE Effect(r, x, baked, new)
  BY <1>1, <1>5 DEF WithStatus, Effect, FieldIs, ResponseFields, FieldCalls
<1>6. ASSUME call = "set_custom_message" /\ new = WithMessage(r, value) PROVE Effect(r, x, baked, new)
  BY <1>1, <1>6 DEF WithMessage, Effect, FieldIs, ResponseFields, FieldCalls
<1>7. ASSUME call = "set_version" /\ new = WithVersion(r, value) PROVE Effect(r, x, baked, new)
  BY <1>1, <1>7 DEF WithVersion, Effect, FieldIs, ResponseFields, FieldCalls
<1>8. ASSUME call = "set_header" /\ new = WithField(r, name, value) PROVE Effect(r, x, baked, new)
  BY <1>3, <1>8 DEF Effect, FieldCalls
<1>9. ASSUME call = "remove_header" /\ new = WithoutField(r, name) PROVE Effect(r, x, baked, new)
  <2>1. /\ new.body = r.body /\ new.code = r.code /\ new.version = r.version
        /\ new.message = r.message
        /\ new.headers = [n \in DOMAIN r.headers \ {name} |-> r.headers[n]]
    BY <1>1, <1>9 DEF WithoutField, ResponseFields
  <2>2. \A n : FieldIs(new, n) = IF n = name THEN {} ELSE FieldIs(r, n)
    BY <2>1 DEF FieldIs
  <2> QED
    BY <1>9, <2>1, <2>2 DEF Effect, FieldCalls
<1>10. ASSUME call = "set_cookie" /\ new = WithField(r, name, baked) PROVE Effect(r, x, baked, new)
  BY <1>3, <1>10 DEF Effect, FieldCalls
<1>11. Effect(r, x, baked, new)
  BY <1>2, <1>4, <1>5, <1>6, <1>7, <1>8, <1>9, <1>10
<1> QED
  BY <1>11 DEF r, baked

\* What set_cookie bakes after a history h.
BakedBy(h, baked) == baked = [text |-> "", cookie |-> {CookieAsked(h, Len(h) + 1)}]

\* With the effect of one more call a response is as asked by one more.
LEMMA AskedNext ==
  ASSUME NEW h, NEW x, NEW t, NextHistory(h, x, t), NEW E \in SUBSET (1..Len(h)),
         NEW r, AsAsked(r, h, E), NEW baked, NEW new, Effect(r, x, baked, new),
         x.call = "set_cookie" => BakedBy(h, baked)
  PROVE  AsAsked(new, t, E \cup {Len(h) + 1})
<1> DEFINE n == Len(h) + 1
           F == E \cup {n}
<1>1. AsAsked(r, t, E)
  BY AskedStays
<1>2. /\ \A names : LastCall(t, F, names) = IF x.call \in names THEN n ELSE LastCall(t, E, names)
      /\ \A name : FieldCall(t, F, name)
                     = IF x.name = name /\ x.call \in FieldCalls THEN n ELSE FieldCall(t, E, name)
  <2>1. \A names : LastCall(t, F, names) = IF x.call \in names THEN n ELSE LastCall(h, E, names)
    BY LastNext
  <2>2. ASSUME NEW name
        PROVE  FieldCall(t, F, name)
                 = IF x.name = name /\ x.call \in FieldCalls THEN n ELSE FieldCall(h, E, name)
    <3> HIDE DEF n, F
    <3>1. n = Len(h) + 1 /\ F = E \cup {n}
      BY DEF n, F
    <3> DEFINE asked == x.name = name /\ x.call \in {"set_header", "remove_header", "set_cookie"}
    <3>2. /\ asked => FieldCall(t, F, name) = n
          /\ ~asked => FieldCall(t, F, name) = FieldCall(h, E, name)
      BY <3>1, LastNext
    <3> QED
      BY <3>2 DEF FieldCalls
  <2>3. /\ \A names : LastCall(t, E, names) = LastCall(h, E, names)
        /\ \A name : FieldCall(t, E, name) = FieldCall(h, E, name)
    BY LastStays
  <2> QED
    BY <2>1, <2>2, <2>3
<1>3. t[n] = x /\ n # 0 /\ n \in 1..(Len(h) + 1)
  BY DEF NextHistory
<1>4. CookieAsked(t, n) = CookieAsked(h, n)
  BY <1>3, CookieStays
<1> HIDE DEF n, F
<1>5. new.body = BodyAsked(t, F)
  BY <1>1, <1>2, <1>3 DEF AsAsked, Effect, BodyAsked
<1>6. new.code = CodeAsked(t, F)
  BY <1>1, <1>2, <1>3 DEF AsAsked, Effect, CodeAsked
<1>7. new.version = VersionAsked(t, F)
  BY <1>1, <1>2, <1>3 DEF AsAsked, Effect, VersionAsked
<1>8. new.message = MessageAsked(t, F)
  BY <1>1, <1>2, <1>3 DEF AsAsked, Effect, MessageAsked
<1>9. ASSUME NEW name \in FieldNames \cup {ContentType, ContentLength, SetCookieName}
      PROVE  FieldIs(new, name) = FieldAsked(t, F, name)
  <2>1. FieldIs(r, name) = FieldAsked(t, E, name)
    BY <1>1 DEF AsAsked
  <2>2. CASE ~(x.name = name /\ x.call \in FieldCalls)
    BY <1>2, <2>1, <2>2 DEF Effect, FieldAsked
  <2>3. CASE x.name = name /\ x.call \in FieldCalls
    <3>1. FieldCall(t, F, name) = n
      BY <1>2, <2>3
    <3>2. FieldIs(new, name) = IF x.call = "remove_header" THEN {}
                               ELSE IF x.call = "set_cookie" THEN {baked} ELSE {x.value}
      BY <2>3 DEF Effect
    <3>3. x.call = "set_cookie" => baked = [text |-> "", cookie |-> {CookieAsked(t, n)}]
      BY <1>4 DEF BakedBy, n
    <3> QED
      BY <1>3, <3>1, <3>2, <3>3 DEF FieldAsked
  <2> QED
    BY <2>2, <2>3
<1> QED
  BY <1>5, <1>6, <1>7, <1>8, <1>9 DEF AsAsked, n, F

-----------------------------------------------------------------------------
(***************************************************************************)
(* What the handler asked for.                                             *)
(***************************************************************************)

\* The cookie is what its setters made of it.
CookieTold ==
  LET n == Len(calls) + 1
      value == AttributeCall(calls, "set_value", n)
  IN /\ cookie.value = IF value = 0 THEN "7" ELSE calls[value].value
     /\ \A a \in Attributes :
          cookie.attribute[a] =
            LET i == AttributeCall(calls, a, n)
            IN IF i # 0 THEN calls[i].value ELSE IF a = "SameSite" THEN "None" ELSE ""
     /\ cookie.response = \E a \in Attributes : AttributeCall(calls, a, n) # 0

\* So a cookie that is set is baked as the history asks for.
LEMMA Baking ==
  ASSUME TInv, CookieTold
  PROVE  BakedBy(calls, Baked(cookie))
<1> DEFINE n == Len(calls) + 1
           asked(a) == AttributeCall(calls, a, n)
           set == {a \in Attributes : asked(a) # 0}
           text(a) == IF asked(a) # 0 THEN calls[asked(a)].value ELSE "None"
           shown == {b \in set \cup (IF set = {} THEN {} ELSE {"SameSite"}) : text(b) # ""}
           kept == {b \in Attributes : cookie.attribute[b] # ""}
           v == IF asked("set_value") = 0 THEN "7" ELSE calls[asked("set_value")].value
<1>1. /\ cookie.name = "id" /\ cookie.response = (set # {})
      /\ cookie.value = v
      /\ \A a \in Attributes :
           cookie.attribute[a] = IF asked(a) # 0 THEN calls[asked(a)].value
                                 ELSE IF a = "SameSite" THEN "None" ELSE ""
  BY DEF CookieTold, TInv, CookieType
<1>2. CookieAsked(calls, n) =
        [name |-> "id", value |-> v,
         attributes |-> {<<a, text(a)>> : a \in shown}]
  BY DEF CookieAsked
<1>3. CookieText(cookie) =
        [name |-> cookie.name, value |-> cookie.value,
         attributes |-> IF cookie.response THEN {<<a, cookie.attribute[a]>> : a \in kept} ELSE {}]
  BY DEF CookieText
<1>4. "SameSite" \in Attributes
  BY DEF Attributes
<1>5. CASE set = {}
  <2>1. shown = {} /\ ~cookie.response
    BY <1>1, <1>5
  <2>2. CookieText(cookie) = CookieAsked(calls, n)
    <3> HIDE DEF set, text, kept, asked, shown, v
    <3>1. {<<a, text(a)>> : a \in shown} = {}
      BY <2>1
    <3> QED
      BY <1>1, <1>2, <1>3, <2>1, <3>1
  <2> QED
    BY <2>2 DEF BakedBy, Baked
<1>6. CASE set # {}
  <2>1. \A a \in shown : a \in Attributes /\ cookie.attribute[a] = text(a)
    BY <1>1, <1>4, <1>6
  <2>2. \A a \in kept : a \in shown
    BY <1>1, <1>4, <1>6
  <2>3. \A a \in shown : a \in kept
    BY <2>1
  <2>4. kept = shown
    BY <2>2, <2>3
  <2>5. {<<a, cookie.attribute[a]>> : a \in kept} = {<<a, text(a)>> : a \in shown}
    <3> HIDE DEF set, text, kept, asked, shown, v
    <3> QED
      BY <2>1, <2>4
  <2>6. cookie.response
    BY <1>1, <1>6
  <2>7. CookieText(cookie) = CookieAsked(calls, n)
    <3> HIDE DEF set, text, kept, asked, shown, v
    <3> QED
      BY <1>1, <1>2, <1>3, <2>5, <2>6
  <2> QED
    BY <2>7 DEF BakedBy, Baked
<1> QED
  BY <1>5, <1>6

\* The last setter of an attribute is the new call or the one it was.
LEMMA AttributeNext ==
  ASSUME NEW h, NEW x, NEW t, NextHistory(h, x, t), NEW n, n = Len(h) + 1, NEW a
  PROVE  /\ x.on = "cookie" /\ x.call = a => AttributeCall(t, a, n + 1) = n
         /\ ~(x.on = "cookie" /\ x.call = a) =>
              AttributeCall(t, a, n + 1) = AttributeCall(h, a, n)
<1> DEFINE S == {j \in 1..n : t[j].on = "cookie" /\ t[j].call = a}
<1>1. /\ n \in Nat \ {0} /\ t[n] = x /\ \A j \in 1..(n - 1) : t[j] = h[j]
      /\ \A j : j \in 1..n <=> j \in 1..(n - 1) \/ j = n
  BY DEF NextHistory
<1>2. AttributeCall(t, a, n + 1) = LastOf(S)
  <2>1. (n + 1) - 1 = n
    BY <1>1
  <2> QED
    BY <2>1 DEF AttributeCall
<1>3. CASE x.on = "cookie" /\ x.call = a
  <2>1. S \in SUBSET (1..n) /\ n \in S
    BY <1>1, <1>3
  <2> HIDE DEF S
  <2>2. LastOf(S) = n
    BY <1>1, <2>1, LastIs
  <2> QED
    BY <1>2, <1>3, <2>2
<1>4. CASE ~(x.on = "cookie" /\ x.call = a)
  <2>1. S = {j \in 1..(n - 1) : h[j].on = "cookie" /\ h[j].call = a}
    BY <1>1, <1>4
  <2> QED
    BY <1>2, <1>4, <2>1 DEF AttributeCall
<1> QED
  BY <1>3, <1>4

\* A call in the terms of these lemmas.
LEMMA CallNext ==
  ASSUME TInv, NEW x, Room, calls' = Append(calls, x), sent' = sent
  PROVE  /\ NextHistory(calls, x, calls')
         /\ Len(calls') = Len(calls) + 1
         /\ DOMAIN calls = 1..Len(calls) /\ DOMAIN calls' = 1..(Len(calls) + 1)
  BY CallAppended DEF NextHistory

\* A call that is not one of its setters leaves the cookie as it was told.
LEMMA CookieUntouched ==
  ASSUME TInv, CookieTold, NEW x, Room, calls' = Append(calls, x), sent' = sent,
         x.on # "cookie", cookie' = cookie
  PROVE  CookieTold'
<1> DEFINE n == Len(calls) + 1
<1>1. NextHistory(calls, x, calls') /\ Len(calls') = n
  BY CallNext
<1>2. \A a : AttributeCall(calls', a, n + 1) = AttributeCall(calls, a, n)
  BY <1>1, AttributeNext
<1>3. \A a : AttributeCall(calls, a, n) \in (1..(n - 1)) \cup {0}
  <2>1. n \in 1..(Len(calls) + 1)
    BY <1>1 DEF NextHistory
  <2> QED
    BY <1>1, <2>1, CookieStays
<1>4. \A i \in 1..(n - 1) : calls'[i] = calls[i]
  BY <1>1 DEF NextHistory
<1>5. \A a : AttributeCall(calls, a, n) # 0 =>
         calls'[AttributeCall(calls, a, n)] = calls[AttributeCall(calls, a, n)]
  BY <1>3, <1>4
<1> HIDE DEF n
<1>6. CookieTold' =
        (LET value == AttributeCall(calls', "set_value", n + 1)
         IN /\ cookie'.value = IF value = 0 THEN "7" ELSE calls'[value].value
            /\ \A a \in Attributes :
                 cookie'.attribute[a] =
                   LET i == AttributeCall(calls', a, n + 1)
                   IN IF i # 0 THEN calls'[i].value ELSE IF a = "SameSite" THEN "None" ELSE ""
            /\ cookie'.response = \E a \in Attributes : AttributeCall(calls', a, n + 1) # 0)
  BY <1>1 DEF CookieTold
<1> QED
  BY <1>2, <1>5, <1>6 DEF CookieTold, n

\* A setter of the cookie is the last of its attribute.
LEMMA CookieSetTold ==
  ASSUME TInv, CookieTold, NEW a \in Attributes \cup {"set_value"}, NEW v,
         Made("cookie", a, NoName, v),
         \/ a = "set_value" /\ cookie' = [cookie EXCEPT !.value = v]
         \/ a # "set_value" /\ cookie' = WithAttribute(cookie, a, v)
  PROVE  CookieTold'
<1> DEFINE n == Len(calls) + 1
           x == [on |-> "cookie", call |-> a, name |-> NoName, value |-> v, threw |-> FALSE]
<1>1. Room /\ calls' = Append(calls, x) /\ sent' = sent
  BY DEF Made
<1>2. x.on = "cookie" /\ x.call = a /\ x.value = v
  OBVIOUS
<1> HIDE DEF x
<1>3. NextHistory(calls, x, calls') /\ Len(calls') = n
  BY <1>1, CallNext
<1>4. n \in Nat /\ n # 0 /\ n \in 1..(Len(calls) + 1) /\ calls'[n] = x
      /\ \A i \in 1..(n - 1) : calls'[i] = calls[i]
  BY <1>3 DEF NextHistory
<1>5. \A b : AttributeCall(calls, b, n) \in (1..(n - 1)) \cup {0}
  BY <1>3, <1>4, CookieStays
<1>6. /\ AttributeCall(calls', a, n + 1) = n
      /\ \A b : b # a => AttributeCall(calls', b, n + 1) = AttributeCall(calls, b, n)
  BY <1>2, <1>3, AttributeNext
<1>7. \A b : AttributeCall(calls, b, n) # 0 =>
         calls'[AttributeCall(calls, b, n)] = calls[AttributeCall(calls, b, n)]
  BY <1>4, <1>5
<1>8. /\ DOMAIN cookie = {"name", "value", "response", "attribute"}
      /\ DOMAIN cookie.attribute = Attributes
  BY DEF TInv, CookieType
<1>9. "set_value" \notin Attributes
  BY DEF Attributes
<1> HIDE DEF n
<1>10. CookieTold' =
        (LET value == AttributeCall(calls', "set_value", n + 1)
         IN /\ cookie'.value = IF value = 0 THEN "7" ELSE calls'[value].value
            /\ \A b \in Attributes :
                 cookie'.attribute[b] =
                   LET i == AttributeCall(calls', b, n + 1)
                   IN IF i # 0 THEN calls'[i].value ELSE IF b = "SameSite" THEN "None" ELSE ""
            /\ cookie'.response = \E b \in Attributes : AttributeCall(calls', b, n + 1) # 0)
  BY <1>3 DEF CookieTold
<1>11. /\ cookie.value = IF AttributeCall(calls, "set_value", n) = 0 THEN "7"
                         ELSE calls[AttributeCall(calls, "set_value", n)].value
       /\ \A b \in Attributes :
            cookie.attribute[b] =
              LET i == AttributeCall(calls, b, n)
              IN IF i # 0 THEN calls[i].value ELSE IF b = "SameSite" THEN "None" ELSE ""
       /\ cookie.response = \E b \in Attributes : AttributeCall(calls, b, n) # 0
  BY DEF CookieTold, n
<1>12. CASE a = "set_value" /\ cookie' = [cookie EXCEPT !.value = v]
  <2>1. /\ cookie'.value = v /\ cookie'.attribute = cookie.attribute
        /\ cookie'.response = cookie.response
    BY <1>8, <1>12
  <2>2. AttributeCall(calls', "set_value", n + 1) = n /\ calls'[n].value = v
    BY <1>2, <1>4, <1>6, <1>12
  <2>3. \A b \in Attributes : AttributeCall(calls', b, n + 1) = AttributeCall(calls, b, n)
    BY <1>6, <1>9, <1>12
  <2>4. ASSUME NEW b \in Attributes
        PROVE  cookie'.attribute[b] =
                 LET i == AttributeCall(calls', b, n + 1)
                 IN IF i # 0 THEN calls'[i].value ELSE IF b = "SameSite" THEN "None" ELSE ""
    <3> DEFINE k == AttributeCall(calls, b, n)
    <3>1. /\ k # 0 => calls'[k].value = calls[k].value
          /\ AttributeCall(calls', b, n + 1) = k
          /\ cookie'.attribute[b] = IF k # 0 THEN calls[k].value
                                    ELSE IF b = "SameSite" THEN "None" ELSE ""
      BY <1>7, <1>11, <2>1, <2>3
    <3> HIDE DEF k
    <3> QED
      BY <3>1
  <2>5. cookie'.response = \E b \in Attributes : AttributeCall(calls', b, n + 1) # 0
    BY <1>11, <2>1, <2>3
  <2>6. cookie'.value = IF AttributeCall(calls', "set_value", n + 1) = 0 THEN "7"
                        ELSE calls'[AttributeCall(calls', "set_value", n + 1)].value
    BY <1>4, <2>1, <2>2
  <2> QED
    BY <1>10, <2>4, <2>5, <2>6
<1>13. CASE a # "set_value" /\ cookie' = WithAttribute(cookie, a, v)
  <2>1. /\ cookie'.value = cookie.value /\ cookie'.response = TRUE
        /\ cookie'.attribute = [cookie.attribute EXCEPT ![a] = v]
    BY <1>8, <1>13 DEF WithAttribute
  <2>2. AttributeCall(calls', a, n + 1) = n /\ calls'[n].value = v /\ a \in Attributes
    BY <1>2, <1>4, <1>6, <1>13
  <2>3. AttributeCall(calls', "set_value", n + 1) = AttributeCall(calls, "set_value", n)
    BY <1>6, <1>13
  <2>4. ASSUME NEW b \in Attributes
        PROVE  cookie'.attribute[b] =
                 LET i == AttributeCall(calls', b, n + 1)
                 IN IF i # 0 THEN calls'[i].value ELSE IF b = "SameSite" THEN "None" ELSE ""
    <3>1. CASE b = a
      BY <1>4, <1>8, <2>1, <2>2, <3>1
    <3>2. CASE b # a
      <4>1. cookie'.attribute[b] = cookie.attribute[b]
        BY <1>8, <2>1, <3>2
      <4>2. AttributeCall(calls', b, n + 1) = AttributeCall(calls, b, n)
        BY <1>6, <3>2
      <4> QED
        BY <1>7, <1>11, <4>1, <4>2
    <3> QED
      BY <3>1, <3>2
  <2>5. cookie'.response = \E b \in Attributes : AttributeCall(calls', b, n + 1) # 0
    BY <1>4, <2>1, <2>2
  <2>6. cookie'.value = IF AttributeCall(calls', "set_value", n + 1) = 0 THEN "7"
                        ELSE calls'[AttributeCall(calls', "set_value", n + 1)].value
    <3> DEFINE k == AttributeCall(calls, "set_value", n)
    <3>1. /\ k # 0 => calls'[k].value = calls[k].value
          /\ AttributeCall(calls', "set_value", n + 1) = k
          /\ cookie'.value = IF k = 0 THEN "7" ELSE calls[k].value
      BY <1>7, <1>11, <2>1, <2>3
    <3> HIDE DEF k
    <3> QED
      BY <3>1
  <2> QED
    BY <1>10, <2>4, <2>5, <2>6
<1> QED
  BY <1>12, <1>13

OnBuilder == {i \in DOMAIN calls : ~calls[i].threw /\ calls[i].on = "builder"}

\* Until the builder builds again the response is as its calls asked, and until
\* it builds at all so is what it builds from.
AInv ==
  /\ (\A a, b \in Builds : a = b) => AsAsked(object["response"], calls, Effective)
  /\ Builds = {} => AsAsked(object["builder"], calls, OnBuilder)
  /\ CookieTold

LEMMA AInvCalled == TInv /\ AInv => AsCalled
<1> SUFFICES ASSUME TInv, AInv, Cardinality(Builds) <= 1
             PROVE  AsAsked(object["response"], calls, Effective)
  BY DEF AsCalled, Handled
<1>1. IsFiniteSet(Builds)
  <2>1. DOMAIN calls = 1..Len(calls) /\ Len(calls) \in Nat
    BY SequentialLen DEF TInv, HistoryTyped
  <2>2. IsFiniteSet(1..Len(calls)) /\ Builds \in SUBSET (1..Len(calls))
    BY <2>1, FS_Interval DEF Builds
  <2> QED
    BY <2>2, FS_Subset
<1>2. ASSUME NEW a \in Builds, NEW b \in Builds, a # b PROVE FALSE
  <2>1. IsFiniteSet({a}) /\ Cardinality({a}) = 1
    BY FS_Singleton
  <2>2. IsFiniteSet({a} \cup {b}) /\ Cardinality({a} \cup {b}) = 2
    BY <1>2, <2>1, FS_AddElement
  <2>3. {a} \cup {b} \in SUBSET Builds
    OBVIOUS
  <2>4. Cardinality({a} \cup {b}) <= Cardinality(Builds) /\ Cardinality(Builds) \in Nat
    BY <1>1, <2>3, FS_Subset, FS_CardinalityType
  <2> QED
    BY <2>2, <2>4
<1> QED
  BY <1>2 DEF AInv

\* The new call is one of the builder's if it is on it; unless it is build, it
\* is not among those the response was built from.
LEMMA OnBuilderStays ==
  ASSUME TInv, NEW x, Room, calls' = Append(calls, x), sent' = sent
  PROVE  /\ OnBuilder \subseteq 1..Len(calls)
         /\ \A i : i \in OnBuilder' <=> \/ i \in OnBuilder
                                       \/ (i = Len(calls) + 1 /\ ~x.threw /\ x.on = "builder")
<1> DEFINE n == Len(calls) + 1
<1>1. /\ Len(calls) \in Nat /\ DOMAIN calls = 1..Len(calls) /\ DOMAIN calls' = 1..n
      /\ calls'[n] = x /\ \A i \in DOMAIN calls : calls'[i] = calls[i]
  BY CallAppended
<1>2. \A i : i \in 1..n <=> i \in 1..Len(calls) \/ i = n
  BY <1>1
<1> HIDE DEF n
<1>3. \A i : i \in OnBuilder' <=> i \in OnBuilder \/ (i = n /\ ~x.threw /\ x.on = "builder")
  BY <1>1, <1>2 DEF OnBuilder
<1>4. OnBuilder \subseteq 1..Len(calls)
  BY <1>1 DEF OnBuilder
<1> QED
  BY <1>3, <1>4 DEF n

\* A call on neither response nor builder, or one that threw, has no effect.
LEMMA CallWithoutEffect ==
  ASSUME TInv, AInv, NEW x, Room, calls' = Append(calls, x), sent' = sent, x.call # "build",
         x.threw \/ x.on \notin {"response", "builder"},
         object' = object, CookieTold'
  PROVE  AInv'
<1>1. NextHistory(calls, x, calls') /\ DOMAIN calls = 1..Len(calls)
  BY CallNext
<1>2. Builds' = Builds /\ Effective' = Effective /\ Effective \in SUBSET (1..Len(calls))
  <2>1. \A i : i \in Effective' <=> i \in Effective
    BY EffectiveStays
  <2>2. Effective' = Effective
    <3>1. Effective' \subseteq DOMAIN calls' /\ Effective \subseteq DOMAIN calls
      BY DEF Effective
    <3> QED
      BY <2>1, <3>1
  <2> QED
    BY <1>1, <2>2, EffectiveStays
<1>3. OnBuilder' = OnBuilder /\ OnBuilder \in SUBSET (1..Len(calls))
  <2>1. \A i : i \in OnBuilder' <=> i \in OnBuilder
    BY OnBuilderStays
  <2>2. OnBuilder' \subseteq DOMAIN calls' /\ OnBuilder \subseteq DOMAIN calls
    BY DEF OnBuilder
  <2> QED
    BY <2>1, <2>2, OnBuilderStays
<1>4. AsAsked(object["response"], calls, Effective) => AsAsked(object["response"], calls', Effective)
  BY <1>1, <1>2, AskedStays
<1>5. AsAsked(object["builder"], calls, OnBuilder) => AsAsked(object["builder"], calls', OnBuilder)
  BY <1>1, <1>3, AskedStays
<1> QED
  BY <1>2, <1>3, <1>4, <1>5 DEF AInv

\* A setter adds one call to those that made its object.
LEMMA SetAsked ==
  ASSUME TInv, AInv, Set
  PROVE  AInv'
<1>1. PICK o \in Objects : \E call, name, value, new :
        Changed(o, call, name, value, new) /\ Setter(o, call, name, value, new)
  BY DEF Set
<1>2. PICK call, name, value, new :
        Changed(o, call, name, value, new) /\ Setter(o, call, name, value, new)
  BY <1>1
<1> DEFINE x == [on |-> o, call |-> call, name |-> name, value |-> value, threw |-> FALSE]
           n == Len(calls) + 1
           baked == Baked(cookie)
<1>3. /\ Room /\ calls' = Append(calls, x) /\ sent' = sent
      /\ object' = [object EXCEPT ![o] = new] /\ cookie' = cookie
  BY <1>2 DEF Changed, Made
<1>4. x.call = call /\ x.name = name /\ x.value = value /\ x.on = o /\ ~x.threw
  OBVIOUS
<1>5. call # "build" /\ o \in {"builder", "response"} /\ x.on # "cookie"
  BY <1>2 DEF Setter, Objects
<1> HIDE DEF x
<1>6. NextHistory(calls, x, calls') /\ DOMAIN calls = 1..Len(calls)
  BY <1>3, CallNext
<1>7. CookieTold'
  BY <1>3, <1>5, CookieUntouched DEF AInv
<1>8. Effect(object[o], x, baked, new)
  BY <1>2, <1>4, SetterEffect
<1>9. x.call = "set_cookie" => BakedBy(calls, baked)
  BY Baking DEF AInv
<1> HIDE DEF baked
<1>10. ASSUME NEW E \in SUBSET (1..Len(calls)), AsAsked(object[o], calls, E)
       PROVE  AsAsked(new, calls', E \cup {n})
  BY <1>6, <1>8, <1>9, <1>10, AskedNext
<1>11. /\ Builds' = Builds /\ Effective \in SUBSET (1..Len(calls))
       /\ \A i : i \in Effective' <=> i \in Effective \/ (i = n /\ o = "response")
  BY <1>3, <1>4, <1>5, <1>6, EffectiveStays
<1>12. /\ OnBuilder \in SUBSET (1..Len(calls))
       /\ \A i : i \in OnBuilder' <=> i \in OnBuilder \/ (i = n /\ o = "builder")
  BY <1>3, <1>4, OnBuilderStays
<1>13. /\ DOMAIN object = Objects /\ object'[o] = new
       /\ \A p \in Objects : p # o => object'[p] = object[p]
       /\ "builder" \in Objects /\ "response" \in Objects
  BY <1>3 DEF TInv, ObjectTyped, Objects
<1>14. Effective' \subseteq DOMAIN calls' /\ OnBuilder' \subseteq DOMAIN calls'
  BY DEF Effective, OnBuilder
<1>15. CASE o = "response"
  <2>1. Effective' = Effective \cup {n}
    BY <1>11, <1>15
  <2>2. OnBuilder' = OnBuilder
    BY <1>12, <1>15
  <2>3. AsAsked(object["response"], calls, Effective) => AsAsked(new, calls', Effective \cup {n})
    BY <1>10, <1>11, <1>15
  <2>4. AsAsked(object["builder"], calls, OnBuilder)
          => AsAsked(object["builder"], calls', OnBuilder)
    BY <1>6, <1>12, AskedStays
  <2>5. object'["response"] = new /\ object'["builder"] = object["builder"]
    BY <1>13, <1>15
  <2> QED
    BY <1>7, <1>11, <2>1, <2>2, <2>3, <2>4, <2>5 DEF AInv
<1>16. CASE o = "builder"
  <2>1. OnBuilder' = OnBuilder \cup {n}
    BY <1>12, <1>16
  <2>2. Effective' = Effective
    BY <1>11, <1>16
  <2>3. AsAsked(object["builder"], calls, OnBuilder) => AsAsked(new, calls', OnBuilder \cup {n})
    BY <1>10, <1>12, <1>16
  <2>4. AsAsked(object["response"], calls, Effective)
          => AsAsked(object["response"], calls', Effective)
    BY <1>6, <1>11, AskedStays
  <2>5. object'["builder"] = new /\ object'["response"] = object["response"]
    BY <1>13, <1>16
  <2> QED
    BY <1>7, <1>11, <2>1, <2>2, <2>3, <2>4, <2>5 DEF AInv
<1> QED
  BY <1>5, <1>15, <1>16

\* The first build hands over what the builder's calls asked for; any other one
\* leaves nothing that is claimed.
LEMMA BuildAsked ==
  ASSUME TInv, AInv, Build
  PROVE  AInv'
<1> DEFINE x == [on |-> "builder", call |-> "build", name |-> NoName, value |-> "", threw |-> FALSE]
           n == Len(calls) + 1
<1>1. /\ Room /\ calls' = Append(calls, x) /\ sent' = sent /\ cookie' = cookie
      /\ object' = [builder |-> MovedFrom(object.builder), response |-> object.builder]
  BY DEF Build, Made
<1>2. x.call = "build" /\ x.on = "builder" /\ x.on # "cookie" /\ x.threw = FALSE
  OBVIOUS
<1> HIDE DEF x
<1>3. object'["response"] = object["builder"]
  BY <1>1
<1>4. CookieTold'
  BY <1>1, <1>2, CookieUntouched DEF AInv
<1>5. /\ Len(calls) \in Nat /\ DOMAIN calls = 1..Len(calls) /\ DOMAIN calls' = 1..n
      /\ calls'[n] = x /\ \A i \in DOMAIN calls : calls'[i] = calls[i]
  BY <1>1, CallAppended
<1>6. /\ n \in DOMAIN calls' /\ n \notin DOMAIN calls
      /\ \A i : i \in DOMAIN calls' <=> i \in DOMAIN calls \/ i = n
      /\ \A i \in DOMAIN calls : i < n /\ ~(n < i)
      /\ ~(n < n)
  BY <1>5
<1> HIDE DEF n
<1>7. n \in Builds' /\ \A b \in Builds : b \in Builds' /\ b # n
  BY <1>2, <1>5, <1>6 DEF Builds
<1>8. CASE Builds # {}
  <2>1. Builds' # {} /\ ~(\A a, b \in Builds' : a = b)
    BY <1>7, <1>8
  <2> QED
    BY <1>4, <2>1 DEF AInv
<1>9. CASE Builds = {}
  <2>1. Builds' = {n}
    <3>1. \A b \in Builds' : b = n
      BY <1>5, <1>6, <1>9 DEF Builds
    <3> QED
      BY <1>7, <3>1
  <2>2. Effective' = OnBuilder
    <3>1. ASSUME NEW i \in DOMAIN calls PROVE i \in Effective' <=> i \in OnBuilder
      <4>1. calls'[i] = calls[i] /\ i \in DOMAIN calls' /\ i < n /\ ~(n < i)
        BY <1>5, <1>6
      <4>2. i \in Effective' <=>
              /\ ~calls[i].threw
              /\ \/ calls[i].on = "response" /\ n < i
                 \/ calls[i].on = "builder" /\ i < n
        BY <2>1, <4>1 DEF Effective
      <4> QED
        BY <4>1, <4>2 DEF OnBuilder
    <3>2. n \notin Effective' /\ n \notin OnBuilder
      BY <1>2, <1>5, <1>6, <2>1 DEF Effective, OnBuilder
    <3>3. Effective' \subseteq DOMAIN calls' /\ OnBuilder \subseteq DOMAIN calls
      BY DEF Effective, OnBuilder
    <3> QED
      BY <1>6, <3>1, <3>2, <3>3
  <2>3. AsAsked(object["builder"], calls', OnBuilder)
    <3>1. NextHistory(calls, x, calls') /\ OnBuilder \in SUBSET (1..Len(calls))
      BY <1>1, <1>5, CallNext DEF OnBuilder
    <3>2. AsAsked(object["builder"], calls, OnBuilder)
      BY <1>9 DEF AInv
    <3> QED
      BY <3>1, <3>2, AskedStays
  <2>4. Builds' # {}
    BY <2>1
  <2> QED
    BY <1>3, <1>4, <2>2, <2>3, <2>4 DEF AInv
<1> QED
  BY <1>8, <1>9

\* Every step keeps AInv.
LEMMA NextAInv == TInv /\ AInv /\ [Next]_vars => AInv'
<1> SUFFICES ASSUME TInv, AInv, [Next]_vars PROVE AInv'
  OBVIOUS
<1>1. ASSUME calls' = calls, object' = object, cookie' = cookie PROVE AInv'
  <2>1. /\ Builds' = Builds /\ Effective' = Effective /\ OnBuilder' = OnBuilder
        /\ CookieTold'
    BY <1>1 DEF AInv, Builds, Effective, OnBuilder, CookieTold
  <2> QED
    BY <1>1, <2>1 DEF AInv
<1>2. (\E line \in Lines : ReadLine(line)) \/ Ended \/ HeadersEnd \/ UNCHANGED vars => AInv'
  BY <1>1 DEF ReadLine, Ended, HeadersEnd, vars
<1>3. ASSUME NEW on, on # "cookie", NEW call, call # "build", NEW name, NEW value,
             NEW threw \in BOOLEAN, threw \/ on \notin {"response", "builder"}, Room,
             calls' = Append(calls, [on |-> on, call |-> call, name |-> name,
                                     value |-> value, threw |-> threw]),
             UNCHANGED <<sent, object, cookie>>
      PROVE  AInv'
  <2> DEFINE x == [on |-> on, call |-> call, name |-> name, value |-> value, threw |-> threw]
  <2>1. /\ x.call # "build" /\ x.on # "cookie" /\ (x.threw \/ x.on \notin {"response", "builder"})
        /\ Room /\ calls' = Append(calls, x) /\ sent' = sent
    BY <1>3
  <2> HIDE DEF x
  <2>2. CookieTold'
    BY <1>3, <2>1, CookieUntouched DEF AInv
  <2> QED
    BY <1>3, <2>1, <2>2, CallWithoutEffect
<1>4. ASSUME NEW on \in {"request", "query"}, NEW call, call # "build", NEW name, NEW value,
             Made(on, call, name, value), object' = object, cookie' = cookie
      PROVE  AInv'
  BY <1>3, <1>4 DEF Made
<1>5. ASSUME NEW on \in {"response", "query"}, NEW call, call # "build", NEW name, NEW value,
             Threw(on, call, name, value)
      PROVE  AInv'
  BY <1>3, <1>5 DEF Threw
<1>6. ASSUME RequestSet PROVE AInv'
  BY <1>4, <1>6 DEF RequestSet, SetRequestHeader
<1>7. ASSUME Queried PROVE AInv'
  <2>1. PICK p \in Parameters, type \in {"int", "int64_t"} : ReadQuery(p, type)
    BY <1>7 DEF Queried
  <2>2. \E value : \/ Made("query", type, p.name, value) /\ object' = object /\ cookie' = cookie
                   \/ Threw("query", type, p.name, value)
    BY <2>1 DEF ReadQuery
  <2>3. type # "build"
    OBVIOUS
  <2> QED
    BY <1>4, <1>5, <2>2, <2>3
<1>8. ASSUME Thrown PROVE AInv'
  BY <1>5, <1>8 DEF Thrown
<1>9. ASSUME CookieSet PROVE AInv'
  <2>1. CASE \E value \in {"", "8"} : SetCookieValue(value)
    <3>1. PICK value \in {"", "8"} : SetCookieValue(value)
      BY <2>1
    <3>2. CookieTold'
      BY <3>1, CookieSetTold DEF SetCookieValue, AInv
    <3> DEFINE x == [on |-> "cookie", call |-> "set_value", name |-> NoName,
                     value |-> value, threw |-> FALSE]
    <3>3. /\ Room /\ calls' = Append(calls, x) /\ sent' = sent /\ object' = object
          /\ x.call # "build" /\ x.on \notin {"response", "builder"}
      BY <3>1 DEF SetCookieValue, Made
    <3> HIDE DEF x
    <3> QED
      BY <3>2, <3>3, CallWithoutEffect
  <2>2. CASE \E a \in {"SameSite", "Secure"}, v \in {"", "Lax", "yes"} : SetAttribute(a, v)
    <3>1. PICK a \in {"SameSite", "Secure"}, v \in {"", "Lax", "yes"} : SetAttribute(a, v)
      BY <2>2
    <3>2. a \in Attributes /\ a # "set_value"
      BY DEF Attributes
    <3>3. CookieTold'
      BY <3>1, <3>2, CookieSetTold DEF SetAttribute, AInv
    <3> DEFINE x == [on |-> "cookie", call |-> a, name |-> NoName, value |-> v, threw |-> FALSE]
    <3>4. /\ Room /\ calls' = Append(calls, x) /\ sent' = sent /\ object' = object
          /\ x.call # "build" /\ x.on \notin {"response", "builder"}
      BY <3>1 DEF SetAttribute, Made
    <3> HIDE DEF x
    <3> QED
      BY <3>3, <3>4, CallWithoutEffect
  <2> QED
    BY <1>9, <2>1, <2>2 DEF CookieSet
<1> QED
  BY <1>2, <1>6, <1>7, <1>8, <1>9, SetAsked, BuildAsked, StepKinds

\* Without calls the objects are new.
LEMMA InitAInv == Init => AInv
<1> SUFFICES ASSUME Init PROVE AInv
  OBVIOUS
<1>1. /\ calls = <<>> /\ DOMAIN calls = {} /\ Len(calls) = 0
      /\ object["response"] = NewResponse /\ object["builder"] = NewResponse
      /\ cookie = NewCookie("id", "7")
  <2>1. DOMAIN <<>> = {} /\ Len(<<>>) = 0
    OBVIOUS
  <2>2. calls = <<>> /\ object = [o \in Objects |-> NewResponse] /\ cookie = NewCookie("id", "7")
    BY DEF Init
  <2>3. object["response"] = NewResponse /\ object["builder"] = NewResponse
    BY <2>2 DEF Objects
  <2> QED
    BY <2>1, <2>2, <2>3
<1>2. Effective = {} /\ OnBuilder = {}
  BY <1>1 DEF Effective, OnBuilder
<1>3. LastOf({}) = 0
  BY DEF LastOf
<1>4. AsAsked(NewResponse, calls, {})
  <2>1. /\ \A names : LastCall(calls, {}, names) = 0
        /\ \A name : FieldCall(calls, {}, name) = 0
    BY <1>3 DEF LastCall, FieldCall
  <2>2. /\ BodyAsked(calls, {}) = "" /\ CodeAsked(calls, {}) = 200
        /\ VersionAsked(calls, {}) = "1.1" /\ MessageAsked(calls, {}) = "OK"
    BY <2>1 DEF BodyAsked, CodeAsked, VersionAsked, MessageAsked
  <2>3. \A name : FieldAsked(calls, {}, name)
                    = IF name = ContentType THEN {Plain("text/plain")} ELSE {}
    BY <2>1 DEF FieldAsked
  <2>4. \A name : FieldIs(NewResponse, name)
                    = IF name = ContentType THEN {Plain("text/plain")} ELSE {}
    BY DEF NewResponse, NoFields, Assigned, FieldIs
  <2>5. /\ NewResponse.body = "" /\ NewResponse.code = 200
        /\ NewResponse.version = "1.1" /\ NewResponse.message = "OK"
    BY DEF NewResponse
  <2> QED
    <3>1. ASSUME NEW name PROVE FieldIs(NewResponse, name) = FieldAsked(calls, {}, name)
      BY <2>3, <2>4
    <3> QED
      BY <2>2, <2>5, <3>1 DEF AsAsked
<1>5. CookieTold
  <2>1. \A a : AttributeCall(calls, a, 1) = 0
    <3>1. 1..(1 - 1) = {}
      OBVIOUS
    <3> QED
      BY <1>3, <3>1 DEF AttributeCall
  <2>2. /\ cookie.value = "7" /\ cookie.response = FALSE
        /\ \A a \in Attributes : cookie.attribute[a] = IF a = "SameSite" THEN "None" ELSE ""
    BY <1>1 DEF NewCookie
  <2>3. Len(calls) + 1 = 1
    BY <1>1
  <2> QED
    BY <2>1, <2>2, <2>3 DEF CookieTold
<1> QED
  BY <1>1, <1>2, <1>4, <1>5 DEF AInv

\* AsCalled: a response is what its handler asked for last, in any order of any
\* number of calls of builder, response and cookie, as long as it built once.
THEOREM ResponsesAsCalled == Spec => []AsCalled
BY InitAInv, NextAInv, AlwaysTyped, AInvCalled, PTL DEF Spec
=============================================================================
