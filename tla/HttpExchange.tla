---------------------------- MODULE HttpExchange ----------------------------
(***************************************************************************)
(* One request and its answer, as the handler's thread sees them: the      *)
(* header lines become an HttpRequest, the handler reads it and calls the  *)
(* builder, the response and a cookie in any order, and the response is    *)
(* written out.  What throws is caught by the handler or answered by 500.  *)
(***************************************************************************)
EXTENDS HttpResponse, FiniteSetsExt

CONSTANTS
  Lines,       \* header lines a request may have
  Bodies,      \* bodies a request may have
  Parameters,  \* parameters a URL may bind: their names and contents
  FieldNames,  \* names handlers give to set_header and remove_header
  MaxEvents    \* a bound on the lines and the calls of one exchange

ASSUME ExchangeAssumption == MaxEvents \in Nat

VARIABLES
  phase,    \* the lines are "reading", the handler is "handling", or "answered"
  headers,  \* HttpRequest::m_headers
  body,     \* HttpRequest::m_body
  object,   \* the HttpResponse of the builder, and the one the handler has
  cookie,   \* the Cookie the handler has
  answer,   \* what was given to send
  sent,     \* history: the lines
  calls     \* history: the calls the handler made, and which of them threw

vars == <<phase, headers, body, object, cookie, answer, sent, calls>>

Objects == {"builder", "response"}
NoAnswer == "none"
Statuses == {200, 418}  \* a code with a message of its own, and one without

TypeOK ==
  /\ phase \in {"reading", "handling", "answered"}
  /\ \A n \in DOMAIN headers :
       n.lower \/ \E i \in DOMAIN calls : calls[i].on = "request" /\ calls[i].name = n
  /\ body \in Bodies \cup {""}
  /\ \A o \in Objects :
       /\ DOMAIN object[o].headers
            \subseteq FieldNames \cup {ContentType, ContentLength, SetCookieName}
       /\ object[o].body \in {"", "hello", "json"}
       /\ object[o].code \in Statuses /\ object[o].version \in {"", "1.0", "1.1"}
       /\ object[o].message \in {"", "OK", "Fine"} \cup {MessageOf(code) : code \in Statuses}
  /\ cookie.attribute \in [Attributes -> {"", "None", "Lax", "yes"}]
  /\ cookie.value \in {"", "7", "8"}
  /\ Len(sent) + Len(calls) <= MaxEvents

Init ==
  /\ phase = "reading"
  /\ headers = NoFields /\ body = ""
  /\ object = [o \in Objects |-> NewResponse]
  /\ cookie = NewCookie("id", "7")
  /\ answer = NoAnswer
  /\ sent = <<>> /\ calls = <<>>

Room == Len(sent) + Len(calls) < MaxEvents

-----------------------------------------------------------------------------
(* HttpRequest::HttpRequest *)

\* The router catches what left the constructor or the handler.
AnswerError == phase' = "answered" /\ answer' = to_string(ErrorResponse(500))

ReadLine(line) ==
  /\ phase = "reading" /\ Room
  /\ ~Malformed(line)
  /\ headers' = WithLine(headers, line)
  /\ sent' = Append(sent, line)
  /\ UNCHANGED <<phase, body, object, cookie, answer, calls>>

LineRefused(line) ==
  /\ phase = "reading" /\ Room
  /\ Malformed(line)
  /\ AnswerError
  /\ sent' = Append(sent, line)
  /\ UNCHANGED <<headers, body, object, cookie, calls>>

HeadersEnd ==
  /\ phase = "reading" /\ phase' = "handling"
  /\ sent # <<>>
  /\ body' \in Bodies
  /\ UNCHANGED <<headers, object, cookie, answer, sent, calls>>

\* Without headers the blank line begins before they do; the length of their
\* section wraps, and the blank line is read as a line without a colon.
NoHeaders ==
  /\ phase = "reading"
  /\ sent = <<>>
  /\ AnswerError
  /\ UNCHANGED <<headers, body, object, cookie, sent, calls>>

-----------------------------------------------------------------------------
(* The calls of a handler. *)

NoName == Lower("")

Made(on, call, name, value) ==
  /\ phase = "handling" /\ Room
  /\ calls' = Append(calls, [on |-> on, call |-> call, name |-> name,
                             value |-> value, threw |-> FALSE])
  /\ UNCHANGED <<phase, answer, body, sent>>

\* A call that throws leaves the objects alone; the handler catches, or not.
Threw(on, call, name, value) ==
  /\ phase = "handling" /\ Room
  /\ calls' = Append(calls, [on |-> on, call |-> call, name |-> name,
                             value |-> value, threw |-> TRUE])
  /\ UNCHANGED <<phase, answer>> \/ AnswerError
  /\ UNCHANGED <<headers, body, object, cookie, sent>>

\* A copy of the request (the router hands it over as const).
SetRequestHeader(name, value) ==
  /\ Made("request", "set_header", name, value)
  /\ headers' = WithHeader(headers, name, value)
  /\ UNCHANGED <<object, cookie>>

\* get_query(name).as<type>(), asked with the name the template gives p.
ReadQuery(p, type) ==
  LET result == Converted(get_query(Assigned(NoFields, p.name, p.content), p.name), type)
  IN IF "is" \in DOMAIN result
     THEN /\ Made("query", type, p.name, <<p.content, result.is>>)
          /\ UNCHANGED <<headers, object, cookie>>
     ELSE Threw("query", type, p.name, <<p.content>>)

Changed(o, call, name, value, new) ==
  /\ Made(o, call, name, value)
  /\ object' = [object EXCEPT ![o] = new]
  /\ UNCHANGED <<headers, cookie>>

\* What the builder forwards to its response, and the response itself has.
SetBody(o, text) == Changed(o, "set_body", NoName, text, WithBody(object[o], text))
SetBodyJson(o) == Changed(o, "set_body", NoName, "json", WithBody(object[o], "json"))
SetStatus(o, code) == Changed(o, "set_status", NoName, code, WithStatus(object[o], code))
SetCustomMessage(o, text) ==
  Changed(o, "set_custom_message", NoName, text, WithMessage(object[o], text))
SetContentType(o, type) ==
  Changed(o, "set_header", ContentType, Plain(type),
          WithField(object[o], ContentType, Plain(type)))

SetVersion(version) ==
  Changed("response", "set_version", NoName, version, WithVersion(object.response, version))

SetHeader(name, value) ==
  IF name = SetCookieName THEN Threw("response", "set_header", name, value)
  ELSE Changed("response", "set_header", name, value, WithField(object.response, name, value))

\* By HeaderType, which also has SET_COOKIE.
SetHeaderType(name, value) ==
  Changed("response", "set_header", name, value, WithField(object.response, name, value))

RemoveHeader(name) ==
  Changed("response", "remove_header", name, "", WithoutField(object.response, name))

\* One cookie for a response: a second one replaces it.
SetCookie ==
  IF empty_cookie(cookie) THEN Threw("response", "set_cookie", SetCookieName, "")
  ELSE Changed("response", "set_cookie", SetCookieName, "",
               WithField(object.response, SetCookieName, Baked(cookie)))

Build ==
  /\ Made("builder", "build", NoName, "")
  /\ object' = [builder |-> MovedFrom(object.builder), response |-> object.builder]
  /\ UNCHANGED <<headers, cookie>>

SetCookieValue(value) ==
  /\ Made("cookie", "set_value", NoName, value)
  /\ cookie' = [cookie EXCEPT !.value = value]
  /\ UNCHANGED <<headers, object>>

SetAttribute(a, v) ==
  /\ Made("cookie", a, NoName, v)
  /\ cookie' = WithAttribute(cookie, a, v)
  /\ UNCHANGED <<headers, object>>

-----------------------------------------------------------------------------
(* The end of the exchange. *)

Respond ==
  /\ phase = "handling" /\ phase' = "answered"
  /\ answer' = to_string(object.response)
  /\ UNCHANGED <<headers, body, object, cookie, sent, calls>>

\* No handle matches the path: the request is not even parsed.
NotFound ==
  /\ phase = "reading" /\ sent = <<>> /\ phase' = "answered"
  /\ answer' = to_string(ErrorResponse(404))
  /\ UNCHANGED <<headers, body, object, cookie, sent, calls>>

\* A filter says no before the handler has done anything.
Refuse ==
  /\ phase = "handling" /\ calls = <<>> /\ phase' = "answered"
  /\ answer' = to_string(ErrorResponse(403))
  /\ UNCHANGED <<headers, body, object, cookie, sent, calls>>

Request ==
  \/ \E line \in Lines : ReadLine(line) \/ LineRefused(line)
  \/ HeadersEnd \/ NoHeaders
  \/ SetRequestHeader(Title("x-user"), "ann") \/ SetRequestHeader(Lower("x-user"), "ann")
  \/ \E p \in Parameters, type \in {"int", "int64_t"} : ReadQuery(p, type)

Answer ==
  \/ \E o \in Objects :
       \/ SetBody(o, "hello") \/ SetBodyJson(o)
       \/ \E code \in Statuses : SetStatus(o, code)
       \/ SetCustomMessage(o, "Fine") \/ SetContentType(o, "text/html")
  \/ \E name \in FieldNames :
       SetHeader(name, Plain("2")) \/ SetHeaderType(name, Plain("5")) \/ RemoveHeader(name)
  \/ SetVersion("1.0") \/ SetCookie \/ Build
  \/ \E value \in {"", "8"} : SetCookieValue(value)
  \/ SetAttribute("SameSite", "Lax") \/ \E v \in {"", "yes"} : SetAttribute("Secure", v)
  \/ Respond \/ Refuse \/ NotFound

Next == Request \/ Answer

Spec == Init /\ [][Next]_vars

-----------------------------------------------------------------------------
(* Properties. *)

Handled == phase = "handling"
LastOf(S) == IF S = {} THEN 0 ELSE Max(S)

\* What get_header must give for a name.  The last value a handler set under it,
\* if the name was written in lower case; else that of the first line that has
\* the name, however line and question spell it.
FirstLine(name) ==
  {i \in DOMAIN sent : /\ to_lowercase_str(sent[i].name) = Lower(name.key)
                       /\ \A j \in 1 .. i - 1 : sent[j].name.key # name.key}
SetLast(name) ==
  LastOf({i \in DOMAIN calls : calls[i].on = "request" /\ calls[i].name = Lower(name.key)})

\* A handler finds the header a client sent under any spelling, whatever other
\* lines surround it, if a blank follows its colon: the first line of a name
\* counts.  (Without the blank the value loses a character; cookies are dropped;
\* what a handler sets under a name with a capital letter is never found.)
HeaderRead ==
  Handled =>
    \A name \in {sent[i].name : i \in DOMAIN sent} \cup {Title("x-user"), Title("host")} :
      LET found == get_header(headers, name)
      IN IF SetLast(name) # 0 THEN found = calls[SetLast(name)].value
         ELSE IF name.key = "cookie" \/ FirstLine(name) = {} THEN found = None
         ELSE \A i \in FirstLine(name) : sent[i].form = "spaced" => found = sent[i].value

Builds == {i \in DOMAIN calls : calls[i].call = "build"}

\* The calls the response in hand is made by, if its builder built it only.
Effective ==
  {i \in DOMAIN calls :
     /\ ~calls[i].threw
     /\ \/ calls[i].on = "response" /\ \A b \in Builds : b < i
        \/ calls[i].on = "builder" /\ \E b \in Builds : i < b}

\* What a response is to be if, of a history h, the calls in E have effect.
LastCall(h, E, names) == LastOf({i \in E : h[i].call \in names})

BodyAsked(h, E) == LET i == LastCall(h, E, {"set_body"}) IN IF i = 0 THEN "" ELSE h[i].value
CodeAsked(h, E) == LET i == LastCall(h, E, {"set_status"}) IN IF i = 0 THEN 200 ELSE h[i].value
VersionAsked(h, E) ==
  LET i == LastCall(h, E, {"set_version"}) IN IF i = 0 THEN "1.1" ELSE h[i].value
MessageAsked(h, E) ==
  LET i == LastCall(h, E, {"set_status", "set_custom_message"})
  IN IF i = 0 THEN "OK"
     ELSE IF h[i].call = "set_status" THEN MessageOf(h[i].value) ELSE h[i].value

\* The cookie as its setters had left it before call i.
AttributeCall(h, a, i) == LastOf({j \in 1 .. i - 1 : h[j].on = "cookie" /\ h[j].call = a})
CookieAsked(h, i) ==
  LET value == AttributeCall(h, "set_value", i)
      set == {a \in Attributes : AttributeCall(h, a, i) # 0}
      text(a) == IF AttributeCall(h, a, i) # 0 THEN h[AttributeCall(h, a, i)].value ELSE "None"
  IN [name |-> "id", value |-> IF value = 0 THEN "7" ELSE h[value].value,
      attributes |-> {<<a, text(a)>> : a \in {b \in set \cup (IF set = {} THEN {} ELSE {"SameSite"}) :
                                                 text(b) # ""}}]

FieldCall(h, E, name) ==
  LastOf({i \in E : h[i].name = name /\ h[i].call \in {"set_header", "remove_header", "set_cookie"}})
FieldAsked(h, E, name) ==
  LET i == FieldCall(h, E, name)
  IN IF i = 0 THEN IF name = ContentType THEN {Plain("text/plain")} ELSE {}
     ELSE IF h[i].call = "remove_header" THEN {}
     ELSE IF h[i].call = "set_cookie" THEN {[text |-> "", cookie |-> {CookieAsked(h, i)}]}
     ELSE {h[i].value}

FieldIs(resp, name) == IF name \in DOMAIN resp.headers THEN {resp.headers[name]} ELSE {}

AsAsked(resp, h, E) ==
  /\ resp.body = BodyAsked(h, E) /\ resp.code = CodeAsked(h, E)
  /\ resp.message = MessageAsked(h, E) /\ resp.version = VersionAsked(h, E)
  /\ \A name \in FieldNames \cup {ContentType, ContentLength, SetCookieName} :
       FieldIs(resp, name) = FieldAsked(h, E, name)

\* A response is what its handler asked for last, however the calls of builder,
\* response and cookie were interleaved; a call that threw and was caught has no
\* part in it, and the cookie is the one of the moment it was set.
AsCalled ==
  Handled /\ Cardinality(Builds) <= 1 => AsAsked(object.response, calls, Effective)

\* A client can tell where an answer ends: it has one Content-Length, in any
\* spelling, and that is the length of its body, unless the handler set a
\* header of that name itself; also if the builder was used again after build.
Framed ==
  phase = "answered" /\ ~(\E i \in Effective : calls[i].name.key = "content-length"
                                                 /\ calls[i].call = "set_header") =>
    /\ {n \in DOMAIN answer.headers : n.key = "content-length"} = {ContentLength}
    /\ answer.headers[ContentLength] = Plain(Size[answer.body])

\* tests/httprequest_test.cpp:188, ASSERT_TRUE(request.body_as_json()), of a
\* request with "Content-Type: application/json" and a JSON body.
JsonRead ==
  Handled /\ body = "json" /\ get_header(headers, ContentType) = "application/json" =>
    body_as_json(headers, body) # None
=============================================================================
