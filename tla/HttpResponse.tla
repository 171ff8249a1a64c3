---------------------------- MODULE HttpResponse ----------------------------
(***************************************************************************)
(* HttpResponse, HttpResponseBuilder and Cookie as values: what each of    *)
(* their methods makes of the object it is called on.                      *)
(***************************************************************************)
EXTENDS HttpHeaders

CONSTANT Size  \* the length of each body, as a header value

ContentType == Title("content-type")
ContentLength == Title("content-length")
SetCookieName == Title("set-cookie")

-----------------------------------------------------------------------------
(* Cookie *)

Attributes == {"Max-Age", "Secure", "HttpOnly", "Path", "Domain", "SameSite"}

\* "" stands for an attribute to_string leaves out; SameSite is always one of three.
NewCookie(name, value) ==
  [name |-> name, value |-> value, response |-> FALSE,
   attribute |-> [a \in Attributes |-> IF a = "SameSite" THEN "None" ELSE ""]]

WithAttribute(cookie, a, v) == [cookie EXCEPT !.attribute[a] = v, !.response = TRUE]

empty_cookie(cookie) == cookie.name = "" \/ cookie.value = ""

\* What the name and value are followed by, in the order of the code.
CookieText(cookie) ==
  [name |-> cookie.name, value |-> cookie.value,
   attributes |-> IF cookie.response
                  THEN {<<a, cookie.attribute[a]>> : a \in {b \in Attributes : cookie.attribute[b] # ""}}
                  ELSE {}]

\* A header that is not a cookie, and one that is, for values of one kind.
Plain(text) == [text |-> text, cookie |-> {}]
Baked(cookie) == [text |-> "", cookie |-> {CookieText(cookie)}]

-----------------------------------------------------------------------------
(* HttpResponse *)

NewResponse ==
  [headers |-> Assigned(NoFields, ContentType, Plain("text/plain")), body |-> "",
   code |-> 200, message |-> "OK", version |-> "1.1"]

WithField(resp, name, value) == [resp EXCEPT !.headers = Assigned(@, name, value)]
WithBody(resp, body) == [resp EXCEPT !.body = body]
WithVersion(resp, version) == [resp EXCEPT !.version = version]
WithMessage(resp, message) == [resp EXCEPT !.message = message]

WithoutField(resp, name) ==
  [resp EXCEPT !.headers = [n \in DOMAIN @ \ {name} |-> @[n]]]

\* The switch of set_status; its messages are written without their blanks.
MessageOf(code) ==
  CASE code = 200 -> "OK" [] code = 201 -> "Created" [] code = 204 -> "NoContent"
    [] code = 400 -> "BadRequest" [] code = 401 -> "Unauthorized"
    [] code = 403 -> "Forbidden" [] code = 404 -> "NotFound"
    [] code = 405 -> "MethodNotAllowed" [] code = 500 -> "InternalServerError"
    [] code = 502 -> "BadGateway" [] code = 503 -> "ServiceUnavailable"
    [] code = 504 -> "GatewayTimeout" [] OTHER -> "Unknown"

StatusOnly(resp, code) == [resp EXCEPT !.code = code]  \* mutant of WithStatus
WithStatus(resp, code) == [resp EXCEPT !.code = code, !.message = MessageOf(code)]

\* What build() leaves in the builder: std::move empties strings and tables
\* (external: libstdc++), and the status stays.
MovedFrom(resp) ==
  [resp EXCEPT !.headers = NoFields, !.body = "", !.message = "", !.version = ""]

\* Mutant of to_string: a length that was computed once is kept.
StaleLength(resp) ==
  [resp EXCEPT !.headers = Assigned(@, ContentLength, Plain(Size[""]))]

\* Content-Length is added unless a header of exactly that name is there.
to_string(resp) ==
  [resp EXCEPT !.headers = Emplaced(@, ContentLength, Plain(Size[resp.body]))]

\* The router's answers of its own: 403, 404 and 500.
ErrorResponse(code) ==
  WithField(WithBody(WithStatus(NewResponse, code), "json"), ContentType, Plain("text/plain"))
=============================================================================
