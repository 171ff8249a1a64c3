--------------------------- MODULE MCHttpExchange ---------------------------
(* HttpExchange for TLC. *)
EXTENDS HttpExchange, TLC

Line(form, name, value) == [form |-> form, name |-> name, value |-> value]

SomeLines ==
  { Line("spaced", Title("host"), "here"), Line("spaced", Lower("host"), "there"),
    Line("tight", Title("host"), "here"), Line("spaced", Title("cookie"), "id=7"),
    Line("spaced", ContentType, "application/json"),
    Line("empty", Title("host"), ""), Line("bare", NoName, "") }

Parameter(name, form, number) ==
  [name |-> name, content |-> [form |-> form, number |-> number]]

SomeParameters ==
  { Parameter(Lower("id"), "", 0), Parameter(Lower("id"), "number", 4),
    Parameter(Lower("id"), "mixed", -4), Parameter(Lower("id"), "number", 8),
    Parameter(Title("userId"), "number", 1) }

SomeNames == {ContentLength, Lower("content-length"), SetCookieName}

BodySizes == "" :> "0" @@ "hello" :> "5" @@ "json" :> "2"
=============================================================================
