---------------------------- MODULE HttpHeaders ----------------------------
(***************************************************************************)
(* What a request knows of its text: HttpHeaders (its table, filled line   *)
(* by line), HttpRequest::body_as_json, HttpQuery::get_query and the       *)
(* conversions of Query.  A name is its key, and whether it is written in  *)
(* lower case only; a line is what the parser tells apart.                 *)
(***************************************************************************)
EXTENDS Integers, Sequences

CONSTANTS IntMax,  \* the largest int, scaled down
          LongMax  \* the largest int64_t

ASSUME RangeAssumption == IntMax \in Nat /\ LongMax \in Nat /\ IntMax < LongMax

Within(number, largest) == number \in -largest - 1 .. largest

Lower(key) == [key |-> key, lower |-> TRUE]
Title(key) == [key |-> key, lower |-> FALSE]  \* as consts.hpp spells it

AsSpelled(name) == name  \* mutant of to_lowercase_str
to_lowercase_str(name) == Lower(name.key)

None == "nullopt"
Cut == "shortened"  \* a value without its first character

\* A table of names, and what emplace and operator[] make of it.
NoFields == [n \in {} |-> None]
Assigned(table, name, value) ==
  [n \in DOMAIN table \cup {name} |-> IF n = name THEN value ELSE table[n]]
Emplaced(table, name, value) ==
  IF name \in DOMAIN table THEN table ELSE Assigned(table, name, value)

-----------------------------------------------------------------------------
(* A line is "bare" (it has no colon), "empty" (nothing follows the colon), *)
(* "tight" (no blank follows it) or "spaced".                               *)

\* header_parsing_error; for "empty" the range that starts two characters after
\* the colon ends before it starts: length_error (external: std::string).
Malformed(line) == line.form \in {"bare", "empty"}

ValueOfLine(line) == IF line.form = "tight" THEN Cut ELSE line.value

\* Mutant of WithLine: a repeated name replaces what is there.
WithLineReplacing(headers, line) ==
  Assigned(headers, to_lowercase_str(line.name), ValueOfLine(line))

\* The first line of a name is kept; cookies are not kept at all.
WithLine(headers, line) ==
  IF to_lowercase_str(line.name) = Lower("cookie") THEN headers
  ELSE Emplaced(headers, to_lowercase_str(line.name), ValueOfLine(line))

\* HttpRequest::set_header stores the name as it is written.
WithHeader(headers, name, value) == Assigned(headers, name, value)

get_header(headers, name) ==
  IF to_lowercase_str(name) \in DOMAIN headers THEN headers[to_lowercase_str(name)] ELSE None

\* It asks for a header of that name, where it means a Content-Type of that value.
body_as_json(headers, body) ==
  IF Lower("application/json") \in DOMAIN headers /\ body = "json" THEN body ELSE None

-----------------------------------------------------------------------------
(* The parameters, as parse_from_string leaves them: their names are stored *)
(* as the template spells them, and looked up in lower case.  A content is  *)
(* "", a "text", a "number", or "mixed": a number that something follows.   *)

NoContent == [form |-> "", number |-> 0]

get_query(parameters, name) ==
  IF to_lowercase_str(name) \in DOMAIN parameters THEN parameters[to_lowercase_str(name)]
  ELSE NoContent

\* as<int> and as<int64_t>: stoi and stoll (external) read as far as they can.
Converted(content, type) ==
  IF content.form \notin {"number", "mixed"} THEN [throws |-> "invalid_argument"]
  ELSE IF ~Within(content.number, IF type = "int" THEN IntMax ELSE LongMax)
       THEN [throws |-> "out_of_range"]
  ELSE [is |-> content.number]
=============================================================================
