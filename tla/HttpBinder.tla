----------------------------- MODULE HttpBinder -----------------------------
(***************************************************************************)
(* include/weblib/server/HttpBinder.hpp: the table of handles that         *)
(* controllers and filters fill and requests are looked up in, down to the *)
(* parameters HttpRequest reads for the handle that was found.  The pure   *)
(* functions are those of Routes.                                          *)
(***************************************************************************)
EXTENDS Routes

CONSTANTS
  Templates,   \* the templates user code registers
  MethodSets,  \* the sets of methods it registers them for
  Filters,     \* the filters it registers
  MaxFilters,  \* a bound on the filters of one handle
  Methods,     \* methods requests have
  Urls         \* URLs requests ask for

Token == [lit : STRING, par : STRING]
Piece == [lit : Seq(STRING), par : STRING]

ASSUME BinderAssumption ==
  /\ Templates \subseteq [path : Seq(Token), ask : BOOLEAN, query : Seq(Piece)]
  /\ Urls \subseteq [path : Seq(STRING), ask : BOOLEAN, query : Seq(Seq(STRING))]
  /\ \A t \in Templates : t.query # <<>> => t.ask
  /\ \A url \in Urls : url.query # <<>> => url.ask
  /\ MaxFilters \in Nat

VARIABLES
  handles,  \* m_handles
  last,     \* the last call, and what came of it
  guards,   \* history: the filters whose registration was accepted, by key
  up        \* the process has not been terminated

vars == <<handles, last, guards, up>>

Handle == [template : Templates, methods : MethodSets, filters : Seq(Filters)]

TypeOK ==
  /\ DOMAIN handles \subseteq {Processed(t) : t \in Templates}
  /\ \A k \in DOMAIN handles : handles[k] \in Handle
  /\ last.call \in {"none", "request"}
  /\ guards \subseteq ({Processed(t) : t \in Templates} \X Filters)
  /\ up \in BOOLEAN

NoCall == [call |-> "none"]

Init ==
  /\ handles = <<>>
  /\ last = NoCall
  /\ guards = {}
  /\ up = TRUE

-----------------------------------------------------------------------------
NoMethods(t, methods) == [template |-> t, methods |-> {}, filters |-> <<>>]  \* mutant of NewHandle
NewHandle(t, methods) == [template |-> t, methods |-> methods, filters |-> <<>>]

\* Mutant of Emplaced: operator[].
Overwritten(key, handle) ==
  [k \in DOMAIN handles \cup {key} |-> IF k = key THEN handle ELSE handles[k]]

Emplaced(key, handle) ==
  [k \in DOMAIN handles \cup {key} |-> IF k \in DOMAIN handles THEN handles[k] ELSE handle]

\* register_handler looks for the raw name, which is a key only without
\* parameters, and emplaces under the processed one: what is there stays.
AlreadySet(t) == Unnamed(t) /\ Processed(t) \in DOMAIN handles

RegisterHandler(t, methods) ==
  /\ up
  /\ ~AlreadySet(t)
  /\ handles' = Emplaced(Processed(t), NewHandle(t, methods))
  /\ last' = NoCall
  /\ UNCHANGED <<guards, up>>

\* endpoint_already_set
RegisterRefused(t) ==
  /\ up
  /\ AlreadySet(t)
  /\ last' = NoCall
  /\ UNCHANGED <<handles, guards, up>>

RegisterFilter(t, f) ==
  LET key == Processed(t)
  IN /\ up
     /\ key \in DOMAIN handles
     /\ Len(handles[key].filters) < MaxFilters
     /\ handles' = [handles EXCEPT ![key].filters = Append(@, f)]
     /\ guards' = guards \cup {<<key, f>>}
     /\ last' = NoCall
     /\ UNCHANGED up

\* filter_before_controller
FilterRefused(t) ==
  /\ up
  /\ Processed(t) \notin DOMAIN handles
  /\ last' = NoCall
  /\ UNCHANGED <<handles, guards, up>>

-----------------------------------------------------------------------------
WithMethod(m) == {k \in DOMAIN handles : m \in handles[k].methods}

Matching(url, m) == {k \in WithMethod(m) : ~Undefined(k, url) /\ MatchPath(k, url)}

\* find_handle returns the first match in the order of an unordered_map: any;
\* HttpRequest then reads the parameters of its template.
Find(url, m) ==
  /\ up
  /\ \E k \in Matching(url, m) :
       last' = [call |-> "request", url |-> url, method |-> m, found |-> TRUE,
                handle |-> handles[k], key |-> k,
                outcome |-> IF Parses(handles[k].template, url) THEN "read" ELSE "queryError"]
  /\ UNCHANGED <<handles, guards, up>>

FindNothing(url, m) ==
  /\ up
  /\ \A k \in WithMethod(m) : ~Undefined(k, url)
  /\ Matching(url, m) = {}
  /\ last' = [call |-> "request", url |-> url, method |-> m, found |-> FALSE]
  /\ UNCHANGED <<handles, guards, up>>

\* An empty piece of the query, before a match was found.
FindUndefined(url, m) ==
  /\ up /\ up' = FALSE
  /\ \E k \in WithMethod(m) : Undefined(k, url)
  /\ last' = NoCall
  /\ UNCHANGED <<handles, guards>>

Register ==
  \E t \in Templates :
    \/ \E methods \in MethodSets : RegisterHandler(t, methods)
    \/ RegisterRefused(t)
    \/ \E f \in Filters : RegisterFilter(t, f)
    \/ FilterRefused(t)

Lookup ==
  \E url \in Urls, m \in Methods : Find(url, m) \/ FindNothing(url, m) \/ FindUndefined(url, m)

Next == Register \/ Lookup

Spec == Init /\ [][Next]_vars

-----------------------------------------------------------------------------
(* Properties. *)

Once(tokens) ==
  \A i, j \in DOMAIN tokens : tokens[i].par = tokens[j].par /\ i # j => tokens[i].par = NoName

\* A template that means what it says: the names in its braces differ, the braces
\* fill a whole segment or value, and every piece of its query is k=v, with
\* keys that differ from each other and, the fixed ones, from the names.
Plain(t) ==
  /\ Once(t.path) /\ Once(t.query) /\ NamesIn(t.path) \cap NamesIn(t.query) = {}
  /\ \A i \in DOMAIN t.path : t.path[i].lit = "{}" <=> t.path[i].par # NoName
  /\ \A i \in DOMAIN t.query :
       /\ Len(t.query[i].lit) = 2
       /\ t.query[i].lit[2] = "{}" <=> t.query[i].par # NoName
       /\ t.query[i].par = NoName => t.query[i].lit[1] \notin Names(t)
  /\ \A i, j \in DOMAIN t.query : t.query[i].lit[1] = t.query[j].lit[1] => i = j

\* A URL whose query has a value for every key, each key once.
PlainUrl(url) ==
  /\ \A i \in DOMAIN url.query : Len(url.query[i]) = 2
  /\ \A i, j \in DOMAIN url.query : url.query[i][1] = url.query[j][1] => i = j

\* The template t with values for its parameters.
Filled(token, value) == IF token.par = NoName THEN token.lit ELSE value[token.par]
FilledPath(t, value) == [i \in DOMAIN t.path |-> Filled(t.path[i], value)]
FilledQuery(t, value) ==
  [i \in DOMAIN t.query |->
     IF t.query[i].par = NoName THEN t.query[i].lit
     ELSE <<t.query[i].lit[1], value[t.query[i].par]>>]

Values(url) == {url.path[i] : i \in Solid(url.path)} \cup {url.query[i][2] : i \in DOMAIN url.query}

\* Two paths are the same up to empty segments, those of the first by Solid(lits).
SamePath(lits, filled, path) ==
  /\ Cardinality(Solid(lits)) = Cardinality(Solid(path))
  /\ \A i \in Solid(lits), j \in Solid(path) :
       Place(lits, i) = Place(path, j) => filled[i] = path[j]

\* What routing promises: the URL is the template with some values, up to empty
\* segments and the order of the query, which is free if the template has none.
Asks(url, t) ==
  \E value \in [Names(t) -> Values(url)] :
    /\ SamePath(Lits(t.path), FilledPath(t, value), url.path)
    /\ t.ask => url.query # <<>> /\ ToSet(FilledQuery(t, value)) = ToSet(url.query)

\* A request is routed to a handle of its method whose template it asks for, and
\* it is answered 404 only if there is none.
RoutedAsAsked ==
  last.call = "request" /\ PlainUrl(last.url) =>
    IF last.found
    THEN /\ last.method \in last.handle.methods
         /\ Plain(last.handle.template) => Asks(last.url, last.handle.template)
    ELSE \A k \in WithMethod(last.method) :
           Plain(handles[k].template) => ~Asks(last.url, handles[k].template)

\* The request has slashes and keys where the template has them.
Aligned(t, url) ==
  /\ \A i \in DOMAIN t.path \cap DOMAIN url.path : t.path[i].lit = "" <=> url.path[i] = ""
  /\ \A i \in DOMAIN t.query \cap DOMAIN url.query : t.query[i].lit[1] = url.query[i][1]

\* Reading parameters undoes writing the URL: filling the template with the
\* values the handler gets gives back the request, if it is aligned with the
\* template.  (With its keys in another order, or its slashes doubled elsewhere,
\* it is routed all the same, and the values are given to the wrong names.)
BoundAsWritten ==
  last.call = "request" /\ last.found =>
    LET t == last.handle.template
        value == Bound(t, last.url)
    IN last.outcome = "read" /\ Plain(t) /\ Names(t) # {} /\ Aligned(t, last.url) =>
         FilledPath(t, value) = last.url.path /\ FilledQuery(t, value) = last.url.query

\* A filter that was accepted guards its route for good: every request routed
\* there later meets it, whatever was registered in between.
GuardsStay ==
  last.call = "request" /\ last.found =>
    \A f \in Filters : <<last.key, f>> \in guards => f \in ToSet(last.handle.filters)

\* An endpoint that is served stays served as it was first registered: no later
\* registration, the silently dropped ones included, changes its template, the
\* parameter names its handler reads, or its methods.
FirstRegistrationStays ==
  [][\A k \in DOMAIN handles :
       /\ k \in DOMAIN handles'
       /\ handles'[k].template = handles[k].template
       /\ handles'[k].methods = handles[k].methods]_vars

\* HttpQuery.cpp:20, "parameters stores id, user from api/{id}/{user}": parameters
\* of a path can be read without there being a query.
PathParametersRead ==
  last.call = "request" /\ last.found =>
    (last.handle.template.query = <<>> => last.outcome = "read")
=============================================================================
