------------------------------- MODULE Routes -------------------------------
(***************************************************************************)
(* The pure part of routing: what a template becomes when it is registered *)
(* (process_url_str, extract_params), when a request matches it            *)
(* (HttpBinder::match_path) and which values its parameters are given      *)
(* (HttpQuery::parse_from_string).                                         *)
(*                                                                         *)
(* A URL is split where the code splits it.  `path` is what split('/')     *)
(* makes of the text behind the first slash, "" where two slashes meet;    *)
(* `ask` tells whether there is a '?', and `query` is what split('&')      *)
(* makes of the text behind it, each piece split('=') again: <<"k", "v">>  *)
(* for k=v, <<"k">> for k, and <<>> for nothing between two '&'.           *)
(* In a template every segment and piece is [lit, par]: its text once      *)
(* process_url_str has emptied the braces, and the name that was in them,  *)
(* "" for {}, NoName if there were no braces.                              *)
(***************************************************************************)
EXTENDS Naturals, Sequences, SequencesExt

NoName == "}"  \* nothing between braces is

Lits(tokens) == [i \in DOMAIN tokens |-> tokens[i].lit]

\* process_url_str: the key of m_handles.
Processed(t) == [path |-> Lits(t.path), ask |-> t.ask, query |-> Lits(t.query)]

\* extract_params; each name is kept where it is written.
NamesIn(tokens) == {tokens[i].par : i \in DOMAIN tokens} \ {NoName}
Names(t) == NamesIn(t.path) \cup NamesIn(t.query)

\* The raw text of t is the same as its processed text.
Unnamed(t) == Names(t) \subseteq {""}

\* The segments split_path keeps, and the place of segment i among them.
Solid(path) == {i \in DOMAIN path : path[i] # ""}
Place(path, i) == Cardinality({j \in Solid(path) : j <= i})

\* zip of what is kept of both; mutant of SegmentsMatch: no comparison of sizes.
SegmentsZip(pattern, path) ==
  \A i \in Solid(pattern), j \in Solid(path) :
    Place(pattern, i) = Place(path, j) => pattern[i] \in {"{}", path[j]}

SegmentsMatch(pattern, path) ==
  /\ Cardinality(Solid(pattern)) = Cardinality(Solid(path))
  /\ SegmentsZip(pattern, path)

\* parse_query: a map, in which the first of two equal keys stays.
Keys(query) == {query[i][1] : i \in DOMAIN query}
ValueOf(query, key) == Last(query[SelectInSeq(query, LAMBDA p : p[1] = key)])

QueryMatches(pattern, query) ==
  /\ query # <<>>
  /\ Cardinality(Keys(pattern)) = Cardinality(Keys(query))
  /\ \A key \in Keys(pattern) :
       /\ key \in Keys(query)
       /\ ValueOf(pattern, key) \in {"{}", ValueOf(query, key)}

\* front() of an empty piece is undefined; taken to end the process.
Undefined(pattern, url) ==
  /\ SegmentsMatch(pattern.path, url.path)
  /\ pattern.ask /\ <<>> \in ToSet(url.query)

MatchPath(pattern, url) ==
  /\ SegmentsMatch(pattern.path, url.path)
  /\ pattern.ask => QueryMatches(pattern.query, url.query)

-----------------------------------------------------------------------------
(* parse_from_string of a request for the template t. *)

\* What keeps it from throwing: no parameter is read unless both URLs have a '?',
\* and here empty segments count.
Parses(t, url) ==
  \/ Names(t) = {}
  \/ /\ t.ask /\ url.ask
     /\ Len(t.path) = Len(url.path)
     /\ Len(t.query) = Len(url.query)
     /\ \A i \in DOMAIN t.query : Len(t.query[i].lit) = 2 /\ Len(url.query[i]) = 2

\* A segment without braces gives nothing; a piece without braces, its own key.
FromPath(t, url) ==
  [i \in DOMAIN t.path |->
     [from |-> IF t.path[i].par # NoName THEN "braces" ELSE "text",
      name |-> t.path[i].par, value |-> url.path[i]]]

\* Mutant of FromQuery: front() instead of back().
KeysForValues(t, url) ==
  [i \in DOMAIN t.query |->
     [from |-> "query", value |-> url.query[i][1],
      name |-> IF t.query[i].par # NoName THEN t.query[i].par ELSE url.query[i][1]]]

FromQuery(t, url) ==
  [i \in DOMAIN t.query |->
     [from |-> "query", value |-> url.query[i][2],
      name |-> IF t.query[i].par # NoName THEN t.query[i].par ELSE url.query[i][1]]]

\* What the two loops emplace, in their order.
Emplacements(t, url) == FromPath(t, url) \o FromQuery(t, url)

\* m_parameters: the names are the keys, the first value of each stays.
Bound(t, url) ==
  LET entries == Emplacements(t, url)
  IN IF Names(t) = {} THEN <<>>
     ELSE [n \in {entries[i].name : i \in {j \in DOMAIN entries : entries[j].from # "text"}} |->
             entries[SelectInSeq(entries, LAMBDA e : e.from # "text" /\ e.name = n)].value]
=============================================================================
