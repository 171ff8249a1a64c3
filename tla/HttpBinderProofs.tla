-------------------------- MODULE HttpBinderProofs --------------------------
(***************************************************************************)
(* Theorems about HttpBinder, for any templates, methods, filters and      *)
(* URLs, and any number of registrations.                                  *)
(***************************************************************************)
EXTENDS HttpBinder, DataLemmas

\* A handle is stored under the processed text of its own template.
KeysAreTemplates == \A k \in DOMAIN handles : Processed(handles[k].template) = k

\* What was registered as a filter of a key is a filter of the handle under it.
GuardsAreFilters ==
  \A k, f : <<k, f>> \in guards => k \in DOMAIN handles /\ f \in ToSet(handles[k].filters)

\* Inductive on its own.
BInv == TypeOK /\ KeysAreTemplates /\ GuardsAreFilters

\* The table starts empty.
LEMMA InitBInv == Init => BInv
BY DEF Init, NoCall, BInv, TypeOK, KeysAreTemplates, GuardsAreFilters

\* emplace adds a key if it is new and leaves what is there alone.
LEMMA EmplacedFacts ==
  ASSUME NEW key, NEW handle
  PROVE  /\ DOMAIN Emplaced(key, handle) = DOMAIN handles \cup {key}
         /\ \A k \in DOMAIN handles : Emplaced(key, handle)[k] = handles[k]
         /\ key \notin DOMAIN handles => Emplaced(key, handle)[key] = handle
BY DEF Emplaced

\* A new handle has its template, its methods and no filters.
LEMMA NewHandleFacts ==
  ASSUME NEW t \in Templates, NEW methods \in MethodSets
  PROVE  NewHandle(t, methods) \in Handle /\ NewHandle(t, methods).template = t
BY DEF NewHandle, Handle

\* A filter is added behind those a handle has.
LEMMA FilterAdded ==
  ASSUME TypeOK, NEW key \in DOMAIN handles, NEW f \in Filters,
         handles' = [handles EXCEPT ![key].filters = Append(@, f)]
  PROVE  /\ DOMAIN handles' = DOMAIN handles
         /\ \A k \in DOMAIN handles :
              /\ handles'[k] \in Handle
              /\ handles'[k].template = handles[k].template
              /\ handles'[k].methods = handles[k].methods
              /\ ToSet(handles[k].filters) \subseteq ToSet(handles'[k].filters)
         /\ f \in ToSet(handles'[key].filters)
<1>1. handles[key] \in Handle
  BY DEF TypeOK
<1> DEFINE new == [handles[key] EXCEPT !.filters = Append(handles[key].filters, f)]
<1>2. /\ DOMAIN handles' = DOMAIN handles /\ handles'[key] = new
      /\ \A k \in DOMAIN handles : k # key => handles'[k] = handles[k]
  OBVIOUS
<1>3. /\ new \in Handle /\ new.template = handles[key].template
      /\ new.methods = handles[key].methods
      /\ new.filters = Append(handles[key].filters, f) /\ handles[key].filters \in Seq(Filters)
  <2>1. /\ handles[key].template \in Templates /\ handles[key].methods \in MethodSets
        /\ handles[key].filters \in Seq(Filters)
        /\ DOMAIN handles[key] = {"template", "methods", "filters"}
    BY <1>1 DEF Handle
  <2>2. Append(handles[key].filters, f) \in Seq(Filters)
    BY <2>1
  <2>3. new = [template |-> handles[key].template, methods |-> handles[key].methods,
               filters |-> Append(handles[key].filters, f)]
    <3> DEFINE h == handles[key]
    <3>1. h = [template |-> h.template, methods |-> h.methods, filters |-> h.filters]
      BY <1>1 DEF Handle
    <3>2. new = [h EXCEPT !.filters = Append(h.filters, f)]
      OBVIOUS
    <3> HIDE DEF h, new
    <3>3. new = [template |-> h.template, methods |-> h.methods, filters |-> Append(h.filters, f)]
      BY <3>1, <3>2
    <3> QED
      BY <3>3 DEF h
  <2> QED
    BY <2>1, <2>2, <2>3 DEF Handle
<1> HIDE DEF new
<1>4. ToSet(handles[key].filters) \subseteq ToSet(new.filters) /\ f \in ToSet(new.filters)
  <2> DEFINE s == handles[key].filters
  <2>1. s \in Seq(Filters) /\ new.filters = Append(s, f)
    BY <1>3
  <2> HIDE DEF s
  <2>2. /\ DOMAIN Append(s, f) = DOMAIN s \cup {Len(s) + 1} /\ Append(s, f)[Len(s) + 1] = f
        /\ \A i \in DOMAIN s : Append(s, f)[i] = s[i]
    BY <2>1
  <2>3. ToSet(s) \subseteq ToSet(Append(s, f)) /\ f \in ToSet(Append(s, f))
    BY <2>2 DEF ToSet
  <2> QED
    BY <2>1, <2>3 DEF s
<1> QED
  BY <1>2, <1>3, <1>4 DEF TypeOK

\* The steps that touch nothing but the last call.
LEMMA TableStep ==
  ASSUME [Next]_vars
  PROVE  \/ \E t \in Templates, methods \in MethodSets : RegisterHandler(t, methods)
         \/ \E t \in Templates, f \in Filters : RegisterFilter(t, f)
         \/ UNCHANGED <<handles, guards>>
<1>1. CASE Register
  BY <1>1 DEF Register, RegisterRefused, FilterRefused
<1>2. CASE Lookup
  BY <1>2 DEF Lookup, Find, FindNothing, FindUndefined
<1>3. CASE UNCHANGED vars
  BY <1>3 DEF vars
<1> QED
  BY <1>1, <1>2, <1>3 DEF Next

\* Every step keeps a call a call and the process up or down.
LEMMA CallStep ==
  ASSUME TypeOK, [Next]_vars
  PROVE  last'.call \in {"none", "request"} /\ up' \in BOOLEAN
<1>1. CASE Register
  BY <1>1 DEF Register, RegisterHandler, RegisterRefused, RegisterFilter, FilterRefused, NoCall, TypeOK
<1>2. ASSUME NEW url \in Urls, NEW m \in Methods, Find(url, m)
      PROVE  last'.call = "request" /\ up' = up
  BY <1>2 DEF Find
<1>4. ASSUME NEW url \in Urls, NEW m \in Methods, FindNothing(url, m)
      PROVE  last'.call = "request" /\ up' = up
  BY <1>4 DEF FindNothing
<1>5. ASSUME NEW url \in Urls, NEW m \in Methods, FindUndefined(url, m)
      PROVE  last'.call = "none" /\ up' = FALSE
  BY <1>5 DEF FindUndefined, NoCall
<1>3. CASE UNCHANGED vars
  BY <1>3 DEF vars, TypeOK
<1> QED
  BY <1>1, <1>2, <1>3, <1>4, <1>5 DEF Next, Lookup, TypeOK

\* Every step keeps the table.
LEMMA NextBInv == BInv /\ [Next]_vars => BInv'
<1> SUFFICES ASSUME BInv, [Next]_vars PROVE BInv'
  OBVIOUS
<1>1. last'.call \in {"none", "request"} /\ up' \in BOOLEAN
  BY CallStep DEF BInv
<1>2. ASSUME NEW t \in Templates, NEW methods \in MethodSets, RegisterHandler(t, methods)
      PROVE  BInv'
  <2> DEFINE key == Processed(t)
             handle == NewHandle(t, methods)
  <2>1. handles' = Emplaced(key, handle) /\ UNCHANGED guards
    BY <1>2 DEF RegisterHandler
  <2>2. handle \in Handle /\ handle.template = t /\ key \in {Processed(u) : u \in Templates}
    BY NewHandleFacts
  <2>3. Processed(handle.template) = key
    BY <2>2
  <2> HIDE DEF key, handle
  <2>4. /\ DOMAIN handles' = DOMAIN handles \cup {key}
        /\ \A k \in DOMAIN handles : handles'[k] = handles[k]
        /\ key \notin DOMAIN handles => handles'[key] = handle
    BY <2>1, EmplacedFacts DEF Emplaced
  <2> QED
    BY <1>1, <2>1, <2>2, <2>3, <2>4 DEF BInv, TypeOK, KeysAreTemplates, GuardsAreFilters
<1>3. ASSUME NEW t \in Templates, NEW f \in Filters, RegisterFilter(t, f)
      PROVE  BInv'
  <2> DEFINE key == Processed(t)
  <2>1. /\ key \in DOMAIN handles /\ guards' = guards \cup {<<key, f>>}
        /\ handles' = [handles EXCEPT ![key].filters = Append(@, f)]
    BY <1>3 DEF RegisterFilter
  <2>2. key \in {Processed(u) : u \in Templates}
    OBVIOUS
  <2> HIDE DEF key
  <2>3. /\ DOMAIN handles' = DOMAIN handles
        /\ \A k \in DOMAIN handles :
             /\ handles'[k] \in Handle
             /\ handles'[k].template = handles[k].template
             /\ ToSet(handles[k].filters) \subseteq ToSet(handles'[k].filters)
        /\ f \in ToSet(handles'[key].filters)
    BY <2>1, FilterAdded DEF BInv
  <2>4. KeysAreTemplates'
    BY <2>3 DEF BInv, KeysAreTemplates
  <2>5. GuardsAreFilters'
    <3> SUFFICES ASSUME NEW k, NEW g, <<k, g>> \in guards'
                 PROVE  k \in DOMAIN handles' /\ g \in ToSet(handles'[k].filters)
      BY Zenon DEF GuardsAreFilters
    <3>1. CASE <<k, g>> \in guards
      BY <2>3, <3>1 DEF BInv, GuardsAreFilters
    <3>2. CASE <<k, g>> = <<key, f>>
      BY <2>1, <2>3, <3>2
    <3> QED
      BY <2>1, <3>1, <3>2
  <2>6. guards' \subseteq {Processed(u) : u \in Templates} \X Filters
    BY <2>1, <2>2 DEF BInv, TypeOK
  <2>7. TypeOK'
    BY <1>1, <2>3, <2>6 DEF BInv, TypeOK
  <2> QED
    BY <2>4, <2>5, <2>7 DEF BInv
<1>4. CASE UNCHANGED <<handles, guards>>
  BY <1>1, <1>4 DEF BInv, TypeOK, KeysAreTemplates, GuardsAreFilters
<1> QED
  BY <1>2, <1>3, <1>4, TableStep

\* The table is well formed in every state.
LEMMA Inductive == Spec => []BInv
BY InitBInv, NextBInv, PTL DEF Spec

\* Every state of the table is well typed, for any templates and registrations.
THEOREM TypeCorrect == Spec => []TypeOK
<1>1. BInv => TypeOK
  BY DEF BInv
<1> QED
  BY <1>1, Inductive, PTL

-----------------------------------------------------------------------------
(* Registrations. *)

\* No registration changes what an endpoint that is served was registered as.
LEMMA FirstStays ==
  ASSUME BInv, [Next]_vars, NEW k \in DOMAIN handles
  PROVE  /\ k \in DOMAIN handles'
         /\ handles'[k].template = handles[k].template
         /\ handles'[k].methods = handles[k].methods
<1>1. ASSUME NEW t \in Templates, NEW methods \in MethodSets, RegisterHandler(t, methods)
      PROVE  k \in DOMAIN handles' /\ handles'[k] = handles[k]
  <2>1. handles' = Emplaced(Processed(t), NewHandle(t, methods))
    BY <1>1 DEF RegisterHandler
  <2> QED
    BY <2>1, EmplacedFacts DEF Emplaced
<1>2. ASSUME NEW t \in Templates, NEW f \in Filters, RegisterFilter(t, f)
      PROVE  /\ k \in DOMAIN handles'
             /\ handles'[k].template = handles[k].template
             /\ handles'[k].methods = handles[k].methods
  <2>1. /\ Processed(t) \in DOMAIN handles
        /\ handles' = [handles EXCEPT ![Processed(t)].filters = Append(@, f)]
    BY <1>2 DEF RegisterFilter
  <2> QED
    BY <2>1, FilterAdded DEF BInv
<1> QED
  BY <1>1, <1>2, TableStep

\* Whatever is registered later, under the same key or another one, an endpoint
\* keeps the template, the parameter names and the methods it was registered with.
THEOREM FirstStaysRegistered == Spec => FirstRegistrationStays
<1>1. BInv /\ [Next]_vars =>
        [\A k \in DOMAIN handles :
           /\ k \in DOMAIN handles'
           /\ handles'[k].template = handles[k].template
           /\ handles'[k].methods = handles[k].methods]_vars
  BY FirstStays
<1> QED
  BY <1>1, Inductive, PTL DEF Spec, FirstRegistrationStays

\* A lookup meets the filters of its route.
LEMMA GuardStep ==
  ASSUME BInv, GuardsStay, [Next]_vars
  PROVE  GuardsStay'
<1>1. CASE Register
  BY <1>1 DEF Register, RegisterHandler, RegisterRefused, RegisterFilter, FilterRefused, NoCall, GuardsStay
<1>2. ASSUME NEW url \in Urls, NEW m \in Methods, Find(url, m) PROVE GuardsStay'
  BY <1>2 DEF Find, Matching, WithMethod, BInv, GuardsAreFilters, GuardsStay
<1>3. ASSUME NEW url \in Urls, NEW m \in Methods, FindNothing(url, m) \/ FindUndefined(url, m)
      PROVE  GuardsStay'
  BY <1>3 DEF FindNothing, FindUndefined, NoCall, GuardsStay
<1>4. CASE UNCHANGED vars
  BY <1>4 DEF vars, GuardsStay
<1> QED
  BY <1>1, <1>2, <1>3, <1>4 DEF Next, Lookup

\* A filter that was accepted is met by every later request for its route,
\* however many registrations and lookups come between.
THEOREM GuardsHold == Spec => []GuardsStay
<1>1. Init => GuardsStay
  BY DEF Init, NoCall, GuardsStay
<1>2. BInv /\ [Next]_vars /\ GuardsStay => GuardsStay'
  BY GuardStep
<1> QED
  BY <1>1, <1>2, Inductive, PTL DEF Spec

-----------------------------------------------------------------------------
(* The pure functions: templates and URLs, segments and queries. *)

\* What the assumption says of a template.
LEMMA TemplateFacts ==
  ASSUME NEW t \in Templates
  PROVE  /\ Len(t.path) \in Nat /\ DOMAIN t.path = 1..Len(t.path)
         /\ Len(t.query) \in Nat /\ DOMAIN t.query = 1..Len(t.query)
         /\ t.ask \in BOOLEAN
         /\ \A i \in DOMAIN t.path : t.path[i].lit \in STRING /\ t.path[i].par \in STRING
         /\ \A i \in DOMAIN t.query : t.query[i].lit \in Seq(STRING)
<1>1. t.path \in Seq(Token) /\ t.query \in Seq(Piece) /\ t.ask \in BOOLEAN
  BY BinderAssumption
<1>2. \A i \in DOMAIN t.path : t.path[i] \in Token
  BY <1>1
<1>3. \A i \in DOMAIN t.query : t.query[i] \in Piece
  BY <1>1
<1>4. \A i \in DOMAIN t.path : t.path[i].lit \in STRING /\ t.path[i].par \in STRING
  BY <1>2 DEF Token
<1>5. \A i \in DOMAIN t.query : t.query[i].lit \in Seq(STRING)
  BY <1>3 DEF Piece
<1>6. /\ Len(t.path) \in Nat /\ DOMAIN t.path = 1..Len(t.path)
      /\ Len(t.query) \in Nat /\ DOMAIN t.query = 1..Len(t.query)
  BY <1>1
<1> QED
  BY <1>1, <1>4, <1>5, <1>6, Zenon

\* What the assumption says of a URL.
LEMMA UrlFacts ==
  ASSUME NEW url \in Urls
  PROVE  /\ Len(url.path) \in Nat /\ DOMAIN url.path = 1..Len(url.path)
         /\ Len(url.query) \in Nat /\ DOMAIN url.query = 1..Len(url.query)
         /\ \A i \in DOMAIN url.path : url.path[i] \in STRING
         /\ \A i \in DOMAIN url.query : url.query[i] \in Seq(STRING)
         /\ url.path \in Seq(STRING) /\ url.query \in Seq(Seq(STRING))
<1>1. url.path \in Seq(STRING) /\ url.query \in Seq(Seq(STRING))
  BY BinderAssumption
<1> QED
  BY <1>1

\* The literals of a template, segment by segment and piece by piece.
LEMMA LitsFacts ==
  ASSUME NEW n \in Nat, NEW tokens, DOMAIN tokens = 1..n
  PROVE  /\ DOMAIN Lits(tokens) = 1..n /\ Len(Lits(tokens)) = n
         /\ \A i \in 1..n : Lits(tokens)[i] = tokens[i].lit
BY DEF Lits

\* The segments that are not empty are finitely many; their places are ranks.
LEMMA SolidFacts ==
  ASSUME NEW n \in Nat, NEW path, DOMAIN path = 1..n
  PROVE  /\ Solid(path) \in SUBSET Nat /\ Solid(path) \subseteq 1..n
         /\ IsFiniteSet(Solid(path))
         /\ \A i : Place(path, i) = Cardinality(Upto(Solid(path), i))
<1>1. Solid(path) \in SUBSET (1..n)
  BY DEF Solid
<1>2. IsFiniteSet(Solid(path))
  BY <1>1, FS_Interval, FS_Subset
<1> QED
  BY <1>1, <1>2 DEF Place, Upto

\* In paths with as many segments, each has one for its place, and only one.
LEMMA Opposite ==
  ASSUME NEW n \in Nat, NEW a, DOMAIN a = 1..n, NEW m \in Nat, NEW b, DOMAIN b = 1..m,
         Cardinality(Solid(a)) = Cardinality(Solid(b)), NEW i \in Solid(a)
  PROVE  /\ \E j \in Solid(b) : Place(a, i) = Place(b, j)
         /\ \A j \in Solid(a) : Place(a, j) = Place(a, i) => j = i
         /\ \A j, k \in Solid(b) : Place(b, j) = Place(b, k) => j = k
<1>1. /\ Solid(a) \in SUBSET Nat /\ IsFiniteSet(Solid(a))
      /\ Solid(b) \in SUBSET Nat /\ IsFiniteSet(Solid(b))
      /\ \A x : Place(a, x) = Cardinality(Upto(Solid(a), x))
      /\ \A x : Place(b, x) = Cardinality(Upto(Solid(b), x))
  BY SolidFacts
<1>2. Place(a, i) \in 1..Cardinality(Solid(b))
  BY <1>1, RankOnce
<1>3. \E j \in Solid(b) : Place(a, i) = Place(b, j)
  BY <1>1, <1>2, RankOnto
<1>4. \A j \in Solid(a) : Place(a, j) = Place(a, i) => j = i
  BY <1>1, RankOnce
<1>5. \A j, k \in Solid(b) : Place(b, j) = Place(b, k) => j = k
  BY <1>1, RankOnce
<1> QED
  BY <1>3, <1>4, <1>5

\* A key that occurs once has the value it is written with.
LEMMA ValueOfKey ==
  ASSUME NEW n \in Nat, NEW query, DOMAIN query = 1..n, Len(query) = n, NEW i \in 1..n,
         \A j \in 1..n : query[j][1] = query[i][1] => j = i,
         query[i] \in Seq(STRING), Len(query[i]) = 2
  PROVE  ValueOf(query, query[i][1]) = query[i][2]
<1> DEFINE I == {j \in 1..Len(query) : query[j][1] = query[i][1]}
<1>1. I = {i}
  OBVIOUS
<1>2. Min(I) = i
  <2>1. {i} \in SUBSET Nat /\ {i} # {}
    OBVIOUS
  <2>2. Min({i}) \in {i}
    BY <2>1, MinMember
  <2> QED
    BY <1>1, <2>2
<1>3. SelectInSeq(query, LAMBDA p : p[1] = query[i][1]) = i
  BY <1>1, <1>2 DEF SelectInSeq
<1>4. ValueOf(query, query[i][1]) = Last(query[i])
  BY <1>3 DEF ValueOf
<1>5. Last(query[i]) = query[i][2]
  BY DEF Last
<1> QED
  BY <1>4, <1>5

-----------------------------------------------------------------------------
(* A match is a template with values for its parameters. *)

\* The value v stands in the URL where the template has the parameter n.
InPath(t, url, n, v) ==
  \E i \in Solid(Lits(t.path)), j \in Solid(url.path) :
    /\ t.path[i].par = n /\ Place(Lits(t.path), i) = Place(url.path, j)
    /\ v = url.path[j]
InQuery(t, url, n, v) ==
  \E i \in DOMAIN t.query, j \in DOMAIN url.query :
    /\ t.query[i].par = n /\ t.query[i].lit[1] = url.query[j][1]
    /\ v = url.query[j][2]

\* The values a URL has for the parameters of a template.
Given(t, url) ==
  [n \in Names(t) |-> CHOOSE v : IF n \in NamesIn(t.path) THEN InPath(t, url, n, v)
                                                          ELSE InQuery(t, url, n, v)]

\* A pair is not empty.
LEMMA PairIsSomething ==
  ASSUME NEW s \in Seq(STRING), Len(s) = 2
  PROVE  s # <<>>
OBVIOUS

\* A plain template's parameters and keys, one by one.
LEMMA PlainFacts ==
  ASSUME NEW t \in Templates, Plain(t)
  PROVE  /\ \A i \in DOMAIN t.path : t.path[i].par # NoName =>
              /\ t.path[i].lit = "{}" /\ i \in Solid(Lits(t.path))
              /\ t.path[i].par \in NamesIn(t.path) /\ t.path[i].par \in Names(t)
              /\ \A j \in DOMAIN t.path : t.path[j].par = t.path[i].par => j = i
         /\ \A i \in DOMAIN t.path : t.path[i].par = NoName => t.path[i].lit # "{}"
         /\ \A i \in DOMAIN t.query :
              /\ Len(t.query[i].lit) = 2
              /\ \A j \in DOMAIN t.query : t.query[j].lit[1] = t.query[i].lit[1] => j = i
         /\ \A i \in DOMAIN t.query : t.query[i].par = NoName =>
              t.query[i].lit[1] \notin Names(t) /\ t.query[i].lit[2] # "{}"
         /\ \A i \in DOMAIN t.query : t.query[i].par # NoName =>
              /\ t.query[i].lit[2] = "{}"
              /\ t.query[i].par \notin NamesIn(t.path) /\ t.query[i].par \in Names(t)
              /\ \A j \in DOMAIN t.query : t.query[j].par = t.query[i].par => j = i
<1> USE TemplateFacts
<1>1. ASSUME NEW i \in DOMAIN t.path, t.path[i].par # NoName
      PROVE  /\ t.path[i].lit = "{}" /\ i \in Solid(Lits(t.path))
             /\ t.path[i].par \in NamesIn(t.path) /\ t.path[i].par \in Names(t)
             /\ \A j \in DOMAIN t.path : t.path[j].par = t.path[i].par => j = i
  BY <1>1 DEF Plain, Once, NamesIn, Names, Solid, Lits
<1>2. ASSUME NEW i \in DOMAIN t.query
      PROVE  /\ Len(t.query[i].lit) = 2
             /\ \A j \in DOMAIN t.query : t.query[j].lit[1] = t.query[i].lit[1] => j = i
  BY DEF Plain
<1>3. ASSUME NEW i \in DOMAIN t.query, t.query[i].par = NoName
      PROVE  t.query[i].lit[1] \notin Names(t) /\ t.query[i].lit[2] # "{}"
  BY <1>3 DEF Plain
<1>4. ASSUME NEW i \in DOMAIN t.query, t.query[i].par # NoName
      PROVE  /\ t.query[i].lit[2] = "{}"
             /\ t.query[i].par \notin NamesIn(t.path) /\ t.query[i].par \in Names(t)
             /\ \A j \in DOMAIN t.query : t.query[j].par = t.query[i].par => j = i
  <2>1. t.query[i].par \in NamesIn(t.query)
    BY <1>4 DEF NamesIn
  <2>2. t.query[i].par \notin NamesIn(t.path) /\ t.query[i].par \in Names(t)
    BY <2>1 DEF Plain, Names
  <2>3. \A j \in DOMAIN t.query : t.query[j].par = t.query[i].par => j = i
    BY <1>4 DEF Plain, Once
  <2>4. t.query[i].lit[2] = "{}"
    BY <1>4 DEF Plain
  <2> QED
    BY <2>2, <2>3, <2>4
<1>5. \A i \in DOMAIN t.path : t.path[i].par = NoName => t.path[i].lit # "{}"
  BY DEF Plain
<1> QED
  BY <1>1, <1>2, <1>3, <1>4, <1>5

\* What the path of a URL has where a parameter is is the value of it.
LEMMA PathGiven ==
  ASSUME NEW t \in Templates, NEW url \in Urls, Plain(t),
         Cardinality(Solid(Lits(t.path))) = Cardinality(Solid(url.path)),
         NEW i \in Solid(Lits(t.path)), NEW j \in Solid(url.path),
         Place(Lits(t.path), i) = Place(url.path, j), t.path[i].par # NoName
  PROVE  Given(t, url)[t.path[i].par] = url.path[j]
<1> DEFINE n == t.path[i].par
           In(v) == InPath(t, url, n, v)
<1>1. i \in DOMAIN t.path
  BY DEF Solid, Lits
<1>2. n \in NamesIn(t.path) /\ n \in Names(t) /\ \A k \in DOMAIN t.path : t.path[k].par = n => k = i
  BY <1>1, PlainFacts
<1>3. InPath(t, url, n, url.path[j])
  BY DEF InPath
<1>4. ASSUME NEW v, InPath(t, url, n, v) PROVE v = url.path[j]
  <2>1. PICK a \in Solid(Lits(t.path)), b \in Solid(url.path) :
          /\ t.path[a].par = n /\ Place(Lits(t.path), a) = Place(url.path, b)
          /\ v = url.path[b]
    BY <1>4 DEF InPath
  <2>2. a = i
    BY <1>2, <2>1 DEF Solid, Lits
  <2>3. b = j
    BY <2>1, <2>2, Opposite, TemplateFacts, UrlFacts, LitsFacts
  <2> QED
    BY <2>1, <2>3
<1>5. (CHOOSE v : In(v)) = url.path[j]
  BY <1>3, <1>4
<1> QED
  BY <1>2, <1>5 DEF Given

\* What the query of a URL has for the key of a parameter is the value of it.
LEMMA QueryGiven ==
  ASSUME NEW t \in Templates, NEW url \in Urls, Plain(t), PlainUrl(url),
         NEW i \in DOMAIN t.query, NEW j \in DOMAIN url.query,
         t.query[i].lit[1] = url.query[j][1], t.query[i].par # NoName
  PROVE  Given(t, url)[t.query[i].par] = url.query[j][2]
<1> DEFINE n == t.query[i].par
           In(v) == InQuery(t, url, n, v)
<1>2. n \notin NamesIn(t.path) /\ n \in Names(t) /\ \A k \in DOMAIN t.query : t.query[k].par = n => k = i
  BY PlainFacts
<1>3. InQuery(t, url, n, url.query[j][2])
  BY DEF InQuery
<1>4. ASSUME NEW v, InQuery(t, url, n, v) PROVE v = url.query[j][2]
  BY <1>2, <1>4 DEF InQuery, PlainUrl
<1>5. (CHOOSE v : In(v)) = url.query[j][2]
  BY <1>3, <1>4
<1> QED
  BY <1>2, <1>5 DEF Given

\* The literals of a query, piece by piece.
LEMMA QueryLits ==
  ASSUME NEW t \in Templates, NEW url \in Urls, Plain(t), PlainUrl(url)
  PROVE  /\ Keys(Lits(t.query)) = {t.query[i].lit[1] : i \in DOMAIN t.query}
         /\ IsFiniteSet(Keys(Lits(t.query))) /\ IsFiniteSet(Keys(url.query))
         /\ \A i \in DOMAIN t.query : ValueOf(Lits(t.query), t.query[i].lit[1]) = t.query[i].lit[2]
         /\ \A j \in DOMAIN url.query : ValueOf(url.query, url.query[j][1]) = url.query[j][2]
<1> DEFINE q == Lits(t.query)
           n == Len(t.query)
<1>1. /\ n \in Nat /\ DOMAIN t.query = 1..n /\ DOMAIN q = 1..n /\ Len(q) = n
      /\ \A i \in 1..n : q[i] = t.query[i].lit
  BY TemplateFacts, LitsFacts
<1>2. /\ \A i \in 1..n : t.query[i].lit \in Seq(STRING)
      /\ \A i \in 1..n : Len(t.query[i].lit) = 2
      /\ \A i, j \in 1..n : t.query[j].lit[1] = t.query[i].lit[1] => j = i
  BY <1>1, TemplateFacts, PlainFacts
<1> HIDE DEF n, q
<1>3. Keys(q) = {t.query[i].lit[1] : i \in 1..n}
  BY <1>1 DEF Keys
<1>4. IsFiniteSet(Keys(q))
  <2> DEFINE f == [i \in 1..n |-> q[i][1]]
  <2>3. n \in Nat /\ DOMAIN f = 1..n
    BY <1>1
  <2>1. IsFiniteSet({f[i] : i \in 1..n})
    <3> HIDE DEF f
    <3> QED
      BY <2>3, FiniteImage
  <2>2. {f[i] : i \in 1..n} = Keys(q)
    BY <1>1 DEF Keys
  <2> QED
    BY <2>1, <2>2
<1>5. IsFiniteSet(Keys(url.query))
  <2> DEFINE m == Len(url.query)
             f == [i \in 1..m |-> url.query[i][1]]
  <2>1. m \in Nat /\ DOMAIN url.query = 1..m
    BY UrlFacts
  <2> HIDE DEF m
  <2>2. IsFiniteSet({f[i] : i \in 1..m})
    BY <2>1, FiniteImage
  <2>3. {f[i] : i \in 1..m} = Keys(url.query)
    BY <2>1 DEF Keys
  <2> QED
    BY <2>2, <2>3
<1>6. ASSUME NEW i \in 1..n PROVE ValueOf(q, t.query[i].lit[1]) = t.query[i].lit[2]
  <2>1. /\ q[i] \in Seq(STRING) /\ Len(q[i]) = 2 /\ q[i] = t.query[i].lit
        /\ \A j \in 1..n : q[j][1] = q[i][1] => j = i
    BY <1>1, <1>2
  <2>2. ValueOf(q, q[i][1]) = q[i][2]
    BY <1>1, <2>1, ValueOfKey
  <2> QED
    BY <2>1, <2>2
<1>7. ASSUME NEW j \in DOMAIN url.query PROVE ValueOf(url.query, url.query[j][1]) = url.query[j][2]
  <2>1. /\ Len(url.query) \in Nat /\ DOMAIN url.query = 1..Len(url.query)
        /\ url.query[j] \in Seq(STRING)
    BY UrlFacts
  <2>2. /\ Len(url.query[j]) = 2
        /\ \A k \in DOMAIN url.query : url.query[k][1] = url.query[j][1] => k = j
    BY DEF PlainUrl
  <2> QED
    BY <2>1, <2>2, ValueOfKey
<1> QED
  BY <1>1, <1>3, <1>4, <1>5, <1>6, <1>7 DEF q

\* Two pairs are the same when they agree on the key and the value.
LEMMA SamePair ==
  ASSUME NEW a \in Seq(STRING), NEW b \in Seq(STRING), Len(a) = 2, Len(b) = 2,
         a[1] = b[1], a[2] = b[2]
  PROVE  a = b
OBVIOUS

\* A URL that matches a plain template asks for it.
LEMMA MatchAsks ==
  ASSUME NEW t \in Templates, NEW url \in Urls, Plain(t), PlainUrl(url),
         MatchPath(Processed(t), url)
  PROVE  Asks(url, t)
<1> DEFINE p == Lits(t.path)
           q == Lits(t.query)
           value == Given(t, url)
<1>1. SegmentsMatch(p, url.path) /\ (t.ask => QueryMatches(q, url.query))
  BY DEF MatchPath, Processed
<1>2. Cardinality(Solid(p)) = Cardinality(Solid(url.path))
  BY <1>1 DEF SegmentsMatch
<1>3. ASSUME NEW i \in Solid(p), NEW j \in Solid(url.path), Place(p, i) = Place(url.path, j)
      PROVE  Filled(t.path[i], value) = url.path[j]
  <2>1. i \in DOMAIN t.path /\ p[i] = t.path[i].lit
    BY DEF Solid, Lits
  <2>2. p[i] \in {"{}", url.path[j]}
    BY <1>1, <1>3 DEF SegmentsMatch, SegmentsZip
  <2>3. CASE t.path[i].par = NoName
    BY <2>1, <2>2, <2>3, PlainFacts DEF Filled
  <2>4. CASE t.path[i].par # NoName
    BY <1>2, <1>3, <2>4, PathGiven DEF Filled
  <2> QED
    BY <2>3, <2>4
<1>4. SamePath(p, FilledPath(t, value), url.path)
  BY <1>2, <1>3 DEF SamePath, FilledPath, Solid, Lits
<1>5. ASSUME t.ask PROVE Keys(q) = Keys(url.query) /\ url.query # <<>>
  <2>1. QueryMatches(q, url.query)
    BY <1>1, <1>5
  <2>2. Keys(q) \subseteq Keys(url.query) /\ Cardinality(Keys(q)) = Cardinality(Keys(url.query))
    BY <2>1 DEF QueryMatches
  <2> QED
    BY <2>1, <2>2, QueryLits, FS_Subset DEF QueryMatches
<1>6. ASSUME t.ask, NEW i \in DOMAIN t.query, NEW j \in DOMAIN url.query,
             t.query[i].lit[1] = url.query[j][1]
      PROVE  FilledQuery(t, value)[i] = url.query[j]
  <2>1. /\ t.query[i].lit \in Seq(STRING) /\ Len(t.query[i].lit) = 2
        /\ url.query[j] \in Seq(STRING) /\ Len(url.query[j]) = 2
    BY TemplateFacts, PlainFacts, UrlFacts DEF PlainUrl
  <2>2. t.query[i].lit[2] \in {"{}", url.query[j][2]}
    <3>1. t.query[i].lit[1] \in Keys(q)
      BY QueryLits
    <3>2. ValueOf(q, t.query[i].lit[1]) \in {"{}", ValueOf(url.query, t.query[i].lit[1])}
      BY <1>1, <1>6, <3>1 DEF QueryMatches
    <3> QED
      BY <1>6, <3>2, QueryLits
  <2>3. CASE t.query[i].par = NoName
    <3>1. t.query[i].lit[2] = url.query[j][2]
      BY <2>2, <2>3, PlainFacts
    <3>2. t.query[i].lit = url.query[j]
      BY <1>6, <2>1, <3>1, SamePair
    <3> QED
      BY <2>3, <3>2 DEF FilledQuery
  <2>4. CASE t.query[i].par # NoName
    <3>1. value[t.query[i].par] = url.query[j][2]
      BY <1>6, <2>4, QueryGiven
    <3>2. FilledQuery(t, value)[i] = <<url.query[j][1], url.query[j][2]>>
      BY <1>6, <2>4, <3>1 DEF FilledQuery
    <3>3. url.query[j] = <<url.query[j][1], url.query[j][2]>>
      BY <2>1
    <3> QED
      BY <3>2, <3>3
  <2> QED
    BY <2>3, <2>4
<1>7. ASSUME t.ask PROVE ToSet(FilledQuery(t, value)) = ToSet(url.query)
  <2>1. ASSUME NEW i \in DOMAIN t.query
        PROVE  \E j \in DOMAIN url.query : t.query[i].lit[1] = url.query[j][1]
    BY <1>5, <1>7, QueryLits DEF Keys
  <2>2. ASSUME NEW j \in DOMAIN url.query
        PROVE  \E i \in DOMAIN t.query : t.query[i].lit[1] = url.query[j][1]
    BY <1>5, <1>7, QueryLits DEF Keys
  <2>3. DOMAIN FilledQuery(t, value) = DOMAIN t.query
    BY DEF FilledQuery
  <2> QED
    BY <1>6, <1>7, <2>1, <2>2, <2>3 DEF ToSet
<1>8. value \in [Names(t) -> Values(url)]
  <2>1. ASSUME NEW n \in NamesIn(t.path) PROVE value[n] \in Values(url)
    <3>1. PICK i \in DOMAIN t.path : t.path[i].par = n /\ n # NoName
      BY DEF NamesIn
    <3>2. i \in Solid(p)
      BY <3>1, PlainFacts
    <3>5. /\ Len(t.path) \in Nat /\ DOMAIN p = 1..Len(t.path)
          /\ Len(url.path) \in Nat /\ DOMAIN url.path = 1..Len(url.path)
      BY TemplateFacts, UrlFacts, LitsFacts
    <3>3. PICK j \in Solid(url.path) : Place(p, i) = Place(url.path, j)
      <4> HIDE DEF p
      <4> QED
        BY <1>2, <3>2, <3>5, Opposite
    <3>4. value[n] = url.path[j]
      BY <1>2, <3>1, <3>2, <3>3, PathGiven
    <3> QED
      BY <3>4 DEF Values
  <2>2. ASSUME NEW n \in NamesIn(t.query) PROVE value[n] \in Values(url)
    <3>1. PICK i \in DOMAIN t.query : t.query[i].par = n /\ n # NoName
      BY DEF NamesIn
    <3>2. t.ask
      <4>1. t.query # <<>>
        BY <3>1
      <4> QED
        BY <4>1, BinderAssumption
    <3>3. PICK j \in DOMAIN url.query : t.query[i].lit[1] = url.query[j][1]
      BY <1>5, <3>2, QueryLits DEF Keys
    <3>4. value[n] = url.query[j][2]
      BY <3>1, <3>3, QueryGiven
    <3> QED
      BY <3>4 DEF Values
  <2>3. \A n \in Names(t) : value[n] \in Values(url)
    BY <2>1, <2>2 DEF Names
  <2> QED
    BY <2>3 DEF Given
<1> QED
  BY <1>4, <1>5, <1>7, <1>8 DEF Asks

\* A URL that asks for a plain template matches it, and ends nothing.
LEMMA AsksMatch ==
  ASSUME NEW t \in Templates, NEW url \in Urls, Plain(t), PlainUrl(url), Asks(url, t)
  PROVE  ~Undefined(Processed(t), url) /\ MatchPath(Processed(t), url)
<1> DEFINE p == Lits(t.path)
           q == Lits(t.query)
<1>1. PICK value \in [Names(t) -> Values(url)] :
        /\ SamePath(p, FilledPath(t, value), url.path)
        /\ t.ask => url.query # <<>> /\ ToSet(FilledQuery(t, value)) = ToSet(url.query)
  BY DEF Asks
<1>2. ~Undefined(Processed(t), url)
  <2>1. \A i \in DOMAIN url.query : url.query[i] # <<>>
    BY UrlFacts, PairIsSomething DEF PlainUrl
  <2> QED
    BY <2>1 DEF Undefined, ToSet
<1>3. SegmentsMatch(p, url.path)
  <2>1. ASSUME NEW i \in Solid(p), NEW j \in Solid(url.path), Place(p, i) = Place(url.path, j)
        PROVE  p[i] \in {"{}", url.path[j]}
    <3>1. i \in DOMAIN t.path /\ p[i] = t.path[i].lit
      BY DEF Solid, Lits
    <3>2. Filled(t.path[i], value) = url.path[j]
      BY <1>1, <2>1, <3>1 DEF SamePath, FilledPath
    <3>3. CASE t.path[i].par = NoName
      BY <3>1, <3>2, <3>3 DEF Filled
    <3>4. CASE t.path[i].par # NoName
      BY <3>1, <3>4, PlainFacts
    <3> QED
      BY <3>3, <3>4
  <2> QED
    BY <1>1, <2>1 DEF SegmentsMatch, SegmentsZip, SamePath
<1>4. ASSUME t.ask PROVE QueryMatches(q, url.query)
  <2> DEFINE filled == FilledQuery(t, value)
  <2>1. \A i \in DOMAIN t.query : i \in DOMAIN filled /\ filled[i][1] = t.query[i].lit[1]
    BY DEF FilledQuery
  <2>2. \A i \in DOMAIN filled : i \in DOMAIN t.query
    BY DEF FilledQuery
  <2>3. ToSet(filled) = ToSet(url.query) /\ url.query # <<>>
    BY <1>1, <1>4
  <2>4. \A i \in DOMAIN t.query : t.query[i].par = NoName => filled[i] = t.query[i].lit
    BY DEF FilledQuery
  <2> HIDE DEF filled
  <2>5. \A i \in DOMAIN t.query : \E j \in DOMAIN url.query : url.query[j] = filled[i]
    BY <2>1, <2>3 DEF ToSet
  <2>6. \A j \in DOMAIN url.query : \E i \in DOMAIN t.query : url.query[j] = filled[i]
    BY <2>2, <2>3 DEF ToSet
  <2>7. Keys(q) = {t.query[i].lit[1] : i \in DOMAIN t.query}
    BY QueryLits
  <2>8. Keys(q) = Keys(url.query)
    <3>1. ASSUME NEW i \in DOMAIN t.query PROVE t.query[i].lit[1] \in Keys(url.query)
      <4>1. PICK j \in DOMAIN url.query : url.query[j] = filled[i]
        BY <2>5
      <4>2. url.query[j][1] = t.query[i].lit[1]
        BY <2>1, <4>1
      <4> QED
        BY <4>2 DEF Keys
    <3>2. ASSUME NEW j \in DOMAIN url.query PROVE url.query[j][1] \in Keys(q)
      <4>1. PICK i \in DOMAIN t.query : url.query[j] = filled[i]
        BY <2>6
      <4>2. url.query[j][1] = t.query[i].lit[1]
        BY <2>1, <4>1
      <4> QED
        BY <2>7, <4>2
    <3> QED
      BY <2>7, <3>1, <3>2 DEF Keys
  <2>9. ASSUME NEW key \in Keys(q)
        PROVE  key \in Keys(url.query) /\ ValueOf(q, key) \in {"{}", ValueOf(url.query, key)}
    <3>1. PICK i \in DOMAIN t.query : key = t.query[i].lit[1]
      BY <2>7
    <3>2. ValueOf(q, key) = t.query[i].lit[2]
      BY <3>1, QueryLits
    <3>3. CASE t.query[i].par # NoName
      BY <2>8, <3>2, <3>3, PlainFacts
    <3>4. CASE t.query[i].par = NoName
      <4>1. PICK j \in DOMAIN url.query : url.query[j] = t.query[i].lit
        BY <2>4, <2>5, <3>4
      <4>2. ValueOf(url.query, key) = t.query[i].lit[2]
        BY <3>1, <4>1, QueryLits
      <4> QED
        BY <2>8, <3>2, <4>2
    <3> QED
      BY <3>3, <3>4
  <2> QED
    BY <2>3, <2>8, <2>9 DEF QueryMatches
<1> QED
  BY <1>2, <1>3, <1>4 DEF MatchPath, Processed

\* A handle that is found is asked for, and a handle that is asked for is found.
LEMMA RoutedStep ==
  ASSUME BInv, RoutedAsAsked, [Next]_vars
  PROVE  RoutedAsAsked'
<1>0. \A k \in DOMAIN handles : handles[k].template \in Templates /\ Processed(handles[k].template) = k
  BY DEF BInv, TypeOK, KeysAreTemplates, Handle
<1>1. CASE Register
  BY <1>1 DEF Register, RegisterHandler, RegisterRefused, RegisterFilter, FilterRefused, NoCall, RoutedAsAsked
<1>2. ASSUME NEW url \in Urls, NEW m \in Methods, Find(url, m) PROVE RoutedAsAsked'
  <2>1. PICK k \in Matching(url, m) :
          /\ last'.found = TRUE /\ last'.url = url /\ last'.method = m
          /\ last'.handle = handles[k]
    BY <1>2 DEF Find
  <2>2. k \in DOMAIN handles /\ m \in handles[k].methods /\ MatchPath(k, url)
    BY DEF Matching, WithMethod
  <2>3. ASSUME PlainUrl(url), Plain(handles[k].template) PROVE Asks(url, handles[k].template)
    BY <1>0, <2>2, <2>3, MatchAsks
  <2> QED
    BY <2>1, <2>2, <2>3 DEF RoutedAsAsked
<1>3. ASSUME NEW url \in Urls, NEW m \in Methods, FindNothing(url, m) PROVE RoutedAsAsked'
  <2>1. /\ last'.found = FALSE /\ last'.url = url /\ last'.method = m
        /\ handles' = handles /\ Matching(url, m) = {}
    BY <1>3 DEF FindNothing
  <2>2. ASSUME PlainUrl(url), NEW k \in WithMethod(m), Plain(handles[k].template)
        PROVE  ~Asks(url, handles[k].template)
    <3>1. k \in DOMAIN handles
      BY DEF WithMethod
    <3>2. Undefined(k, url) \/ ~MatchPath(k, url)
      BY <2>1 DEF Matching
    <3> QED
      BY <1>0, <2>2, <3>1, <3>2, AsksMatch
  <2> QED
    BY <2>1, <2>2 DEF RoutedAsAsked, WithMethod
<1>4. ASSUME NEW url \in Urls, NEW m \in Methods, FindUndefined(url, m) PROVE RoutedAsAsked'
  BY <1>4 DEF FindUndefined, NoCall, RoutedAsAsked
<1>5. CASE UNCHANGED vars
  BY <1>5 DEF vars, RoutedAsAsked, WithMethod
<1> QED
  BY <1>1, <1>2, <1>3, <1>4, <1>5 DEF Next, Lookup

\* Any request whose URL has a value for each of its keys is routed to a handle
\* of its method that it asks for, if that is a plain one, and is answered 404
\* only if it asks for no plain handle of its method.
THEOREM Routed == Spec => []RoutedAsAsked
<1>1. Init => RoutedAsAsked
  BY DEF Init, NoCall, RoutedAsAsked
<1>2. BInv /\ [Next]_vars /\ RoutedAsAsked => RoutedAsAsked'
  BY RoutedStep
<1> QED
  BY <1>1, <1>2, Inductive, PTL DEF Spec

-----------------------------------------------------------------------------
(* Reading parameters. *)

\* A name that stands in one place of what is emplaced gets the value there.
LEMMA FirstOfName ==
  ASSUME NEW n \in Nat, NEW list, DOMAIN list = 1..n, Len(list) = n, NEW i \in 1..n,
         list[i].from # "text",
         \A j \in 1..n : list[j].from # "text" /\ list[j].name = list[i].name => j = i
  PROVE  list[SelectInSeq(list, LAMBDA e : e.from # "text" /\ e.name = list[i].name)].value = list[i].value
<1> DEFINE I == {j \in 1..Len(list) : list[j].from # "text" /\ list[j].name = list[i].name}
<1>1. I = {i}
  OBVIOUS
<1>2. Min(I) = i
  <2>1. {i} \in SUBSET Nat /\ {i} # {}
    OBVIOUS
  <2>2. Min({i}) \in {i}
    BY <2>1, MinMember
  <2> QED
    BY <1>1, <2>2
<1>3. SelectInSeq(list, LAMBDA e : e.from # "text" /\ e.name = list[i].name) = i
  BY <1>1, <1>2 DEF SelectInSeq
<1> QED
  BY <1>3

\* What the two loops emplace, place by place: the path's part, then the query's.
LEMMA EmplacementsFacts ==
  ASSUME NEW t \in Templates, NEW url \in Urls,
         Len(t.path) = Len(url.path), Len(t.query) = Len(url.query)
  PROVE  LET list == Emplacements(t, url)
             a == Len(t.path)
             b == Len(t.query)
         IN  /\ DOMAIN list = 1..(a + b) /\ Len(list) = a + b
             /\ \A i \in 1..a : /\ list[i].from = (IF t.path[i].par # NoName THEN "braces" ELSE "text")
                                /\ list[i].name = t.path[i].par
                                /\ list[i].value = url.path[i]
             /\ \A i \in 1..b :
                  /\ list[a + i].name = (IF t.query[i].par # NoName THEN t.query[i].par
                                                                    ELSE url.query[i][1])
                  /\ list[a + i].value = url.query[i][2]
                  /\ list[a + i].from # "text"
<1> DEFINE a == Len(t.path)
           b == Len(t.query)
           first == FromPath(t, url)
           second == FromQuery(t, url)
<1>1. /\ a \in Nat /\ b \in Nat /\ DOMAIN t.path = 1..a /\ DOMAIN t.query = 1..b
  BY TemplateFacts
<1>2. Emplacements(t, url) = first \o second
  BY DEF Emplacements
<1>3. /\ \A i \in 1..a : /\ first[i].from = (IF t.path[i].par # NoName THEN "braces" ELSE "text")
                         /\ first[i].name = t.path[i].par /\ first[i].value = url.path[i]
      /\ \A i \in 1..b :
           /\ second[i].name = (IF t.query[i].par # NoName THEN t.query[i].par ELSE url.query[i][1])
           /\ second[i].value = url.query[i][2]
           /\ second[i].from # "text"
  BY <1>1 DEF FromPath, FromQuery
<1>4. /\ \E T : first \in Seq(T) /\ second \in Seq(T)
      /\ Len(first) = a /\ Len(second) = b
  <2> DEFINE T == {first[i] : i \in 1..a} \cup {second[i] : i \in 1..b}
  <2>1. first \in [1..a -> T] /\ second \in [1..b -> T]
    BY <1>1 DEF FromPath, FromQuery
  <2> HIDE DEF T, first, second
  <2>2. first \in Seq(T) /\ second \in Seq(T) /\ Len(first) = a /\ Len(second) = b
    BY <1>1, <2>1
  <2> QED
    BY <2>2
<1> HIDE DEF a, b, first, second
<1>5. /\ DOMAIN (first \o second) = 1..(a + b) /\ Len(first \o second) = a + b
      /\ \A i \in 1..a : (first \o second)[i] = first[i]
      /\ \A i \in 1..b : (first \o second)[a + i] = second[i]
  <2>1. PICK T : first \in Seq(T) /\ second \in Seq(T)
    BY <1>4
  <2> QED
    BY <1>1, <1>4, <2>1
<1> DEFINE list == Emplacements(t, url)
<1>6. list = first \o second
  BY <1>2
<1> HIDE DEF list
<1>7. DOMAIN list = 1..(a + b) /\ Len(list) = a + b
  BY <1>5, <1>6
<1>8. \A i \in 1..a : /\ list[i].from = (IF t.path[i].par # NoName THEN "braces" ELSE "text")
                     /\ list[i].name = t.path[i].par /\ list[i].value = url.path[i]
  BY <1>3, <1>5, <1>6
<1>9. \A i \in 1..b :
        /\ list[a + i].name = (IF t.query[i].par # NoName THEN t.query[i].par ELSE url.query[i][1])
        /\ list[a + i].value = url.query[i][2]
        /\ list[a + i].from # "text"
  <2> SUFFICES ASSUME NEW i \in 1..b
               PROVE  /\ list[a + i].name = (IF t.query[i].par # NoName THEN t.query[i].par
                                                                       ELSE url.query[i][1])
                      /\ list[a + i].value = url.query[i][2]
                      /\ list[a + i].from # "text"
    OBVIOUS
  <2>1. list[a + i] = second[i]
    BY <1>5, <1>6
  <2> QED
    BY <1>3, <2>1
<1> QED
  BY <1>7, <1>8, <1>9 DEF list, a, b

\* Of an aligned request, every parameter is given the value at its own place.
LEMMA ValuesAtTheirPlace ==
  ASSUME NEW t \in Templates, NEW url \in Urls, Plain(t), Names(t) # {},
         Parses(t, url), Aligned(t, url)
  PROVE  /\ \A i \in DOMAIN t.path : t.path[i].par # NoName =>
              Bound(t, url)[t.path[i].par] = url.path[i]
         /\ \A i \in DOMAIN t.query : t.query[i].par # NoName =>
              Bound(t, url)[t.query[i].par] = url.query[i][2]
<1> DEFINE list == Emplacements(t, url)
           a == Len(t.path)
           b == Len(t.query)
<1>1. /\ a \in Nat /\ b \in Nat /\ DOMAIN t.path = 1..a /\ DOMAIN t.query = 1..b
      /\ DOMAIN url.query = 1..b
  BY TemplateFacts, UrlFacts DEF Parses
<1>2. /\ DOMAIN list = 1..(a + b) /\ Len(list) = a + b
      /\ \A i \in 1..a : /\ list[i].from = (IF t.path[i].par # NoName THEN "braces" ELSE "text")
                         /\ list[i].name = t.path[i].par /\ list[i].value = url.path[i]
      /\ \A i \in 1..b :
           /\ list[a + i].name = (IF t.query[i].par # NoName THEN t.query[i].par ELSE url.query[i][1])
           /\ list[a + i].value = url.query[i][2]
           /\ list[a + i].from # "text"
  BY EmplacementsFacts DEF Parses
<1> HIDE DEF a, b
<1>3. \A x \in 1..(a + b) : x \in 1..a \/ \E y \in 1..b : x = a + y
  <2>1. ASSUME NEW x \in 1..(a + b), x \notin 1..a PROVE x - a \in 1..b /\ x = a + (x - a)
    BY <1>1, <2>1
  <2> QED
    BY <2>1
<1>4. Bound(t, url) = [n \in {list[i].name : i \in {j \in DOMAIN list : list[j].from # "text"}} |->
                         list[SelectInSeq(list, LAMBDA e : e.from # "text" /\ e.name = n)].value]
  BY DEF Bound, Parses
<1>5. \A y \in 1..b : t.query[y].par = NoName => list[a + y].name \notin Names(t)
  <2>1. ASSUME NEW y \in 1..b, t.query[y].par = NoName PROVE list[a + y].name \notin Names(t)
    <3>1. list[a + y].name = url.query[y][1]
      BY <1>2, <2>1
    <3>2. url.query[y][1] = t.query[y].lit[1]
      BY <1>1 DEF Aligned
    <3> QED
      BY <1>1, <2>1, <3>1, <3>2, PlainFacts
  <2> QED
    BY <2>1
<1> HIDE DEF list
<1>6. ASSUME NEW x \in 1..(a + b), list[x].from # "text",
             \A z \in 1..(a + b) : list[z].from # "text" /\ list[z].name = list[x].name => z = x
      PROVE  Bound(t, url)[list[x].name] = list[x].value
  <2>1. list[SelectInSeq(list, LAMBDA e : e.from # "text" /\ e.name = list[x].name)].value = list[x].value
    <3>1. a + b \in Nat
      BY <1>1
    <3> QED
      BY <1>2, <1>6, <3>1, FirstOfName
  <2> QED
    BY <1>2, <1>4, <1>6, <2>1
<1>7. ASSUME NEW i \in 1..a, t.path[i].par # NoName
      PROVE  Bound(t, url)[t.path[i].par] = url.path[i]
  <2>1. /\ t.path[i].par \in NamesIn(t.path) /\ t.path[i].par \in Names(t)
        /\ \A j \in 1..a : t.path[j].par = t.path[i].par => j = i
    BY <1>1, <1>7, PlainFacts
  <2>2. i \in 1..(a + b)
    BY <1>1
  <2>3. ASSUME NEW z \in 1..(a + b), list[z].name = t.path[i].par PROVE z = i
    <3>1. CASE z \in 1..a
      BY <1>2, <2>1, <2>3, <3>1
    <3>2. ASSUME NEW y \in 1..b, z = a + y PROVE FALSE
      <4>1. CASE t.query[y].par = NoName
        BY <1>5, <2>1, <2>3, <3>2, <4>1
      <4>2. CASE t.query[y].par # NoName
        <5>1. t.query[y].par = t.path[i].par
          BY <1>2, <2>3, <3>2, <4>2
        <5>2. t.query[y].par \notin NamesIn(t.path)
          BY <1>1, <4>2, PlainFacts
        <5> QED
          BY <2>1, <5>1, <5>2
      <4> QED
        BY <4>1, <4>2
    <3> QED
      BY <1>3, <3>1, <3>2
  <2> QED
    BY <1>2, <1>6, <1>7, <2>2, <2>3
<1>8. ASSUME NEW i \in 1..b, t.query[i].par # NoName
      PROVE  Bound(t, url)[t.query[i].par] = url.query[i][2]
  <2>1. /\ t.query[i].par \notin NamesIn(t.path) /\ t.query[i].par \in Names(t)
        /\ \A j \in 1..b : t.query[j].par = t.query[i].par => j = i
    BY <1>1, <1>8, PlainFacts
  <2>2. a + i \in 1..(a + b)
    BY <1>1
  <2>3. ASSUME NEW z \in 1..(a + b), list[z].name = t.query[i].par PROVE z = a + i
    <3>1. ASSUME z \in 1..a PROVE FALSE
      <4>1. t.path[z].par = t.query[i].par
        BY <1>2, <2>3, <3>1
      <4> QED
        BY <1>1, <1>8, <2>1, <3>1, <4>1 DEF NamesIn
    <3>2. ASSUME NEW y \in 1..b, z = a + y PROVE y = i
      <4>1. t.query[y].par # NoName
        BY <1>5, <2>1, <2>3, <3>2
      <4> QED
        BY <1>2, <2>1, <2>3, <3>2, <4>1
    <3> QED
      BY <1>3, <3>1, <3>2
  <2> QED
    BY <1>2, <1>6, <1>8, <2>2, <2>3
<1> QED
  BY <1>1, <1>7, <1>8

\* The literals of a template that an aligned request matches are the request's.
LEMMA LiteralsAgree ==
  ASSUME NEW t \in Templates, NEW url \in Urls, Plain(t), Names(t) # {},
         Parses(t, url), Aligned(t, url), MatchPath(Processed(t), url)
  PROVE  /\ \A i \in DOMAIN t.path : t.path[i].par = NoName => t.path[i].lit = url.path[i]
         /\ \A i \in DOMAIN t.query : t.query[i].par = NoName => t.query[i].lit = url.query[i]
<1> DEFINE p == Lits(t.path)
           q == Lits(t.query)
<1>1. /\ DOMAIN t.path = DOMAIN url.path /\ DOMAIN t.query = DOMAIN url.query
      /\ \A i \in DOMAIN t.query : Len(t.query[i].lit) = 2 /\ Len(url.query[i]) = 2
      /\ t.ask
  BY TemplateFacts, UrlFacts DEF Parses
<1>2. PlainUrl(url)
  <2>1. ASSUME NEW i \in DOMAIN url.query, NEW j \in DOMAIN url.query,
               url.query[i][1] = url.query[j][1]
        PROVE  i = j
    <3>1. i \in DOMAIN t.query /\ j \in DOMAIN t.query
      BY <1>1
    <3>2. t.query[i].lit[1] = url.query[i][1] /\ t.query[j].lit[1] = url.query[j][1]
      BY <3>1 DEF Aligned
    <3>3. t.query[i].lit[1] = t.query[j].lit[1]
      BY <2>1, <3>2
    <3> QED
      BY <3>1, <3>3 DEF Plain
  <2> QED
    BY <1>1, <2>1 DEF PlainUrl
<1>3. /\ SegmentsZip(p, url.path)
      /\ Keys(q) \subseteq Keys(url.query)
      /\ \A key \in Keys(q) : ValueOf(q, key) \in {"{}", ValueOf(url.query, key)}
  BY <1>1 DEF MatchPath, Processed, SegmentsMatch, QueryMatches
<1>4. ASSUME NEW i \in DOMAIN t.path, t.path[i].par = NoName PROVE t.path[i].lit = url.path[i]
  <2>1. Solid(p) = Solid(url.path)
    BY <1>1 DEF Aligned, Solid, Lits
  <2>2. Place(p, i) = Place(url.path, i)
    BY <2>1 DEF Place
  <2>3. p[i] = t.path[i].lit
    BY DEF Lits
  <2>4. CASE i \in Solid(p)
    <3>1. p[i] \in {"{}", url.path[i]}
      BY <1>3, <2>1, <2>2, <2>4 DEF SegmentsZip
    <3> QED
      BY <1>4, <2>3, <3>1, PlainFacts
  <2>5. CASE i \notin Solid(p)
    BY <1>1, <2>3, <2>5 DEF Aligned, Solid, Lits
  <2> QED
    BY <2>4, <2>5
<1>5. ASSUME NEW i \in DOMAIN t.query, t.query[i].par = NoName PROVE t.query[i].lit = url.query[i]
  <2>1. t.query[i].lit[1] \in Keys(q) /\ t.query[i].lit[1] = url.query[i][1]
    BY <1>1, <1>2, QueryLits DEF Aligned
  <2>2. t.query[i].lit[2] \in {"{}", url.query[i][2]}
    BY <1>1, <1>2, <1>3, <2>1, QueryLits
  <2>3. t.query[i].lit[2] = url.query[i][2]
    BY <1>5, <2>2, PlainFacts
  <2> QED
    BY <1>1, <2>1, <2>3, SamePair, TemplateFacts, UrlFacts
<1> QED
  BY <1>4, <1>5

\* Reading the parameters of an aligned request undoes writing it.
LEMMA BoundUndoes ==
  ASSUME NEW t \in Templates, NEW url \in Urls, Plain(t), Names(t) # {},
         Parses(t, url), Aligned(t, url), MatchPath(Processed(t), url)
  PROVE  /\ FilledPath(t, Bound(t, url)) = url.path
         /\ FilledQuery(t, Bound(t, url)) = url.query
<1> DEFINE value == Bound(t, url)
<1>1. /\ DOMAIN t.path = DOMAIN url.path /\ DOMAIN t.query = DOMAIN url.query
      /\ \A i \in DOMAIN url.query : url.query[i] \in Seq(STRING) /\ Len(url.query[i]) = 2
      /\ url.path \in Seq(STRING) /\ url.query \in Seq(Seq(STRING))
  BY TemplateFacts, UrlFacts DEF Parses
<1>2. ASSUME NEW i \in DOMAIN t.path PROVE Filled(t.path[i], value) = url.path[i]
  BY LiteralsAgree, ValuesAtTheirPlace DEF Filled
<1>3. ASSUME NEW i \in DOMAIN t.query
      PROVE  (IF t.query[i].par = NoName THEN t.query[i].lit
              ELSE <<t.query[i].lit[1], value[t.query[i].par]>>) = url.query[i]
  <2>1. CASE t.query[i].par = NoName
    BY <2>1, LiteralsAgree
  <2>2. CASE t.query[i].par # NoName
    <3>1. value[t.query[i].par] = url.query[i][2] /\ t.query[i].lit[1] = url.query[i][1]
      BY <1>1, <2>2, ValuesAtTheirPlace DEF Aligned
    <3>2. url.query[i] = <<url.query[i][1], url.query[i][2]>>
      BY <1>1
    <3> QED
      BY <2>2, <3>1, <3>2
  <2> QED
    BY <2>1, <2>2
<1> HIDE DEF value
<1>4. FilledPath(t, value) = url.path
  BY <1>1, <1>2 DEF FilledPath
<1>5. FilledQuery(t, value) = url.query
  <2>1. FilledQuery(t, value) = [i \in DOMAIN url.query |-> url.query[i]]
    BY <1>1, <1>3 DEF FilledQuery
  <2>2. url.query = [i \in DOMAIN url.query |-> url.query[i]]
    BY <1>1
  <2> QED
    BY <2>1, <2>2
<1> QED
  BY <1>4, <1>5 DEF value

\* A lookup gives the handler the values the request was written with.
LEMMA BoundStep ==
  ASSUME BInv, BoundAsWritten, [Next]_vars
  PROVE  BoundAsWritten'
<1>1. CASE Register
  BY <1>1 DEF Register, RegisterHandler, RegisterRefused, RegisterFilter, FilterRefused, NoCall, BoundAsWritten
<1>2. ASSUME NEW url \in Urls, NEW m \in Methods, Find(url, m) PROVE BoundAsWritten'
  <2>1. PICK k \in Matching(url, m) :
          /\ last'.url = url /\ last'.handle = handles[k]
          /\ last'.outcome = IF Parses(handles[k].template, url) THEN "read" ELSE "queryError"
    BY <1>2 DEF Find
  <2> DEFINE t == handles[k].template
  <2>2. t \in Templates /\ Processed(t) = k /\ MatchPath(k, url)
    BY DEF Matching, WithMethod, BInv, TypeOK, KeysAreTemplates, Handle
  <2>3. last'.handle.template = t /\ (last'.outcome = "read" => Parses(t, url))
    BY <2>1
  <2> HIDE DEF t
  <2>4. ASSUME Parses(t, url), Plain(t), Names(t) # {}, Aligned(t, url)
        PROVE  FilledPath(t, Bound(t, url)) = url.path /\ FilledQuery(t, Bound(t, url)) = url.query
    BY <2>2, <2>4, BoundUndoes
  <2> QED
    BY <2>1, <2>3, <2>4 DEF BoundAsWritten
<1>3. ASSUME NEW url \in Urls, NEW m \in Methods, FindNothing(url, m) \/ FindUndefined(url, m)
      PROVE  BoundAsWritten'
  BY <1>3 DEF FindNothing, FindUndefined, NoCall, BoundAsWritten
<1>4. CASE UNCHANGED vars
  BY <1>4 DEF vars, BoundAsWritten
<1> QED
  BY <1>1, <1>2, <1>3, <1>4 DEF Next, Lookup

\* For any template that means what it says and any request aligned with it, the
\* handler reads back exactly the values the request was written with.
THEOREM BoundIsWritten == Spec => []BoundAsWritten
<1>1. Init => BoundAsWritten
  BY DEF Init, NoCall, BoundAsWritten
<1>2. BInv /\ [Next]_vars /\ BoundAsWritten => BoundAsWritten'
  BY BoundStep
<1> QED
  BY <1>1, <1>2, Inductive, PTL DEF Spec
=============================================================================
