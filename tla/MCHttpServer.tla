---------------------------- MODULE MCHttpServer ----------------------------
(* HttpServer for TLC: the requests of the runs. *)
EXTENDS HttpServer, TLC

CONSTANTS c1, c2, c3

Get == <<"eoh">>
GetAndMore == <<"eoh", "body">>
Post == <<"eoh", "body">>
SplitPost == <<"head", "eoh", "body">>

\* One connection sends bytes after its request, the other a header and a body.
MixedRequests == c1 :> GetAndMore @@ c2 :> SplitPost
MixedLength == c1 :> 0 @@ c2 :> 1

\* One sends bytes after its request; c3's header is malformed.
GetRequests == [d \in Conns |-> IF d = c1 THEN GetAndMore ELSE Get]
OnlyGets == [d \in Conns |-> Get]
NoLength == [d \in Conns |-> 0]

\* The client of a request in two pieces stays; the two with the same short one
\* come in order, which loses nothing, and may hang up.
SplitGet == <<"head", "eoh">>
SplitRequests == c1 :> SplitGet @@ c2 :> Get @@ c3 :> Get
OneStays == peer'[c1] # "closed" /\ (peer'[c3] # "new" => peer'[c2] # "new")
LiveSpec == /\ Init /\ [][Next /\ OneStays]_vars
            /\ WF_vars(Loop) /\ \A w \in Workers : WF_vars(Worker(w))

OnlyPosts == [d \in Conns |-> Post]
OneLength == [d \in Conns |-> 1]
=============================================================================
