---------------------------- MODULE MCHttpRouter ----------------------------
(* HttpRouter for TLC: filters and handlers of at most two steps. *)
EXTENDS HttpRouter

UpToTwo(S) == {<<>>} \cup {<<s>> : s \in S} \cup {<<s, t>> : s, t \in S}
AllFilters == UpToTwo({"pass", "deny", "throw", "escape"})
AllHandlers == UpToTwo({"respond", "throw", "escape"})
=============================================================================
