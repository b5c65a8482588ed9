--------------------------- MODULE MCAgentIngest ---------------------------
(* Instances of AgentIngest for TLC. *)
EXTENDS AgentIngest

(* One the handler accepts and one that Validate refuses. *)
ShortRetention == {[conn |-> 1, stale |-> 1, auto |-> FALSE], [conn |-> -1, stale |-> 0, auto |-> TRUE]}

(* A body of two items, a spool of two items in all its files. *)
TwoItems(b) == Cardinality(Content(b)) <= 2
TwoItemsInAll(s) ==
    \A i, j \in DOMAIN s : IF i = j THEN TwoItems(s[i]) ELSE Cardinality(Content(s[i])) + Cardinality(Content(s[j])) <= 2
=============================================================================
