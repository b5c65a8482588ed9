------------------------------ MODULE MCAlerts ------------------------------
(* Values of the constants of Alerts for TLC. *)
EXTENDS Alerts, TLC

\* Two findings of one rule about the same host, the second with a peer that a
\* hostname glob covers once its name is known.
MCKeyRule  == [k \in Keys |-> "threat_feed"]
OneKey     == {"k1"}
Symmetry   == Permutations(Clients)
MCKeyAddrs == [k \in Keys |-> IF k = "k1" THEN {"host"} ELSE {"peer"}]
MCCovers   == [p \in Patterns |-> IF p = "host" THEN {"host"} ELSE {"peer"}]

Days(auto, info, other) ==
    [auto |-> auto, del |-> [s \in Severities |-> IF s = "info" THEN info ELSE other]]
MCDefault    == Days(1, 1, 1)
JustDefault  == {MCDefault}
MCRetentions == {MCDefault, Days(1, 1, 0)}
=============================================================================
