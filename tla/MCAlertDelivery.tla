--------------------------- MODULE MCAlertDelivery ---------------------------
(* Values of the constants of AlertDelivery for TLC: no trusted list, no       *)
(* reopen requests, days of three hours.                                       *)
EXTENDS AlertDelivery

MCKeyRule  == [k \in Keys |-> "threat_feed"]
MCKeyAddrs == [k \in Keys |-> {}]
MCCovers   == [p \in Patterns |-> {}]
MCDefault  == [auto |-> 1, del |-> [s \in Severities |-> 1]]
JustDefault == {MCDefault}
=============================================================================
