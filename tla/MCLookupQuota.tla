--------------------------- MODULE MCLookupQuota ---------------------------
(* Values of the constants of LookupQuota for TLC. *)
EXTENDS LookupQuota, TLC

Symmetry   == Permutations(Workers)

MCLaneOf   == [r \in Records |-> IF r = "hash" THEN "files" ELSE "vt"]
MCSourceOf == [l \in Lanes |-> "virustotal"]
TwoADay    == [s \in Sources |-> 2]
OneADay    == [s \in Sources |-> 1]
NoLimit    == [s \in Sources |-> 0]
ThreeAMonth == [s \in Sources |-> 3]
TwoAtATime == [l \in Lanes |-> 2]
=============================================================================
