----------------------------- MODULE RowCustody -----------------------------
(***************************************************************************)
(* What agents and server promise of a row of connections, without the     *)
(* messages, files and transactions they keep it with.  The machine that   *)
(* observed a row has it, in memory or on disk, and no other machine does, *)
(* until the row is in the database or is given up; a row that is gone     *)
(* does not come back.  It reaches the database while its machine has it,  *)
(* and again only when the machine could not know that it had.             *)
(***************************************************************************)
EXTENDS Naturals

CONSTANTS
    Machines,   \* computers that run an agent
    Rows        \* per-minute connection aggregates

VARIABLES
    at,         \* the machines that have a row
    marks,      \* what has become of it
    times       \* in the database: not (0), once (1), more than once (2)

custody == <<at, marks, times>>

Marks == {"seen", "kept", "lost", "unsure"}

Init ==
    /\ at = [r \in Rows |-> {}]
    /\ marks = [r \in Rows |-> {}]
    /\ times = [r \in Rows |-> 0]

(* The row is where it was, and has some marks more.                       *)
Marked(r, new) == at'[r] = at[r] /\ marks'[r] = marks[r] \cup new /\ times'[r] = times[r]
Leaves(r, new) == at'[r] = {} /\ marks'[r] = marks[r] \cup new /\ times'[r] = times[r]

Stays(r) == Marked(r, {})

(* A row is observed once; an aggregator that is full gives it up.         *)
Appears(m, r) ==
    /\ "seen" \notin marks[r]
    /\ \/ at'[r] = {m} /\ marks'[r] = marks[r] \cup {"seen"} /\ times'[r] = times[r]
       \/ Leaves(r, {"seen", "lost"})

(* What the database has is stored again only in doubt.                    *)
IsStored(m, r) ==
    /\ at[r] = {m} /\ at'[r] = at[r]
    /\ "kept" \in marks[r] => "unsure" \in marks[r]
    /\ marks'[r] = marks[r] \cup {"kept"}
    /\ times'[r] = IF times[r] = 0 THEN 1 ELSE 2

IsRefused(m, r) == at[r] = {m} /\ Marked(r, {"lost"})
IsDoubted(m, r) == at[r] = {m} /\ "kept" \in marks[r] /\ Marked(r, {"unsure"})

(* A machine lets go of what is settled, or gives a row up.                *)
IsReleased(m, r) == at[r] = {m} /\ marks[r] \cap {"kept", "lost"} # {} /\ Leaves(r, {})
IsGivenUp(m, r)  == at[r] = {m} /\ Leaves(r, {"lost"})

(* A step of a machine, or of the server for it, is about several rows.    *)
Carry(m) ==
    \A r \in Rows :
        \/ Stays(r) \/ Appears(m, r)
        \/ IsStored(m, r) \/ IsRefused(m, r) \/ IsDoubted(m, r)
        \/ IsReleased(m, r) \/ IsGivenUp(m, r)

(* Retention and the deletion of agents empty the database.                *)
Prune == \A r \in Rows : at'[r] = at[r] /\ marks'[r] = marks[r] /\ times'[r] <= times[r]

Next ==
    /\ at' \in [Rows -> SUBSET Machines]
    /\ marks' \in [Rows -> SUBSET Marks]
    /\ times' \in [Rows -> 0..2]
    /\ Prune \/ \E m \in Machines : Carry(m)

Spec == Init /\ [][Next]_custody
=============================================================================
