----------------------------- MODULE AlertCases -----------------------------
(***************************************************************************)
(* What the alerts table promises its users: a finding has at most one     *)
(* current case.  A case is open or acknowledged; while it is current its  *)
(* severity only escalates; it ends only by being closed, and a closed     *)
(* finding may come back as an open case, by recurring or by a reopen.     *)
(***************************************************************************)
EXTENDS Integers

CONSTANTS
    Keys,               \* what findings are told apart by
    Severities,
    Rank(_)             \* how severe a severity is

VARIABLE case           \* case[k]: the current case of k, or NoCase

NoCase == [state |-> "none"]
Open(s) == [state |-> "open", sev |-> s]
Worse(s, t) == IF Rank(t) > Rank(s) THEN t ELSE s
Recurred(c, s) == [c EXCEPT !.sev = Worse(c.sev, s)]

Init == case = [k \in Keys |-> NoCase]

\* A finding opens a case, or adds to the current one.
Raise(k, s) == case' = [case EXCEPT ![k] = IF @ = NoCase THEN Open(s) ELSE Recurred(@, s)]

Acknowledge(k) ==
    /\ case[k] # NoCase
    /\ case' = [case EXCEPT ![k].state = "acked"]

Unacknowledge(k) ==
    /\ case[k] # NoCase
    /\ case' = [case EXCEPT ![k].state = "open"]

Close(S) == case' = [k \in Keys |-> IF k \in S THEN NoCase ELSE case[k]]

\* The user takes an old case up again: only when there is no current one.
TakeUp(k, s) ==
    /\ case[k] = NoCase
    /\ case' = [case EXCEPT ![k] = Open(s)]

Next ==
    \/ \E k \in Keys, s \in Severities : Raise(k, s) \/ TakeUp(k, s)
    \/ \E k \in Keys : Acknowledge(k) \/ Unacknowledge(k)
    \/ \E S \in SUBSET Keys : Close(S)

Spec == Init /\ [][Next]_case
=============================================================================
