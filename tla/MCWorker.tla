------------------------------ MODULE MCWorker ------------------------------
(***************************************************************************)
(* The lanes of the enrichment worker, those with a quota and those        *)
(* without, for liveness.  They share no lock and decide on columns of     *)
(* their own; that VirusTotal's lane may be the first to insert the row of *)
(* an address is an action of FreeLanes.  So a behaviour moves the ones or *)
(* the others, and moving says which.                                      *)
(***************************************************************************)
EXTENDS LookupQuota, FreeLanes

CONSTANT Moving
VARIABLE moving

workerVars == <<vars, laneVars, moving>>

WorkerInit ==
    /\ moving \in Moving /\ Init /\ FreeLanesInit
    /\ moving = "quota" => lane = "geo"

WorkerNext ==
    \/ moving = "quota" /\ Next /\ UNCHANGED <<laneVars, moving>>
    \/ moving = "free" /\ FreeLanesNext /\ UNCHANGED <<vars, moving>>

WorkerFairness == (moving = "quota" /\ Fairness) \/ (moving = "free" /\ FreeLanesFairness)

WorkerSpec == WorkerInit /\ [][WorkerNext]_workerVars /\ WorkerFairness

(* Properties of some lanes hold of the behaviours that move them. *)
QuotaPassesEnd    == moving = "quota" => PassesEnd
SteadyAreReported == moving = "quota" => SteadyAreLookedUp
LookupsKeepUp     == moving = "free" => ItemsStayFresh
-----------------------------------------------------------------------------
MCLaneOf   == [r \in Records |-> "vt"]
MCSourceOf == [l \in Lanes |-> "virustotal"]
OneADay    == [s \in Sources |-> 1]
TwoAtATime == [l \in Lanes |-> 2]
=============================================================================
