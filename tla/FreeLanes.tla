----------------------------- MODULE FreeLanes -----------------------------
(***************************************************************************)
(* The lanes of the enrichment worker that have no quota: where an address *)
(* is (the geo lane) and what the Malware Hash Registry knows of a file    *)
(* (the first half of the files lane).  A lane runs when its ticker fires, *)
(* when it is kicked, or in a request that waits for it; a request may     *)
(* also refresh an address past the lane.  Which items are due is read     *)
(* off their rows, so a failed one comes back only when its backoff ends.  *)
(*                                                                         *)
(* The two lanes share no row, no flag and no channel: lane says which one *)
(* a behaviour is about.                                                   *)
(***************************************************************************)
EXTENDS Integers, FiniteSets

CONSTANTS
    Addresses,      \* external addresses that show in the traffic
    SteadyAddresses,\* those that stay in it
    Hashes,         \* files the agents have reported, by their SHA-256
    Visitors,       \* goroutines of requests
    LaneBatch,      \* lookups a pass
    FreshFor,       \* ticks until an answer is refreshed
    RegistryRetry,  \* ticks until a failed lookup of a file is repeated
    DoublingCap,    \* the backoff of an address doubles up to this many attempts
    OldestAge,      \* bound: ages are counted up to here, older makes no difference
    MaxVisits,      \* bound: requests
    MaxLaneFaults   \* bound: failed statements, cancelled passes and restarts

LaneItems == Addresses \cup Hashes
Loop == "loop"
Runners == {Loop} \cup Visitors

ASSUME FreeLanesAssumption ==
    /\ Addresses \cap Hashes = {} /\ IsFiniteSet(LaneItems) /\ SteadyAddresses \subseteq Addresses
    /\ Loop \notin Visitors
    /\ {RegistryRetry, FreshFor, DoublingCap, MaxVisits, MaxLaneFaults} \subseteq Nat
    /\ LaneBatch \in Nat \ {0}
    /\ OldestAge \in Nat /\ OldestAge >= RegistryRetry /\ OldestAge >= FreshFor
    /\ OldestAge >= 2 ^ DoublingCap

VARIABLES
    lane,       \* "geo" or "files"
    looked,     \* looked[i]: the row of ip_info or file_intel
    digest,     \* the files whose MD5 or SHA-1 is known
    pass,       \* pass[g]: what goroutine g is doing
    busy,       \* the running flag of the lane
    signal,     \* its ticker and its kick channel, a buffer of one each
    visits, laneFaults

laneVars == <<lane, looked, digest, pass, busy, signal, visits, laneFaults>>

NoPass == [stage |-> "none", todo |-> {}, item |-> "none", status |-> "none"]

\* "pending": a row that VirusTotal created, or a file not looked up yet.
NotLookedUp == [status |-> IF lane = "geo" THEN "absent" ELSE "pending", age |-> 0, attempts |-> 0]

FreeLanesInit ==
    /\ lane \in {"geo", "files"}
    /\ looked = [i \in IF lane = "geo" THEN Addresses ELSE Hashes |-> NotLookedUp]
    /\ digest = {} /\ pass = [g \in Runners |-> NoPass] /\ busy = FALSE
    /\ signal = {"start"} /\ visits = 0 /\ laneFaults = 0

LaneFault == laneFaults < MaxLaneFaults /\ laneFaults' = laneFaults + 1
Visit == visits < MaxVisits /\ visits' = visits + 1

-----------------------------------------------------------------------------
(* Which items are due, and in which order *)

LeastOf(a, b) == IF a < b THEN a ELSE b

\* The attempts are never reset: they count the answers as well.
Backoff(i) == IF lane = "geo" THEN 2 ^ LeastOf(looked[i].attempts, DoublingCap) ELSE RegistryRetry

ItemDueUnlessFailed(i) ==       \* mutant: a failed lookup is not repeated
    /\ lane = "files" => i \in digest
    /\ \/ looked[i].status \in {"absent", "pending"}
       \/ looked[i].status = "ok" /\ looked[i].age >= FreshFor

\* EnrichmentCandidates, FileMHRCandidates.
ItemDue(i) ==
    /\ lane = "files" => i \in digest
    /\ \/ looked[i].status \in {"absent", "pending"}
       \/ looked[i].status = "ok" /\ looked[i].age >= FreshFor
       \/ looked[i].status = "failed" /\ looked[i].age >= Backoff(i)

\* Addresses without a row, and files without a lookup, come first; the rest
\* in the order of their traffic or priority.
Batches(seen) ==
    LET due   == {i \in seen : ItemDue(i)}
        first == {i \in due : looked[i].status = NotLookedUp.status}
    IN  {S \in SUBSET due : /\ Cardinality(S) = LeastOf(LaneBatch, Cardinality(due))
                            /\ S \subseteq first \/ first \subseteq S}

-----------------------------------------------------------------------------
(* Passes *)

\* The loop of the lane takes a signal; the running flag is taken by
\* compare-and-swap, and when it is set the pass is skipped.
WakeLane ==
    /\ pass[Loop] = NoPass
    /\ \E s \in signal : signal' = signal \ {s}
    /\ pass' = [pass EXCEPT ![Loop].stage = IF busy THEN "none" ELSE "select"]
    /\ busy' = TRUE
    /\ UNCHANGED <<lane, looked, digest, visits, laneFaults>>

SelectDue(g) ==
    /\ pass[g].stage = "select"
    /\ \E seen \in {DOMAIN looked, DOMAIN looked \ (Addresses \ SteadyAddresses)} :
          \E S \in Batches(seen) : pass' = [pass EXCEPT ![g].stage = "lookup", ![g].todo = S]
    /\ UNCHANGED <<lane, looked, digest, busy, signal, visits, laneFaults>>

\* What a provider of places, and the registry, may say.
GeoAnswers == {"located", "no data", "error"}
RegistryAnswers == {"listed", "not found", "error"}

\* A provider that knows nothing of an address has failed, the registry that
\* does not list a file has answered.
StatusOf(answer) == IF answer \in {"located", "listed", "not found"} THEN "ok" ELSE "failed"

AskProvider(g, i, answer) ==
    /\ answer \in (IF lane = "geo" THEN GeoAnswers ELSE RegistryAnswers)
    /\ pass[g].stage \in {"lookup", "refresh"}
    /\ i \in pass[g].todo
    /\ pass' = [pass EXCEPT ![g].item = i, ![g].status = StatusOf(answer), ![g].todo = pass[g].todo \ {i},
                   ![g].stage = IF pass[g].stage = "refresh" THEN "storeRefresh" ELSE "store"]
    /\ UNCHANGED <<lane, looked, digest, busy, signal, visits, laneFaults>>

\* UpsertIPInfo, UpsertFileMHR: the row that is there when the answer comes,
\* whoever wrote it meanwhile, gets the answer's status.
Answered(i, status) ==
    [status |-> status, age |-> 0, attempts |-> LeastOf(looked[i].attempts + 1, DoublingCap)]

\* On to the next candidate; a refresh has none.
AfterStore(g) ==
    IF pass[g].stage = "store" THEN [NoPass EXCEPT !.stage = "lookup", !.todo = pass[g].todo] ELSE NoPass

StoreAnswer(g) ==
    /\ pass[g].stage \in {"store", "storeRefresh"}
    /\ looked' = [looked EXCEPT ![pass[g].item] = Answered(pass[g].item, pass[g].status)]
    /\ pass' = [pass EXCEPT ![g] = AfterStore(g)]
    /\ UNCHANGED <<lane, digest, busy, signal, visits, laneFaults>>

FailStoring(g) ==
    /\ pass[g].stage \in {"store", "storeRefresh"} /\ LaneFault
    /\ pass' = [pass EXCEPT ![g] = AfterStore(g)]
    /\ UNCHANGED <<lane, looked, digest, busy, signal, visits>>

LeaveLane(g) == pass' = [pass EXCEPT ![g] = NoPass] /\ busy' = FALSE

EndLane(g) ==
    /\ pass[g].stage = "lookup" /\ pass[g].todo = {}
    /\ LeaveLane(g)
    /\ UNCHANGED <<lane, looked, digest, signal, visits, laneFaults>>

\* The candidates cannot be read, or the request that waits goes away.
CutLane(g) ==
    /\ \/ pass[g].stage = "select"
       \/ g \in Visitors /\ pass[g].stage = "lookup"
    /\ LaneFault
    /\ LeaveLane(g)
    /\ UNCHANGED <<lane, looked, digest, signal, visits>>

-----------------------------------------------------------------------------
(* Requests, the other lanes, the clock *)

RunNowAnyway(v) ==              \* mutant: the flag is set without looking at it
    /\ pass[v] = NoPass /\ Visit
    /\ pass' = [pass EXCEPT ![v].stage = "select"]
    /\ busy' = TRUE
    /\ UNCHANGED <<lane, looked, digest, signal, laneFaults>>

\* RunOnce, when no pass is under way.
RunNow(v) ==
    /\ pass[v] = NoPass /\ ~busy /\ Visit
    /\ pass' = [pass EXCEPT ![v].stage = "select"]
    /\ busy' = TRUE
    /\ UNCHANGED <<lane, looked, digest, signal, laneFaults>>

\* A kick that finds the buffer full is dropped.
Kick ==
    /\ Visit
    /\ signal' = signal \cup {"kick"}
    /\ UNCHANGED <<lane, looked, digest, pass, busy, laneFaults>>

\* LookupAndStore outside the lane: the running flag is not looked at.
RefreshAddress(v, a) ==
    /\ lane = "geo" /\ pass[v] = NoPass /\ Visit
    /\ pass' = [pass EXCEPT ![v] = [NoPass EXCEPT !.stage = "refresh", !.todo = {a}]]
    /\ UNCHANGED <<lane, looked, digest, busy, signal, laneFaults>>

\* VirusTotal's lane stores its report on an address that has no row yet.
UpsertVTRow(a) ==
    /\ looked[a].status = "absent"
    /\ looked' = [looked EXCEPT ![a].status = "pending"]
    /\ UNCHANGED <<lane, digest, pass, busy, signal, visits, laneFaults>>

\* An agent reports the file again, now with an MD5 or a SHA-1.
ReportDigest(h) ==
    /\ lane = "files" /\ h \notin digest
    /\ digest' = digest \cup {h}
    /\ UNCHANGED <<lane, looked, pass, busy, signal, visits, laneFaults>>

\* A tick of the clock is at least as long as a tick of the lane and as a
\* pass: it does not come before the loop has taken the last one.
LaneTick ==
    /\ signal \cap {"start", "tick"} = {}
    /\ signal' = signal \cup {"tick"}
    /\ looked' = [i \in DOMAIN looked |-> [looked[i] EXCEPT !.age = LeastOf(@ + 1, OldestAge)]]
    /\ UNCHANGED <<lane, digest, pass, busy, visits, laneFaults>>

LanesRestart ==
    /\ LaneFault
    /\ pass' = [g \in Runners |-> NoPass] /\ busy' = FALSE /\ signal' = {"start"}
    /\ UNCHANGED <<lane, looked, digest, visits>>

-----------------------------------------------------------------------------
\* The loop of the lane, or a request under way, goes on.
RunnerStep(g) ==
    \/ g = Loop /\ WakeLane
    \/ SelectDue(g) \/ StoreAnswer(g) \/ EndLane(g)
    \/ \E i \in DOMAIN looked, answer \in GeoAnswers \cup RegistryAnswers : AskProvider(g, i, answer)

FreeLanesNext ==
    \/ \E g \in Runners : RunnerStep(g) \/ FailStoring(g) \/ CutLane(g)
    \/ \E v \in Visitors : RunNow(v) \/ \E a \in DOMAIN looked : RefreshAddress(v, a)
    \/ \E a \in DOMAIN looked : UpsertVTRow(a) \/ ReportDigest(a)
    \/ Kick \/ LaneTick \/ LanesRestart

FreeLanesSpec == FreeLanesInit /\ [][FreeLanesNext]_laneVars

\* The loop and the requests under way go on, and so does the clock.  No
\* outage is for ever: what is asked for again and again is answered in the end.
FreeLanesFairness ==
    /\ \A g \in Runners : WF_laneVars(RunnerStep(g))
    /\ WF_laneVars(LaneTick)
    /\ \A i \in LaneItems : SF_laneVars(\E g \in Runners, answer \in {"located", "listed"} : AskProvider(g, i, answer))

-----------------------------------------------------------------------------
InLane(g) == pass[g].stage \in {"select", "lookup", "store"}

(* The flag is set exactly while the loop or a request runs the lane, one  *)
(* of them at a time, however ticks, kicks, requests that go away and      *)
(* restarts follow each other (scheduler.go, the CompareAndSwap of each    *)
(* lane).  So no two passes ask about the same item at once, and no pass   *)
(* asks about an item twice: what is about to be stored is off its list.   *)
OnePassPerLane ==
    /\ busy <=> \E g \in Runners : InLane(g)
    /\ \A g, h \in Runners : InLane(g) /\ InLane(h) => g = h
    /\ \A g \in Runners :
          pass[g].stage \in {"store", "storeRefresh"} => pass[g].item \in DOMAIN looked \ pass[g].todo

(* Whatever fails (the provider, a statement, a pass, the process) and     *)
(* however refreshes by hand, VirusTotal's rows and requested passes race  *)
(* with the lane, an address that stays in the traffic and a file with a   *)
(* digest are answered and stored again and again: the backoff delays an   *)
(* item, it never gives one up, and no item keeps another from its turn.   *)
ItemsStayFresh ==
    \A i \in LaneItems :
        i \in DOMAIN looked /\ i \in SteadyAddresses \cup digest
            ~> i \in DOMAIN looked /\ looked[i].status = "ok" /\ looked[i].age = 0
=============================================================================
