---------------------------- MODULE LookupQuota ----------------------------
(***************************************************************************)
(* The quota-limited lanes of the enrichment worker: VirusTotal reports on *)
(* addresses and on files, which share one API quota and a mutex, and the  *)
(* reputation sources, which have a quota each.  How much of a quota is    *)
(* used is not counted anywhere: it is derived from the time of the latest *)
(* lookup of every record, so that it survives a restart.                  *)
(***************************************************************************)
EXTENDS Integers, FiniteSets, FiniteSetsExt

CONSTANTS
    Lanes,
    Sources,        \* what is looked up at: virustotal, abuseipdb, ...
    SourceOf,       \* SourceOf[l]: the source of lane l
    Mutexed,        \* the sources whose lanes take the mutex vtQuota
    Daily,          \* Daily[s]: lookups a day
    Monthly,        \* Monthly[s]: lookups a month, 0 = no limit
    BatchSize,      \* BatchSize[l]: lookups a pass
    Records,        \* addresses and file hashes, one set for all lanes
    LaneOf,         \* LaneOf[r]: the lane r is a record of
    Steady,         \* records that always show in the traffic
    Refreshable,    \* lanes of which a user may refresh a record by hand
    Workers,        \* goroutines that run passes: the lane loops, "run now"
    Clients,        \* goroutines that serve "refresh"
    RefreshAfter,   \* ticks until a record is looked up again
    AttemptCap,     \* the backoff doubles up to this many attempts
    TicksPerDay, DaysPerMonth,      \* bounds: ticks in a day, days in a month
    MaxAge,         \* bound: ages are counted up to MaxAge, older makes no difference
    MaxSpent        \* bound: lookups of a day are counted up to MaxSpent

Goroutines == Workers \cup Clients
Nobody == "nobody"

ASSUME QuotaAssumption ==
    /\ SourceOf \in [Lanes -> Sources]
    /\ Mutexed \subseteq Sources
    /\ Daily \in [Sources -> Nat] /\ Monthly \in [Sources -> Nat]
    /\ BatchSize \in [Lanes -> Nat \ {0}]
    /\ IsFiniteSet(Records)
    /\ LaneOf \in [Records -> Lanes]
    /\ Steady \subseteq Records
    /\ Refreshable \subseteq Lanes
    /\ Workers \cap Clients = {} /\ Nobody \notin Workers
    /\ RefreshAfter \in Nat
    /\ {AttemptCap, TicksPerDay, DaysPerMonth, MaxSpent} \subseteq Nat \ {0}
    /\ MaxAge \in Nat /\ MaxAge >= RefreshAfter /\ MaxAge >= 2 ^ (AttemptCap - 1)
    /\ \A l, m \in Lanes : SourceOf[l] = SourceOf[m] => l = m \/ SourceOf[l] \in Mutexed

VARIABLES
    record,     \* record[r]: what ip_info, file_intel or ip_reputation has of r
    running,    \* lanes with a pass under way
    holder,     \* the goroutine that holds the mutex, or Nobody
    job,        \* job[g]: the pass or the refresh goroutine g is in
    tick, day,  \* UTC time of the day, day of the month
    spent       \* history: lookups passes have had answered today, by source

vars == <<record, running, holder, job, tick, day, spent>>

-----------------------------------------------------------------------------
\* when tells the days and months lookup_at is counted in; by is history.
Record == [when : {"never", "today", "month", "earlier"}, age : 0..MaxAge,
           status : {"none", "ok", "failed"}, attempts : 0..AttemptCap,
           by : {"none", "pass", "user"}]

NoLookup == [when |-> "never", age |-> 0, status |-> "none", attempts |-> 0, by |-> "none"]

\* UpsertVT, UpsertFileVT, UpsertReputation.
LookedUp(r, status, by) ==
    [when |-> "today", age |-> 0, status |-> status,
     attempts |-> Min({record[r].attempts + 1, AttemptCap}), by |-> by]

RecordsOf(s)     == {r \in Records : SourceOf[LaneOf[r]] = s}
UsedToday(s)     == {r \in RecordsOf(s) : record[r].when = "today"}
UsedThisMonth(s) == {r \in RecordsOf(s) : record[r].when \in {"today", "month"}}

Budget(s) ==
    LET daily   == Daily[s] - Cardinality(UsedToday(s))
        monthly == Monthly[s] - Cardinality(UsedThisMonth(s))
    IN  IF Monthly[s] > 0 /\ monthly < daily THEN monthly ELSE daily

\* VTCandidates, FileVTCandidates, ReputationCandidates.
Due(r) ==
    \/ record[r].when = "never"
    \/ record[r].status = "ok" /\ record[r].age >= RefreshAfter
    \/ record[r].status = "failed" /\ record[r].age >= 2 ^ (record[r].attempts - 1)

SelectionsUnordered(l, seen, n) ==      \* mutant: no order among the candidates
    LET due == {r \in seen : LaneOf[r] = l /\ Due(r)}
    IN  {S \in SUBSET due : Cardinality(S) = Min({n, Cardinality(due)})}

\* At most n of the candidates, those never looked up before first.
Selections(l, seen, n) ==
    LET due   == {r \in seen : LaneOf[r] = l /\ Due(r)}
        fresh == {r \in due : record[r].when = "never"}
    IN  {S \in SUBSET due : /\ Cardinality(S) = Min({n, Cardinality(due)})
                            /\ S \subseteq fresh \/ fresh \subseteq S}

-----------------------------------------------------------------------------
(* A pass of a lane *)

NoJob == [stage |-> "none", lane |-> Nobody, limit |-> 0, todo |-> {},
          item |-> Nobody, status |-> "none"]

AtRest(g) == job[g] = NoJob

EndHoldingMutex(w) ==           \* mutant: the mutex is not unlocked
    /\ job' = [job EXCEPT ![w] = NoJob]
    /\ running' = running \ {job[w].lane}
    /\ UNCHANGED holder

\* The pass is over: the mutex is unlocked and the lane may run again.
End(w) ==
    /\ job' = [job EXCEPT ![w] = NoJob]
    /\ running' = running \ {job[w].lane}
    /\ holder' = IF holder = w THEN Nobody ELSE holder

clock == <<tick, day>>

\* The lane's running flag is taken by compare-and-swap; when it is set the
\* pass is skipped.
BeginPass(w, l) ==
    /\ AtRest(w)
    /\ l \notin running
    /\ running' = running \cup {l}
    /\ job' = [job EXCEPT ![w] = [NoJob EXCEPT
                    !.stage = IF SourceOf[l] \in Mutexed THEN "lock" ELSE "usage", !.lane = l]]
    /\ UNCHANGED <<record, holder, clock, spent>>

LockAlways(w) ==                \* mutant: no mutual exclusion
    /\ job[w].stage = "lock"
    /\ holder' = w
    /\ job' = [job EXCEPT ![w].stage = "usage"]
    /\ UNCHANGED <<record, running, clock, spent>>

Lock(w) ==
    /\ job[w].stage = "lock"
    /\ holder = Nobody
    /\ holder' = w
    /\ job' = [job EXCEPT ![w].stage = "usage"]
    /\ UNCHANGED <<record, running, clock, spent>>

ReadUsageUnchecked(w) ==        \* mutant: a negative budget is not caught
    /\ job[w].stage = "usage"
    /\ job' = [job EXCEPT ![w].stage = "select",
                          ![w].limit = Min({BatchSize[job[w].lane], Budget(SourceOf[job[w].lane])})]
    /\ UNCHANGED <<record, running, holder, clock, spent>>

\* What is left of the quota limits the pass; with nothing left it is over.
ReadUsage(w) ==
    /\ job[w].stage = "usage"
    /\ LET budget == Budget(SourceOf[job[w].lane])
       IN  IF budget <= 0 THEN End(w)
           ELSE /\ job' = [job EXCEPT ![w].stage = "select",
                                      ![w].limit = Min({BatchSize[job[w].lane], budget})]
                /\ UNCHANGED <<running, holder>>
    /\ UNCHANGED <<record, clock, spent>>

SelectCandidates(w) ==
    /\ job[w].stage = "select"
    /\ \E seen \in SUBSET Records :
        /\ Steady \subseteq seen
        /\ \E S \in Selections(job[w].lane, seen, job[w].limit) :
            job' = [job EXCEPT ![w].stage = "lookup", ![w].todo = S]
    /\ UNCHANGED <<record, running, holder, clock, spent>>

\* The source answers, with a report or with an error; "not found" is a report.
Lookup(w, r, status) ==
    /\ job[w].stage = "lookup"
    /\ r \in job[w].todo
    /\ job' = [job EXCEPT ![w] = [@ EXCEPT
                  !.stage = "store", !.todo = job[w].todo \ {r}, !.item = r, !.status = status]]
    /\ spent' = [spent EXCEPT ![SourceOf[job[w].lane]] = Min({@ + 1, MaxSpent})]
    /\ UNCHANGED <<record, running, holder, clock>>

\* Storing the answer may fail; the pass goes on.
Store(w) ==
    /\ job[w].stage = "store"
    /\ LET r == job[w].item
       IN  record' = [record EXCEPT ![r] = LookedUp(r, job[w].status, "pass")]
    /\ job' = [job EXCEPT ![w] = [@ EXCEPT !.stage = "lookup", !.item = Nobody, !.status = "none"]]
    /\ UNCHANGED <<running, holder, clock, spent>>

FailStore(w) ==
    /\ job[w].stage = "store"
    /\ job' = [job EXCEPT ![w] = [@ EXCEPT !.stage = "lookup", !.item = Nobody, !.status = "none"]]
    /\ UNCHANGED <<record, running, holder, clock, spent>>

EndPass(w) ==
    /\ job[w].stage = "lookup"
    /\ job[w].todo = {}
    /\ End(w)
    /\ UNCHANGED <<record, clock, spent>>

\* The source says the quota is exceeded (429), the request that runs the pass
\* is cancelled, or a query fails: the pass stops with candidates left over.
CutShort(w) ==
    /\ \/ job[w].stage = "lookup" /\ job[w].todo # {}
       \/ job[w].stage \in {"usage", "select"}
    /\ End(w)
    /\ UNCHANGED <<record, clock, spent>>

-----------------------------------------------------------------------------
(* A user refreshes a record: LookupVT outside of the lane and its mutex *)

Refresh(c, r, status) ==
    /\ AtRest(c)
    /\ LaneOf[r] \in Refreshable
    /\ job' = [job EXCEPT ![c] = [NoJob EXCEPT !.stage = "store", !.item = r, !.status = status]]
    /\ UNCHANGED <<record, running, holder, clock, spent>>

StoreRefresh(c) ==
    /\ job[c].stage = "store"
    /\ LET r == job[c].item
       IN  record' = [record EXCEPT ![r] = LookedUp(r, job[c].status, "user")]
    /\ job' = [job EXCEPT ![c] = NoJob]
    /\ UNCHANGED <<running, holder, clock, spent>>

FailRefresh(c) ==
    /\ job[c].stage = "store"
    /\ job' = [job EXCEPT ![c] = NoJob]
    /\ UNCHANGED <<record, running, holder, clock, spent>>

-----------------------------------------------------------------------------
(* Time and restarts *)

\* What becomes of when as midnight, or the end of the month, goes by.
Turned(when, month) ==
    CASE when = "never" -> "never"
      [] when = "today" -> IF month THEN "earlier" ELSE "month"
      [] when = "month" -> IF month THEN "earlier" ELSE "month"
      [] when = "earlier" -> "earlier"

Elapse ==
    LET midnight == tick = TicksPerDay - 1
        month    == midnight /\ day = DaysPerMonth - 1
    IN  /\ tick' = (tick + 1) % TicksPerDay
        /\ day' = IF midnight THEN (day + 1) % DaysPerMonth ELSE day
        /\ record' = [r \in Records |-> [record[r] EXCEPT
                        !.when = IF midnight THEN Turned(@, month) ELSE @,
                        !.age  = IF record[r].when = "never" THEN 0 ELSE Min({@ + 1, MaxAge})]]
        /\ spent' = IF midnight THEN [s \in Sources |-> 0] ELSE spent
        /\ UNCHANGED <<running, holder, job>>

Restart ==
    /\ running' = {}
    /\ holder' = Nobody
    /\ job' = [g \in Goroutines |-> NoJob]
    /\ UNCHANGED <<record, clock, spent>>

-----------------------------------------------------------------------------
Init ==
    /\ record = [r \in Records |-> NoLookup]
    /\ running = {}
    /\ holder = Nobody
    /\ job = [g \in Goroutines |-> NoJob]
    /\ tick = 0 /\ day = 0
    /\ spent = [s \in Sources |-> 0]

Answers == {"ok", "failed"}

PassStep(w) ==
    \/ Lock(w)
    \/ ReadUsage(w)
    \/ SelectCandidates(w)
    \/ \E r \in Records, status \in Answers : Lookup(w, r, status)
    \/ Store(w)
    \/ FailStore(w)
    \/ EndPass(w)
    \/ CutShort(w)

RefreshStep(c) ==
    \/ \E r \in Records, status \in Answers : Refresh(c, r, status)
    \/ StoreRefresh(c)
    \/ FailRefresh(c)

Next ==
    \/ \E w \in Workers, l \in Lanes : BeginPass(w, l)
    \/ \E w \in Workers : PassStep(w)
    \/ \E c \in Clients : RefreshStep(c)
    \/ Elapse
    \/ Restart

Spec == Init /\ [][Next]_vars
-----------------------------------------------------------------------------
(* Properties *)

\* The columns, the flags, the mutex and what a pass has read stay in their types;
\* a pass never goes on with a budget that is negative.
QuotaTypeOK ==
    /\ record \in [Records -> Record]
    /\ running \subseteq Lanes
    /\ holder \in Workers \cup {Nobody}
    /\ job \in [Goroutines ->
            [stage : {"none", "lock", "usage", "select", "lookup", "store"},
             lane : Lanes \cup {Nobody}, limit : Nat, todo : SUBSET Records,
             item : Records \cup {Nobody}, status : {"none", "ok", "failed"}]]
    /\ tick \in 0..(TicksPerDay - 1)
    /\ day \in 0..(DaysPerMonth - 1)
    /\ spent \in [Sources -> 0..MaxSpent]

\* "each pass spends at most min(daily left, monthly left, VT_BATCH_SIZE)"
\* (README.md) and "serialises the two consumers of the VirusTotal quota"
\* (scheduler.go): however passes of the lanes of a source, "run now" requests,
\* refreshes by hand, midnights and restarts interleave, the lookups passes have
\* on record never exceed the quota of the day or of the month.
RecordedWithinQuota ==
    \A s \in Sources :
        /\ Cardinality({r \in UsedToday(s) : record[r].by = "pass"}) <= Daily[s]
        /\ Monthly[s] > 0 =>
              Cardinality({r \in UsedThisMonth(s) : record[r].by = "pass"}) <= Monthly[s]

\* "so a restart never overspends the quota" (README.md), of the lookups that
\* were made, not of those on record.
SpentWithinQuota == \A s \in Sources : spent[s] <= Daily[s]

\* The loops start passes again and again, passes go on to their end, time goes
\* by.  A sync.Mutex is handed to a goroutine that has waited long, so that
\* others cannot keep it from the mutex for ever.
Fairness ==
    /\ \A w \in Workers : WF_vars(PassStep(w)) /\ SF_vars(Lock(w))
    /\ \A l \in Lanes : WF_vars(\E w \in Workers : BeginPass(w, l))
    /\ WF_vars(Elapse)

FairSpec == Spec /\ Fairness

\* No lane is left marked as running, and the mutex is not left locked, by any of
\* the ways a pass may end.
PassesEnd == \A l \in Lanes : l \in running ~> l \notin running

\* A pass stops, for whatever reason, although it had something left to do.
StopsEarly(w) ==
    /\ job'[w] = NoJob
    /\ \/ job[w].todo # {}
       \/ job[w].stage \in {"lock", "select", "store"}
       \/ job[w].stage = "usage" /\ Budget(SourceOf[job[w].lane]) > 0

\* An address that shows in the traffic is looked up in the end, however small
\* the quota: once users, restarts and errors leave the lane alone, the quota
\* comes back at midnight and addresses never looked up go first.
SteadyAreLookedUp ==
    <>[][/\ ~\E w \in Workers : StopsEarly(w) \/ FailStore(w)
         /\ ~\E c \in Clients, r \in Records, a \in Answers : Refresh(c, r, a)]_vars
        => \A r \in Steady : <>(record[r].when # "never")
=============================================================================
