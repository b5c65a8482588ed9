------------------------------- MODULE Alerts -------------------------------
(***************************************************************************)
(* The alerts table and everything that writes to it: the rule passes of   *)
(* the engine (ticker, "Run now", Suricata), the alert and trusted-list    *)
(* handlers of the HTTP API, the auto-resolve of the engine's tick and the *)
(* retention of the maintenance job.  Each step is one database statement, *)
(* so everything a goroutine read in an earlier step may be stale.         *)
(***************************************************************************)
EXTENDS Integers, FiniteSets

CONSTANTS
    Keys,           \* dedupe keys, rule|host|peer[|port][|key]
    Rules,          \* rule names
    Addrs,          \* addresses findings are about
    KeyRule,        \* KeyRule[k]: the rule in k
    KeyAddrs,       \* KeyAddrs[k]: the host and the peer in k
    FindingSevs,    \* severities the findings carry
    Patterns,       \* trusted-list patterns an administrator may enter
    NamePatterns,   \* those that are hostname globs
    Covers,         \* Covers[p]: the addresses p matches
    Retentions,     \* retention settings an administrator may save
    DefaultRetention,
    RenotifyAfter,  \* NOTIFY_RENOTIFY_AFTER, in ticks of Elapse
    Evaluators,     \* goroutines that run rule passes: Ticker, the handlers
    Ticker,         \* of "Run now" and the Suricata listener.  Ticker is the
                    \* one of Engine.Run, it also resolves the stale alerts.
    Clients,        \* goroutines that serve API requests
    Maintenance,    \* the goroutine of the worker's maintenance job
    MaxId,          \* bound: rows ever inserted
    MaxAge          \* bound: ages are counted up to MaxAge

Never == -1         \* a timestamp column that is NULL

\* Severities in increasing order.
Severities == {"info", "warning", "critical"}
States     == {"open", "acked", "resolved"}

Ids  == 1..MaxId
Ages == 0..MaxAge
Finding == Keys \X FindingSevs
Retention == [auto : 1..(MaxAge - 1), del : [Severities -> 0..(MaxAge - 1)]]

ASSUME ConstantsAssumption ==
    /\ KeyRule \in [Keys -> Rules]
    /\ KeyAddrs \in [Keys -> SUBSET Addrs]
    /\ FindingSevs \subseteq Severities
    /\ NamePatterns \subseteq Patterns
    /\ Covers \in [Patterns -> SUBSET Addrs]
    /\ MaxId \in Nat
    /\ MaxAge \in Nat
    /\ DefaultRetention \in Retentions
    /\ Ticker \in Evaluators
    /\ Maintenance \notin Clients
    /\ Retentions \subseteq Retention
    /\ RenotifyAfter \in Nat

VARIABLES
    alerts,     \* the table: a row or NoRow for every id
    nextId,     \* alerts.id is a bigserial: ids are never given out twice
    trusted,    \* the table alert_exclusions
    named,      \* the addresses some name is known for (ip_names, ip_info)
    retention,  \* settings["alert_retention"]
    pass,       \* pass[e]: the rule pass goroutine e is in
    client      \* client[c]: the request (or job) goroutine c is serving

dbVars == <<alerts, nextId, trusted, named, retention>>
vars   == <<dbVars, pass, client>>

Servers == Clients \cup {Maintenance}

-----------------------------------------------------------------------------
(* Rows.  resolved and notified are the ages of resolved_at and notified_at.  *)
(* idle is the time since GREATEST(last_seen, reopened_at), all that is ever  *)
(* read of those two columns; nothing reads it of a resolved row, where it is *)
(* 0.  acked_at is only displayed and left out.                               *)

Row == [key : Keys, sev : Severities, state : States, idle : Ages,
        resolved : Ages \cup {Never}, notified : Ages \cup {Never}]

\* Not a row: its state is none of States.
NoRow == [state |-> "none"]

NewRow(k, s) ==
    [key |-> k, sev |-> s, state |-> "open", idle |-> 0,
     resolved |-> Never, notified |-> Never]

Exists(i)   == alerts[i].state \in States
Resolved(i) == alerts[i].state = "resolved"
Live(i)     == alerts[i].state \in {"open", "acked"}

LiveIds    == {i \in Ids : Live(i)}
LiveOf(k)  == {i \in LiveIds : alerts[i].key = k}

\* The columns a statement sets, on the rows it selects.
AsResolvedUndated(r) == [r EXCEPT !.state = "resolved", !.idle = 0]     \* mutant
AsReopenedDated(r)   == [r EXCEPT !.state = "open", !.idle = 0]         \* mutant

AsResolved(r) == [r EXCEPT !.state = "resolved", !.resolved = 0, !.idle = 0]
AsReopened(r) == [r EXCEPT !.state = "open", !.resolved = Never, !.idle = 0]
ResolveRows(S) == alerts' = [i \in Ids |-> IF i \in S THEN AsResolved(alerts[i])
                                                      ELSE alerts[i]]
DeleteRows(S)  == alerts' = [i \in Ids |-> IF i \in S THEN NoRow ELSE alerts[i]]

SeverityRank(s) == CASE s = "critical" -> 3 [] s = "warning" -> 2 [] s = "info" -> 1

\* The severity of a row a finding of severity s bumps: it only escalates.
EscalatedToLatest(old, s) == s                                          \* mutant

Escalated(old, s) ==
    IF s = "critical" \/ (s = "warning" /\ old = "info") THEN s ELSE old

Bumped(r, s) == [r EXCEPT !.sev = Escalated(@, s), !.idle = 0]

\* A trusted-list pattern matches an address directly or through its names.
Matches(p, a)  == a \in Covers[p] /\ (p \in NamePatterns => a \in named)
Covered(P, k)  == \E p \in P, a \in KeyAddrs[k] : Matches(p, a)

-----------------------------------------------------------------------------
(* Rule passes: RunRule and RaiseIDS *)

NoPass == [stage |-> "none", todo |-> {}, raised |-> {}, keep |-> DefaultRetention]

AtRest(e) == pass[e] = NoPass

BeginPassUnfiltered(e) ==       \* mutant: the trusted list is not applied
    /\ AtRest(e)
    /\ \E F \in SUBSET Finding :
        /\ \A f, g \in F : KeyRule[f[1]] = KeyRule[g[1]]
        /\ F # {}
        /\ pass' = [pass EXCEPT ![e] = [NoPass EXCEPT !.stage = "raise", !.todo = F]]
    /\ UNCHANGED <<dbVars, client>>

\* evaluate: the detector's findings, less those the trusted list covers as it
\* reads now.  A pass that is left with nothing writes nothing.
BeginPass(e) ==
    /\ AtRest(e)
    /\ \E F \in SUBSET Finding :
        /\ \A f, g \in F : KeyRule[f[1]] = KeyRule[g[1]]
        /\ LET kept == {f \in F : ~Covered(trusted, f[1])}
           IN  /\ kept # {}
               /\ pass' = [pass EXCEPT ![e] = [NoPass EXCEPT !.stage = "raise", !.todo = kept]]
    /\ UNCHANGED <<dbVars, client>>

\* An alert goes to the notifier when it is new, was never sent, or was sent
\* longer than RenotifyAfter ago.
ToNotify(r) == r.notified = Never \/ r.notified > RenotifyAfter

\* INSERT ... ON CONFLICT (dedupe_key) WHERE state <> 'resolved' DO UPDATE.
InsertAlert(k, s) ==
    /\ LiveOf(k) = {}
    /\ nextId \in Ids
    /\ alerts' = [alerts EXCEPT ![nextId] = NewRow(k, s)]
    /\ nextId' = nextId + 1

BumpAlert(k, s, i) ==
    /\ i \in LiveOf(k)
    /\ alerts' = [alerts EXCEPT ![i] = Bumped(@, s)]
    /\ UNCHANGED nextId

UpsertAlertReusingIds(k, s, i) ==       \* mutant: the ids of deleted rows come back
    \/ /\ LiveOf(k) = {}
       /\ ~Exists(i) /\ \A j \in 1..(i - 1) : Exists(j)
       /\ alerts' = [alerts EXCEPT ![i] = NewRow(k, s)]
       /\ UNCHANGED nextId
    \/ BumpAlert(k, s, i)

UpsertAlert(k, s, i) == (i = nextId /\ InsertAlert(k, s)) \/ BumpAlert(k, s, i)

RaiseFinding(e) ==
    \E f \in pass[e].todo, i \in Ids :
        /\ UpsertAlert(f[1], f[2], i)
        /\ pass' = [pass EXCEPT ![e] = [@ EXCEPT
                        !.todo = pass[e].todo \ {f},
                        !.raised = IF ToNotify(alerts'[i])
                                   THEN pass[e].raised \cup {<<i, alerts'[i].sev>>}
                                   ELSE pass[e].raised]]
        /\ UNCHANGED <<trusted, named, retention, client>>

\* A statement of the pass fails: RunRule returns, and tells the notifier
\* nothing of the alerts it has already written.
FailPass(e) ==
    /\ pass[e].stage = "raise"
    /\ pass[e].todo # {}
    /\ pass' = [pass EXCEPT ![e] = NoPass]
    /\ UNCHANGED <<dbVars, client>>

\* The pass is over; without a notification channel Notify does nothing more.
EndPass(e) ==
    /\ pass[e].stage = "raise"
    /\ pass[e].todo = {}
    /\ pass' = [pass EXCEPT ![e] = NoPass]
    /\ UNCHANGED <<dbVars, client>>

\* The end of a tick: the retention is read, its default when that fails, and
\* then the stale alerts are resolved, or that fails.
EndTick(e) ==
    /\ AtRest(e)
    /\ \E r \in {retention, DefaultRetention} :
        pass' = [pass EXCEPT ![e] = [NoPass EXCEPT !.stage = "resolve", !.keep = r]]
    /\ UNCHANGED <<dbVars, client>>

AutoResolveStale(e) ==
    /\ pass[e].stage = "resolve"
    /\ ResolveRows({i \in LiveIds : alerts[i].idle > pass[e].keep.auto})
    /\ pass' = [pass EXCEPT ![e] = NoPass]
    /\ UNCHANGED <<nextId, trusted, named, retention, client>>

FailTick(e) ==
    /\ pass[e].stage = "resolve"
    /\ pass' = [pass EXCEPT ![e] = NoPass]
    /\ UNCHANGED <<dbVars, client>>

-----------------------------------------------------------------------------
(* Requests about alerts *)

NoRequest == [op |-> "none", id |-> 0, patterns |-> {}, ids |-> {},
              keep |-> DefaultRetention]

Idle(c) == client[c] = NoRequest
Done(c) == client' = [client EXCEPT ![c] = NoRequest]
onlyAlerts == UNCHANGED <<nextId, trusted, named, retention, pass>>

\* POST /alerts/{id}/ack and /resolve: one statement each.
AckAlert(i) ==
    /\ Live(i)
    /\ alerts' = [alerts EXCEPT ![i].state = "acked"]
    /\ onlyAlerts /\ UNCHANGED client

ResolveAlert(i) ==
    /\ Live(i)
    /\ ResolveRows({i})
    /\ onlyAlerts /\ UNCHANGED client

\* POST /alerts/{id}/reopen: first acked -> open; when that changed no row,
\* ReopenAlert, whose NOT EXISTS sees the table as its statement started and
\* whose write meets the unique index on live rows later.
Reopen(c, i) ==
    /\ Idle(c)
    /\ Exists(i)
    /\ IF alerts[i].state = "acked"
       THEN /\ alerts' = [alerts EXCEPT ![i].state = "open"]
            /\ UNCHANGED client
       ELSE /\ client' = [client EXCEPT ![c] = [NoRequest EXCEPT !.op = "reopen", !.id = i]]
            /\ UNCHANGED alerts
    /\ onlyAlerts

\* WHERE a.state = 'resolved' AND NOT EXISTS (a live row with the same key).
MayReopen(i) == Resolved(i) /\ LiveOf(alerts[i].key) = {}

ReopenSelect(c) ==
    /\ client[c].op = "reopen"
    /\ IF MayReopen(client[c].id)
       THEN client' = [client EXCEPT ![c].op = "reopenWrite"]
       ELSE Done(c)                                  \* 409 or 404
    /\ UNCHANGED <<dbVars, pass>>

KeyIsAlwaysFree(k) == TRUE      \* mutant: no unique index

\* The row is checked again as it is locked, the key by the unique index: a
\* violation is an error (500) and changes nothing.
KeyIsFree(k) == LiveOf(k) = {}

ReopenWrite(c) ==
    /\ client[c].op = "reopenWrite"
    /\ LET i == client[c].id
       IN  IF Resolved(i) /\ KeyIsFree(alerts[i].key)
           THEN alerts' = [alerts EXCEPT ![i] = AsReopened(@)]
           ELSE UNCHANGED alerts
    /\ Done(c)
    /\ onlyAlerts

\* The optional rule and host filters of the bulk requests, as sets of keys.
KeysOfRule(R) == {k \in Keys : KeyRule[k] \in R}
KeysOfAddr(A) == {k \in Keys : KeyAddrs[k] \cap A # {}}
RuleFilters == {Keys} \cup {KeysOfRule({r}) : r \in Rules}
AddrFilters == {Keys} \cup {KeysOfAddr({a}) : a \in Addrs}
SevFilters  == {Severities} \cup {{s} : s \in Severities}

ResolveAlerts ==
    \E R \in RuleFilters, A \in AddrFilters :
        /\ ResolveRows({i \in LiveIds : alerts[i].key \in R \cap A})
        /\ onlyAlerts /\ UNCHANGED client

DeleteAlert(i) ==
    /\ Resolved(i)
    /\ DeleteRows({i})
    /\ onlyAlerts /\ UNCHANGED client

DeleteResolvedAlerts ==
    \E R \in RuleFilters, A \in AddrFilters, S \in SevFilters :
        /\ DeleteRows({i \in Ids : /\ Resolved(i)
                                   /\ alerts[i].key \in R \cap A
                                   /\ alerts[i].sev \in S})
        /\ onlyAlerts /\ UNCHANGED client

-----------------------------------------------------------------------------
(* Requests about the trusted list *)

\* POST /exclusions: the pattern is stored, the live alerts it covers are
\* selected, and those rows are resolved by id, whatever their state is then.
AddExclusion(c, p) ==
    /\ Idle(c)
    /\ trusted' = trusted \cup {p}
    /\ client' = [client EXCEPT ![c] = [NoRequest EXCEPT !.op = "cover", !.patterns = {p}]]
    /\ UNCHANGED <<alerts, nextId, named, retention, pass>>

\* The rows and the names of their addresses are read in two queries, taken as
\* one step here as in BeginPass: a name learned between them is one more name.
SelectCovered(c) ==
    /\ client[c].op = "cover"
    /\ LET ids == {i \in LiveIds : Covered(client[c].patterns, alerts[i].key)}
       IN  IF ids = {} THEN Done(c)
           ELSE client' = [client EXCEPT ![c] = [@ EXCEPT !.op = "close", !.ids = ids]]
    /\ UNCHANGED <<dbVars, pass>>

ResolveSelected(c) ==
    /\ client[c].op = "close"
    /\ ResolveRows({i \in client[c].ids : Exists(i)})
    /\ Done(c)
    /\ onlyAlerts

DeleteExclusion(p) ==
    /\ p \in trusted
    /\ trusted' = trusted \ {p}
    /\ UNCHANGED <<alerts, nextId, named, retention, pass, client>>

\* The request's context is cancelled, or a statement of it fails.
AbortRequest(c) ==
    /\ ~Idle(c)
    /\ Done(c)
    /\ UNCHANGED <<dbVars, pass>>

-----------------------------------------------------------------------------
(* Retention, names, time, restart *)

\* PUT /alerts/settings saves the retention and applies its deletions at once.
SetAlertSettings(c, r) ==
    /\ Idle(c)
    /\ retention' = r
    /\ client' = [client EXCEPT ![c] = [NoRequest EXCEPT !.op = "prune", !.keep = r]]
    /\ UNCHANGED <<alerts, nextId, trusted, named, pass>>

\* The maintenance job reads the retention and applies it.
BeginMaintenance ==
    /\ Idle(Maintenance)
    /\ client' = [client EXCEPT ![Maintenance] =
                     [NoRequest EXCEPT !.op = "prune", !.keep = retention]]
    /\ UNCHANGED <<dbVars, pass>>

\* Deletes the resolved rows older than their severity's period, 0 = keep.
\* There is one statement for each severity; they select disjoint rows and are
\* taken as one step, which a failure may cut short.
Expired(r) == {i \in Ids : /\ Resolved(i)
                           /\ r.del[alerts[i].sev] > 0
                           /\ alerts[i].resolved > r.del[alerts[i].sev]}

PruneResolvedAlerts(c, S) ==
    /\ client[c].op = "prune"
    /\ DeleteRows({i \in Expired(client[c].keep) : alerts[i].sev \in S})
    /\ Done(c)
    /\ onlyAlerts

\* Suricata or reverse DNS learns a name, one that some glob matches; reverse
\* DNS replaces the name it knew by another.
LearnName(a) ==
    /\ \E p \in NamePatterns : a \in Covers[p]
    /\ named' = named \cup {a}
    /\ UNCHANGED <<alerts, nextId, trusted, retention, pass, client>>

ForgetName(a) ==
    /\ named' = named \ {a}
    /\ UNCHANGED <<alerts, nextId, trusted, retention, pass, client>>

\* A day goes by.
Older(t) == IF t = Never \/ t = MaxAge THEN t ELSE t + 1
Aged(r)  == [r EXCEPT !.idle = IF r.state = "resolved" THEN 0 ELSE Older(@),
                      !.resolved = Older(@), !.notified = Older(@)]

Elapse ==
    /\ alerts' = [i \in Ids |-> IF Exists(i) THEN Aged(alerts[i]) ELSE NoRow]
    /\ onlyAlerts /\ UNCHANGED client

\* The server stops and starts again: only the database is left.
Restart ==
    /\ pass'   = [e \in Evaluators |-> NoPass]
    /\ client' = [c \in Servers |-> NoRequest]
    /\ UNCHANGED dbVars

-----------------------------------------------------------------------------
Init ==
    /\ alerts = [i \in Ids |-> NoRow]
    /\ nextId = 1
    /\ trusted = {}
    /\ named = {}
    /\ retention = DefaultRetention
    /\ pass = [e \in Evaluators |-> NoPass]
    /\ client = [c \in Servers |-> NoRequest]

Pass(e) ==
    \/ BeginPass(e)
    \/ RaiseFinding(e)
    \/ FailPass(e)
    \/ e = Ticker /\ EndTick(e)
    \/ AutoResolveStale(e)
    \/ FailTick(e)

Request(c) ==
    \/ \E i \in Ids : Reopen(c, i)
    \/ ReopenSelect(c)
    \/ ReopenWrite(c)
    \/ \E p \in Patterns : AddExclusion(c, p)
    \/ SelectCovered(c)
    \/ ResolveSelected(c)
    \/ \E r \in Retentions : SetAlertSettings(c, r)

Settle(c) ==
    \/ \E S \in SUBSET Severities : PruneResolvedAlerts(c, S)
    \/ AbortRequest(c)

Statement ==
    \/ \E i \in Ids : AckAlert(i) \/ ResolveAlert(i) \/ DeleteAlert(i)
    \/ ResolveAlerts
    \/ DeleteResolvedAlerts
    \/ \E p \in Patterns : DeleteExclusion(p)
    \/ \E a \in Addrs : LearnName(a) \/ ForgetName(a)

\* What any of the goroutines does between two moments of the clock.
Step ==
    \/ \E e \in Evaluators : Pass(e)
    \/ \E c \in Clients : Request(c)
    \/ BeginMaintenance
    \/ \E c \in Servers : Settle(c)
    \/ Statement

Next ==
    \/ Step
    \/ \E e \in Evaluators : EndPass(e)
    \/ Elapse
    \/ Restart

Spec == Init /\ [][Next]_vars

-----------------------------------------------------------------------------
(* Properties *)

\* The columns of every row, the sequence, the settings and what passes and
\* requests hold in memory stay in their types: every statement writes one of the
\* three states the others select by.
TypeOK ==
    /\ alerts \in [Ids -> Row \cup {NoRow}]
    /\ nextId \in 1..(MaxId + 1)
    /\ trusted \subseteq Patterns
    /\ named \subseteq Addrs
    /\ retention \in Retentions
    /\ pass \in [Evaluators -> [stage : {"none", "raise", "resolve"}, todo : SUBSET Finding,
                              raised : SUBSET (Ids \X Severities), keep : Retentions]]
    /\ client \in [Servers -> [op : {"none", "reopen", "reopenWrite", "cover", "close", "prune"},
                               id : Ids \cup {0}, patterns : SUBSET Patterns,
                               ids : SUBSET Ids, keep : Retentions]]

\* "One open row per dedupe_key" (004_alerts.sql): however passes, reopen
\* requests and trusted-list requests interleave, and although a reopen decides
\* on an older reading of the table, no finding ever has two live alerts.
OneLivePerKey ==
    \A i, j \in LiveIds : alerts[i].key = alerts[j].key => i = j

\* resolved_at agrees with the state in every row, whatever sequence of
\* resolving and reopening led there: retention deletes by resolved_at alone and
\* would never find a resolved row that has none.
ResolvedAreDated ==
    \A i \in Ids : Exists(i) => (Resolved(i) <=> alerts[i].resolved # Never)

\* A trusted-list request resolves rows by ids it read earlier, without looking
\* at them again.  Whatever was resolved, deleted, reopened or raised between,
\* the rows it is about to close are about an address its pattern is for.
SelectedAreCovered ==
    \A c \in Clients : \A i \in client[c].ids : Exists(i) =>
        \E p \in client[c].patterns : KeyAddrs[alerts[i].key] \cap Covers[p] # {}

-----------------------------------------------------------------------------
(* The table keeps the promise of AlertCases: the current case of a finding *)
(* is its live row.                                                         *)

case == [k \in Keys |->
            IF LiveOf(k) = {} THEN [state |-> "none"]
            ELSE LET r == alerts[CHOOSE i \in LiveOf(k) : TRUE]
                 IN  [state |-> r.state, sev |-> r.sev]]

Cases == INSTANCE AlertCases WITH Rank <- SeverityRank

\* Every statement on the table, with all its races, is a step of one case or a
\* bulk close: no finding is dropped from a current case, no acknowledgement
\* undone and no severity lowered by a recurrence, and nothing but a raise or a
\* reopen makes a case current.
ImplementsCases == Cases!Spec

-----------------------------------------------------------------------------
(* Fairness and liveness *)

\* The goroutine of a pass runs to the end; a tick evaluates every rule at most
\* once, so the engine gets to the end of its ticks for as long as the server
\* runs; the maintenance job runs daily, and the statements of both do not fail for ever;
\* days go by.  Nothing is assumed of users, of requests in flight or of
\* detectors.
Fairness ==
    /\ \A e \in Evaluators : WF_vars(RaiseFinding(e) \/ EndPass(e))
    /\ SF_vars(EndTick(Ticker))
    /\ SF_vars(AutoResolveStale(Ticker))
    /\ WF_vars(BeginMaintenance)
    /\ SF_vars(PruneResolvedAlerts(Maintenance, Severities))
    /\ WF_vars(Elapse)

FairSpec == Spec /\ Fairness

\* "Adding one resolves the open alerts it covers" (README.md): whichever way
\* the pattern, a learned name and passes under way race, and even when the
\* request is cut off half way, an alert the trusted list covers does not stay
\* live for as long as it is covered: passes of later date leave it alone and
\* the tick closes it.
TrustedAlertsClear ==
    \A k \in Keys :
        [](Covered(trusted, k) /\ LiveOf(k) # {}
            => <>~(Covered(trusted, k) /\ LiveOf(k) # {}))

\* Retention reaches every resolved row: none is stranded by a lost or a
\* rewritten resolved_at, once all severities have a period of their own.
ResolvedAlertsGo ==
    <>[](\A s \in Severities : retention.del[s] > 0)
        => \A i \in Ids : [](Resolved(i) => <>~Resolved(i))

\* "alerts whose host or peer matches are never raised" (exclusions.go:12), of
\* the moment the row is written.
TrustedNeverRaised ==
    [][\A i \in Ids : ~Exists(i) /\ Exists(i)'
            => ~Covered(trusted, alerts'[i].key)]_vars
=============================================================================
