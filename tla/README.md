# Pmacct-Suricata-Analyzer: TLA+ models

Models of the concurrent and stateful core of the analyzer, model-checked with
TLC on small instances, with theorems that TLAPS proves for every instance.
`PROJECT.json` maps every definition to the lines of source it stands for and
lists the runs, the mutants each property is tested against, the hazards and
the theorems. Paths below are relative to `src/`.

## 1. The system

One Go server (`backend/`) on PostgreSQL; Rust agents (`agent/`) on endpoints;
pmacct writes flow records into the table `acct`, Suricata sends its events to
a listener; a Svelte frontend talks to the HTTP API. In the server, goroutines
run side by side and share state through the database, a few mutexes and
compare-and-swap flags:

| Component | State it keeps | Operations | Interacts with |
|---|---|---|---|
| Alert store (`db/alerts.go`, `db/alert_retention.go`) | table `alerts`, a unique index on live dedupe keys, the retention setting | upsert, ack, resolve, reopen, bulk resolve/delete, auto-resolve, prune | written by passes, requests, the tick, maintenance |
| Rules engine (`rules/rules.go`) | rule configuration, per-rule state | tick, "Run now", a pass: evaluate, filter, upsert, notify | detectors (SQL), trusted list, notifier |
| Trusted list (`db/exclusions.go`, `rules/exclusions.go`) | table `alert_exclusions` | add (and resolve what it covers), delete, filter | names learned by Suricata and reverse DNS |
| Custom rules, rule configuration (`rules/custom.go`) | table, live copy in memory, `settings["rules"]` | create, update, delete | engine |
| Notification dispatcher (`notify/notify.go`) | queue in memory, minimum severity | notify, flush, tick, set minimum | channels, `alerts.notified_at` |
| Enrichment worker (`scheduler/scheduler.go`) | lane flags, mutex `vtQuota`; lookup times in `ip_info`, `file_intel`, `ip_reputation` | passes of the geo, VirusTotal, files and reputation lanes; refresh by hand | providers over HTTP, with quotas |
| Rollups, maintenance (`scheduler/scheduler.go`, `db/rollups.go`) | `host_hourly`, `host_peer_daily`, cursor and flags in `settings` | backfill, hourly, daily behind a cursor, prune | raw traffic that the deployment deletes (after 30 days in `deploy/docker-compose.yaml`, 7 in `README.md`) |
| Agent ingest (`api/agents.go`, `db/agents.go`) | agents, tokens, `endpoint_conns`, identities | enrol, events, heartbeat, prune | endpoint agents |
| Endpoint agent (`agent/`) | aggregation in memory, spool on disk | capture, drain, upload, spool, self-update | ingest |
| Authentication (`auth/auth.go`, `api/api.go`) | users, sessions, attempts, blocks | login, logout, change, disable, delete | every request |
| Suricata listener (`suricata/suricata.go`) | counters, `ids_events`, `ip_names` | receive, raise | engine (`RaiseIDS`) |
| Threat feeds, TLS CA, migrations | lists; CA and leaf; `schema_migrations` | refresh; issue, renew; apply | |
| Detectors, explanations, read handlers, frontend | none of their own | queries, rendering | |

What is hard in it: statements of several goroutines on the same rows, where
each decides on something it read earlier; requests, passes and jobs cut off
half way; what is only in memory at a restart; usage counts that are derived
and not kept; tickers that meet quiet hours and midnights; retries of what was
already done. `PROJECT.json` lists these hazards at their lines, each with the
properties that would notice it going wrong or with the module that is to.

What makes the parts correct:

- *alerts*: one live alert for a finding; an alert never loses severity or an
  acknowledgement to a recurrence; resolved alerts are dated, and retention
  reaches them; what is trusted does not stay live;
- *notifications*: marked as notified only if delivered; what waits is delivered;
- *lookups*: recorded lookups within the daily and monthly quota whatever runs
  concurrently; lanes and mutex are given back; every address gets its turn;
- *lookups without a quota*: backoff delays an item and never gives one up;
- *rollups*: traffic is counted once up to the cursor, an hour that is over is
  complete and stays right when its raw rows are deleted, pruning that is due is
  done;
- *agents*: what an agent observed is on the machine, in the database or given
  up by a rule of the program; counted twice only after a failure; the spool
  drains unless one of its batches is refused each time; a deleted agent leaves
  nothing;
- *rule configuration*: what the engine uses is, to the second, what a restart
  would load; every enabled rule is evaluated again and again;
- *accounts*: bounded guesses from an address that is known, an administrator
  remains, no session outlives a
  password change unnoticed, manual address rules stand;
- *feeds*: an outage keeps the lists, only configured ones match;
- *Suricata*: events are accounted for, findings link to the event they are of;
- *certificates*: what is served fits and is valid;
- *start*: nothing runs on a schema older than its release, and the server gets
  to serve from wherever failures left the database.

## 2. Modules

| Module | Models |
|---|---|
| `AlertCases` | abstract specification: what the alerts table promises |
| `Alerts` | the table and everything that writes to it, one action for each database statement |
| `AlertDelivery` | `Alerts` composed with the notification dispatcher |
| `LookupQuota` | the quota-limited lanes of the enrichment worker |
| `FreeLanes` | its lanes without a quota: geo, Malware Hash Registry |
| `Rollups` | the maintenance job |
| `RowCustody` | abstract specification: what agents and server promise of a row |
| `AgentIngest` | endpoint agents composed with enrolment, ingest and retention |
| `RuleConfig` | rule overrides, custom rules, the schedule of the engine |
| `Accounts` | accounts, sessions, login, address rules |
| `Feeds` | threat feeds and catalogues of abused binaries |
| `Suricata` | the listener |
| `TlsCA` | the server's CA and certificate |
| `Startup` | migrations and the order of `main` |
| `AlertsProofs`, `AlertDeliveryProofs`, `LookupQuotaProofs`, `RollupsProofs`, `AgentIngestProofs`, `RuleConfigProofs`, `AccountsProofs` | theorems about the module of that name (`LookupQuotaProofs` also about `FreeLanes`) |
| `ServerProofs` | theorems about `Startup`, `TlsCA`, `Feeds` and `Suricata` |
| `MCAlerts`, `MCAlertDelivery`, `MCLookupQuota`, `MCAgentIngest`, `MCAccounts` | constants for TLC |
| `MCWorker` | `LookupQuota` beside `FreeLanes`, mainly for liveness |
| `MCServer` | `RuleConfig`, `Rollups`, `Feeds`, `Suricata`, `TlsCA`, `Startup` side by side |

In every module an operation is split where the code lets others in: at each
database call, at each unlock, at each message. An operator whose comment says
*mutant* is a plausible slip in the definition that follows it; `PROJECT.json`
names, for each property, the one that must violate it.

### Alerts

`alerts` is the table as a function from ids to rows, `nextId` its sequence,
`trusted` and `retention` are the trusted list and the retention setting,
`named` the addresses whose name is known. `pass[e]` is the memory of a
goroutine that evaluates rules (ticker, "Run now", Suricata), `client[c]` that
of a goroutine that serves a request or runs maintenance. Timestamps are ages,
counted to `MaxAge`; the two columns read together (`GREATEST(last_seen,
reopened_at)`) are one age, `idle`.

An action is one statement, or a read whose result is used later: `BeginPass`
(detector, exemptions and trusted list, `rules.go` `evaluate`), `RaiseFinding`
(`UpsertAlert`), `EndPass`, `FailPass`; `EndTick` and `AutoResolveStale`;
`AckAlert`, `ResolveAlert`, `Reopen`/`ReopenSelect`/`ReopenWrite` (the
statement of `ReopenAlert` is split in two because PostgreSQL evaluates its
`NOT EXISTS` on a snapshot and the unique index at the write), the bulk
requests; `AddExclusion`/`SelectCovered`/`ResolveSelected`; `SetAlertSettings`,
`BeginMaintenance`, `PruneResolvedAlerts`; `LearnName`, `ForgetName`; `Elapse`;
`Restart`, after which only the database is left; `AbortRequest` for a
statement that fails or a client that goes away, at every point.

Findings are the free input: a pass may find any set of findings of one rule.
The rule's exemptions only remove findings and are in that choice. A read of
rows and the read of their names that follows it are one step.

### AlertDelivery

Adds the queue `pending`, the minimum severity in force and as saved, the
flushes under way, the hour and the ticker. A restart loads the saved minimum, or
the configured one where that cannot be read. `EndPassAndNotify` replaces
`EndPass`: `Notify` runs in the goroutine of the pass, which starts no other
pass before the flush it may have begun is over. `Flush` takes the queue under
the lock, `Send` tries a channel outside of it, `EndFlush` marks. `delivered`
is history.

### LookupQuota

`record[r]` is what the database has of an address or a hash: when it was last
looked up (today, this month, earlier, never), how long ago, with what result,
after how many attempts. `running` are the lane flags, `holder` the mutex
`vtQuota`, `job[g]` what a goroutine is doing. A pass is `BeginPass` (the
compare-and-swap), `Lock`, `ReadUsage`, `SelectCandidates`, then for each
candidate `Lookup` and `Store` or `FailStore`, and `EndPass` or `CutShort`.
`Refresh` is `refreshIP`, which takes no mutex and asks no quota. The reputation
lanes are the same passes without a mutex, on a source of their own. `by` and
`spent` are history. The backoff of failed lookups is one tick doubled for each
attempt (30 minutes, doubled, in the code).

### FreeLanes

`looked` is what a lane has on record of each item (status, age, attempts),
`due` follows from it: fresh for `FreshFor` ticks after an answer, retried after
a backoff that doubles with the attempts after a failure (`db/queries.go`). The
loop of the lane, a request that runs it ("Run now") and one that refreshes an
address are runners: `SelectDue`, `AskProvider`, `StoreAnswer` or `FailStoring`,
`EndLane` or `CutLane`. `UpsertVTRow` is VirusTotal's lane creating the row of an
address this one has not seen. `attempts` counts every lookup of a row's life, the
answered ones too: in the code nothing sets it back, so the model does not either.

### Rollups

pmacct writes one flow a tick, visible up to `Lag` ticks later, and the deployment
deletes it when it is older than `Keep` (`Retention`, in the code a shell loop
beside the server). The job is
`RunRollupsOnce` call by call: the backfill flag and its chunks, the
recomputation of the last `LookBack` (`RollupHours` replaces), the daily peer
rollups from the cursor (`RollupPeerDays` adds), saving the cursor, the daily
pruning. Every call may fail; a failed read of a setting counts as absent, as in
the code; a failed save of the cursor is ignored, as in the code, and remembered
in history so that `DailyExact` can say what it costs. A backfill reaches back as
far as `Reach`, so it counts as a recomputation (`HoursDone`): when a job fails
between the two, the next one starts from the hours the backfill has closed.
`RollupHours` replaces the row of an hour by what the table still holds of it: an
hour that a statement goes over after `Retention` has reached it is in the history
variable `faded`, and may lose what had been counted. A backfill that is done
again (its flag was not saved, or misread) does that, because it reaches back 8
days.

### AgentIngest

Per machine: aggregator with its limit, identities, spool on disk, the request
under way; per enrolment token: the agent row and what is stored of it. The send
tick empties the aggregator, uploads, spools on failure and drains the spool
after a success. The spool is modelled file by file and with its errors: `push`
(`MakeRoom`, `WriteFile`, `SpoolFails`) evicts until both limits hold, passes over
a file it cannot delete, refuses a batch larger than the whole spool, and may fail
to write, upon which the batch is gone; `peek` drops a file it cannot read, or
leaves it where even that fails; `remove` may fail in silence. The history
variable `jammed` has the machines whose directory did not obey. A batch is
refused for the number of its rows, of its identities, for its size (`TooLarge`)
or, each time it is sent, because the database does not take one of its texts
(`Poison`: a NUL, or a character that `trunc` has cut). The handler of `/agent/events` is split at its statements (rows,
touch, identities), between which the administrator may revoke or delete, and
any answer may be lost. When the answer is lost the handler of the model stops
where it is; in the code a statement that is already at the database may still
commit. That is the model's behaviour in which the statement commits just before
the answer is lost: the agent learns nothing in between, and what the
administrator does meanwhile to the agent's row decides in both whether rows are
inserted, by the foreign key, or gone, by the cascade. Files are taken in the order they were
written; two files of one millisecond have one name in the code, which does not
happen at a send interval of seconds. Retention deletes rows and silent agents. `RowCustody` says
what all of it amounts to for one row: `at` are the machines that have it, in
whatever place, `marks` what became of it (observed, stored once, given up, in
doubt), `times` how often the database has it.

### RuleConfig, Accounts

`RuleConfig`: memory (`cfg`, `custom`), database (`storedCfg`, `rows`), and per
editor the request that stands between the two; a restart may be of a release
without some built-in rule. The table keeps whole seconds of a timing
(`Stored`, `int(Interval/time.Second)`) while the list in memory has the exact
duration, so the two agree up to that fraction (`StoredForm`). The schedule counts
time since `lastRun`; a tick takes its list and its time first and looks at one
rule at a time, and a rule may be stamped one unit later than the time of the tick
it ran in.

`Accounts`: the tables `users`, `sessions`, `login_attempts` and `ip_access`, and
per client the request under way, split at its database calls: what login or
the middleware read may be old when the handler writes. A client whose address
cannot be parsed (`None`) passes address rules, the failure count and the lockout
over, as in the code (`auth.go:81-86, 122, 166`). A password is a number
that grows with every change; `raced` and `stale` are history and mark the
windows the code leaves open, so that the properties say exactly which they are.

### Feeds, Suricata, TlsCA, Startup

`Feeds`: one goroutine, feed after feed, with bodies that parse to something, to
nothing or not at all, and restarts with another `THREAT_FEEDS`. `Private` are the
networks `Parse` drops, judged by their first address alone, so reserved ranges
that are of none of its five kinds, and wide ones around a private range, stay in a
list. A catalogue is counted as it was parsed and stored under normalised names,
merged and without empty ones, so it may be stored below the threshold it has
passed. `Suricata`: a
UDP and a TCP reader share counters, the bounded table of types and the
database. `TlsCA`: days, two stored values, the two halves of `New` and the daily
renewal. `Startup`: `main` phase by phase; `Migrate` looks, applies and records,
and the process may end between any two; a later launch may be another release.

### MCServer, MCWorker

The parts of `MCServer` share no variable, and in the code neither rows nor
locks: a behaviour that moves several of them is one of each, interleaved. The
variable `active` picks one part and the others stay at their start, which
checks each part against all its behaviours without their product. Safety
properties of parts that stand still hold at their initial states. `moving` in
`MCWorker` does the same for the lanes with and without a quota, which decide on
columns of their own; where VirusTotal's lane is the first to insert the row of an
address, that is an action of `FreeLanes` (`UpsertVTRow`).

## 3. Runs

| Run | Checks | Result |
|---|---|---|
| `alerts_safety` | `OneLivePerKey`, `ResolvedAreDated`, `SelectedAreCovered` | hold |
| `alerts_lifecycle` | `ImplementsCases` (refinement of `AlertCases`), `ResolvedAlertsGo`, `TrustedAlertsClear` | hold |
| `alerts_trusted` | `TrustedNeverRaised` | violated |
| `delivery` | `NotifiedWereDelivered`, `QueuedAlertsAreDelivered` | hold |
| `delivery_digest` | `QueuedAlertsAreDelivered` with a daily digest | violated |
| `quota` | `QuotaTypeOK`, `RecordedWithinQuota` | hold |
| `lanes_progress` | `OnePassPerLane`, `QuotaPassesEnd`, `SteadyAreReported`, `LookupsKeepUp` | hold |
| `quota_spend` | `SpentWithinQuota` | violated |
| `agents` | `IngestTypeOK`, `NoSilentLoss`, `CountedTwiceOnlyAfterFailure`, `DeletedLeavesNothing`, `RevokedGoesQuiet`, `SpoolDrains`, `ImplementsCustody` (refinement of `RowCustody`) | hold |
| `accounts` | `AccountsTypeOK`, `BoundedGuesses`, `AdminRemains`, `OldPasswordSessions`, `ManualRulesStand` | hold |
| `server` | rules: `LiveIsStored`, `RulesEvaluated`; rollups: `DailyExact`, `ClosedHoursExact`, `NoGapWhileRegular`, `FadesOnlyBehind`, `PruningKeepsUp`; feeds: `OnlyConfiguredMatch`, `OutageKeepsLists`; Suricata: `TypesAccountForEvents`, `FindingsLinkToEvents`; certificates: `ServedLeafFits`; start: `RunsOnMigratedSchema`, `ServesAtLast` | hold |
| `rules_persist` | `UpdatesPersist` | violated |

The four violations are disagreements between the code and its documentation:

- *alerts_trusted*: `exclusions.go` says covered alerts "are never raised". A
  pass that has read the list raises one after the pattern was added. What does
  hold is `TrustedAlertsClear`: the alert recurs no more and goes stale.
- *delivery_digest*: the README says alerts are "delivered when the window
  ends". A 24-hour digest whose tick falls into the quiet hours never is.
- *quota_spend*: the README says "a restart never overspends the quota". A
  restart between a lookup and its storing makes it uncounted. What does hold,
  and is proved, is `RecordedWithinQuota`.
- *rules_persist*: `rules.go` says `UpdateConfig` "validates and persists
  overrides". Of two updates at once the older snapshot may be stored last; both
  are answered without an error and a restart loads one of them. What does hold
  is `LiveIsStored`: apart from two such writes, and from a write that failed,
  memory and database agree.

Some properties say how far a guarantee goes, because the code leaves a window
open: a failed or misread cursor counts flows once more (`DailyExact`); hours are
incomplete when recomputations and backfills are further apart than the two hours
a run reaches back (`NoGapWhileRegular`); a recomputation of hours whose raw rows
are being deleted replaces them by what is left (`ClosedHoursExact` excepts them;
`FadesOnlyBehind` says that only a backfill, or a job that comes late, gets there);
rows stored by a request that failed later, or sent from a file that could not be
deleted, are counted again when the batch is sent again
(`CountedTwiceOnlyAfterFailure`); a batch that is refused each time holds up the
spool behind it (`SpoolDrains` excepts it); logins that were already past the count
may each add a failure, and a client without a parsable address guesses without
limit (`BoundedGuesses` is about addresses); two administrators may disable or
delete each other (`AdminRemains` excepts handlers that write for an account that
has lost its rights); with no feed configured the lists of an earlier configuration
stay (`OnlyConfiguredMatch` is about a process that has a feed), although
`docs/tutorials/enrichment.md` says that feeds removed from the configuration stop
matching immediately.

**Bounds.** *Alerts*: two findings about different addresses, two clients, two
rows ever inserted, ages to 2. Two rows are what a second live row, a reuse of
an id and a closed and a live row of one finding need; two clients is what a
race of two requests needs, the engine and maintenance run beside them. Ages
need only tell fresh, at the limit and beyond it apart. `alerts_lifecycle` has
one finding with two severities, one client and the trusted list. *Delivery*: one
finding, two channels, a day of three hours of which two are quiet around
midnight. *Quota*: two addresses and a hash, two goroutines for passes and one
for refreshes, 2 lookups a day and 3 a month, days of two ticks and months of
two days, so that passes span midnights and month ends; symmetric in the
goroutines. *lanes_progress*: one lane and one lookup a day for two addresses
(where two lanes share a quota of one lookup a day the file lane can use it up
day after day, and nothing in the code or its docs says otherwise); without a
quota two addresses compete for batches of one, with one fault and one request.
*Agents*: one machine, two tokens, so that a revoked agent enrols again; two
rows, one of which the database never takes, and an identity; batches of one row
and one identity, bodies and a spool of two items, a spool and a flush of one
file, so that every limit is reached, the number of files as well as their size;
two mishaps, errors of the disk included (1,097,716 states). *Accounts*: two
accounts, two clients on one address and one without an address, three tokens, a
limit of one failure, three requests, the third client's being the first of
all (it may run beside every other to the end, which is what a guess from nowhere
can meet), starting from a new server and from two administrators at work; one
failing write (1,738,590 states up to symmetry). *Rollups*: hours of two ticks,
three and a half of them, with windows that begin inside an hour; chunks of the
daily rollups that end inside one; a backfill of two chunks that reaches further
back (6) than a run recomputes (4), so that a failure between the two is different
from a run that completes, and further back than raw flows are kept (5), so that a
second backfill finds a part of an hour deleted; one mishap, restarts included (the
theorems have no such bound). *Server* (828,911 states in all): two editors and
three edits of a built-in and a custom rule, timings in half seconds; two feeds,
three networks and a catalogue with two spellings of one name, two restarts; two
readers and four lines against a table of two types; twelve days with certificates of five
and a CA of nine; three migrations and three ends of the process. Counters of
faults and requests bound the runs only: they are guards of the disturbances,
never of the program's own steps.

**Fairness.** Passes and flushes run on, since a goroutine does not stop. The
tick and the maintenance job come round again and again (`SF`: a pass may be
begun instead each time, but a tick evaluates each rule once and then ends) and
their statements do not fail for ever. Time passes. A Go mutex is handed to a
goroutine that has waited for over a millisecond (starvation mode), hence `SF`
on `Lock`. An agent's loop and a handler that has begun go on (`WF` each). In
`MCServer` the tickers of the engine and of the maintenance job fire and a job
that has begun goes on (`WF` each), and the supervisor starts the process again
(`WF`). In `FreeLanes` the loop, the
requests and the clock go on, and a provider that is asked about an item again
and again answers in the end (`SF`): without that an outage for ever is allowed.
Nothing is assumed of users, detectors, requests in flight or restarts; the
accounts need no fairness. `SteadyAreReported`, `QueuedAlertsAreDelivered`,
`SpoolDrains` and `RulesEvaluated` state in their premises which disturbances
must come to an end.

## 4. Proofs

TLC checks the instances of section 3; the theorems here hold for every value of
the constants that the named assumption of the module allows. Each safety proof
has the same plan: an inductive invariant, one lemma for the initial states, one
for the steps with a step of the proof for each action, and temporal logic only
in the theorem itself. The inductive invariants were checked with TLC before.

`AlertsProofs`, for every set of findings, patterns, clients and every bound,
from `ConstantsAssumption`:

- `TypeCorrect`: `Spec => []TypeOK`, which is proved and therefore no property of a run.
- `OneLive` and `AlwaysDated`: every step is of one of three kinds (`StepKinds`):
  it makes no row live, it inserts the row of a finding that has no live one, or
  it reopens one under the same condition. With that both are inductive with
  `TypeOK`.
- `ClosesOnlyCovered`: needs the strengthening `IdsSpent`, that every selected
  id was given out by the sequence before: a row below `nextId` can go but never
  becomes the row of another finding (`RowIdentity`).
- `TableImplementsCases`: `Spec => ImplementsCases`, the refinement of
  `AlertCases`. The case of a finding is read off its live row by a `CHOOSE`; by
  `OneLivePerKey` there is no choice (`CaseNow`). A finer list of kinds of steps
  (`CaseSteps`) is mapped kind by kind: an insert and a reopen open a case where
  there was none, a bump raises one (`EscalatedIsWorse`: the `CASE` of the
  statement is the order of severities), an acknowledgement and its withdrawal
  relabel one, a resolve closes a set of them, deletes and the clock change none.
  `IdsSpent` is needed again: the row an insert writes was no live row of
  another finding.

`AlertDeliveryProofs`, from the same and `DeliveryAssumption`, reusing the three
kinds of steps for the table's half of the composition:

- `DeliveryTypeCorrect`: `SpecDelivery => []DeliveryTypeOK`, as above.
- `OnlyDeliveredAreMarked`: `SpecDelivery => []NotifiedWereDelivered`. Marking
  trusts a flag of the flush, so the invariant adds `AcceptedIsDelivered`: a flush
  that a channel has accepted has delivered its whole batch. No step of the
  table writes `notified_at` (`NotifiedBefore`).

`LookupQuotaProofs`, for every set of lanes, sources, records, goroutines and
every quota, from `QuotaAssumption` (lanes that share a source take the mutex):

- `QuotaTypeCorrect`: the type invariant is not inductive alone, a pass must be
  known to have a lane. `Ready` adds that: a pass under way holds the flag of
  its lane, no two have the same lane, one past `lock` on a mutexed source holds
  the mutex, and it is about records of its lane.
- `QuotaKept`: `Spec => []RecordedWithinQuota`. By `Ready` two passes of a source
  are never both past `lock` (`Alone`). A pass past `usage` *claims* lookups: its
  limit, then what is left to do, plus the one not yet stored. `ClaimsFit` says
  that the claim and what passes have on record fit the quota together; reading
  the usage establishes it, storing moves one lookup from the claim to the
  record, and a midnight or a refresh only takes lookups of passes off the record.
- `OnePassAtATime`, about `FreeLanes` and from `FreeLanesAssumption`:
  `FreeLanesSpec => []OnePassPerLane`, inductive with the types. A runner's step is
  one of three kinds (`OneMoves`): it goes on, it enters the lane while the flag is
  clear, or it leaves the lane and clears the flag.

`RollupsProofs`, for every length of hour, day, chunk, look-back and lag, from
`RollupsAssumption`: a backfill chunk is whole hours (24 of them in the code), and
a backfill reaches back at least as far as a run does (8 days against 2 hours).

- `FlowsAreAddedOnce`: `RollupsSpec => []DailyExact`. `DailyInv` says where the job
  stands when nothing slipped (it goes on where the saved cursor is), and that
  after slips every flow up to the cursor is counted at most once more than there
  were slips, `AtMostOnceMore`, and one beyond it at most as often as that. A
  slip is what lets the job start anew before flows it has added.
- `ClosedHoursStay`: `[]ClosedHoursExact`, beside a retention of any length: an hour
  that is not in `faded` had all its raw rows whenever a statement went over it.
  A recomputation replaces an hour by
  what it sees from its own start, so a whole hour stays whole, unless the window
  ends inside it: `ClosedInv` adds that a closed hour lies before the time of
  every job that runs or will, and that backfill chunks begin where an hour does.
- `NoHourIsLeftOut`: `[]NoGapWhileRegular`. `GapInv` says from where to where hours
  are `Covered`: up to its position by a backfill under way, from `Reach` before
  it and from where the daily rollups begin by the last completed run. In the
  step of `HoursDone` the gap between two runs is at most `LookBack - Lag`, so
  every hour that was open at the first reaches into the window of the second,
  which is cut down to the hour. `Arrive` and `Tick` need `ClockInv`: what is older
  than the lag has arrived.
- `PromptJobsFadeNothing`: `RollupsSpec => FadesOnlyBehind`. An hour in a window cut down to
  the hour begins at most `LookBack + HourLen - 1` before the start of the job, or
  `Reach + DayLen - 1` before that of a backfill; the retention has reached it only
  if that plus the time the job has been running exceeds `Keep`. With the values
  of the code and 7 days a recomputation is days away from it and a backfill is not.

`AgentIngestProofs`, for every set of machines, tokens, rows and programs and every
limit, from `IngestAssumption`:

- `IngestTypeCorrect`: `TypeInv` adds that a request past authentication has its
  row in the database, that one that sends a file of the spool has that file in
  hand, the oldest but for those it had to leave where they are, and that
  aggregators are finite (their limit is a cardinality).
- `NothingVanishes`: `[]NoSilentLoss`. The agent drops a batch when it is answered,
  so `Settled` says what the handler has stored or refused at each of its phases;
  an error of the spool moves what it concerns to `lost` or leaves it on disk.
- `CountedOnce`: `[]CountedTwiceOnlyAfterFailure`. `OnePlace`: a row is in one of
  aggregator, batch and spool, in one file of it, on one machine; the batch that
  was read from the spool and its file are one. `NotYetStored`: what is still on
  a machine and already in the database is in doubt, or it is in the request the
  handler has just stored.
- `DeletedIsGone`: `[]DeletedLeavesNothing`, inductive with the types because every
  insert looks at the agent's row in the same statement.
- `CustodyIsKept`: `Spec => ImplementsCustody`, from the first three invariants above. Each
  action is shown to be a step of one machine's custody, row by row (`Fate`): a row
  moves by `Appears`, `IsStored`, `IsReleased`, ... or stays. `OnePlace` gives that a
  row is with one machine and is released once; `Settled` that a batch is dropped
  only when its rows are stored or refused; `NotYetStored` that what is
  stored again was in doubt. The marks only grow (`MarksGrow`), and how often a row
  is in the database falls only by retention and deletion (`TimesFall`, `TimesRise`).

`AccountsProofs`, from `AccountsAssumption` (there are finitely many clients):

- `AccountsTypeCorrect`: a request that stands between two database calls may be
  about an account that is gone (`Sane`): what a handler writes late must not make
  a session of it. The lemmas rest on `Grow`: no account comes back and no
  password goes back.
- `GuessesAreBounded`: `[]BoundedGuesses`, for each address; clients without one are
  in no count. Cardinalities are followed client by
  client: entering `check` needs a count below the limit, so whoever enters takes
  the last free place or one that is counted for a client.
- `AnAdministratorRemains`: `[]AdminRemains`. A handler that still has the right to
  write acts for an enabled administrator, and on another account than that one
  (`Sane`), so that one remains.
- `OldPasswordsAreKnown`: `[]OldPasswordSessions`. All but six actions are `Calm`:
  they change no password and open no session.
- `ManualRulesKept`: the action property `ManualRulesStand`.

`RuleConfigProofs`, for every set of rules, requests and editors, from
`RuleConfigAssumption` (request bodies have the fields of their Go types):
`MemoryIsDatabase`, `[]LiveIsStored`. Memory and database are written by two steps
of a request. `OneWriter`: two requests about the same thing have raced.
`Snapshot`: one alone about the overrides holds them as they are in memory.
`RowsFirst`: one alone about a custom rule has its row already. With these
`OverridesAgree` and `ListsAgree` are inductive. Memory and table are compared in
`StoredForm`, since the table rounds timings down; that rounding twice is rounding
once, and leaves kind and base of a rule alone, are the lemmas `Rounded` and
`StoredRow`.

`ServerProofs`, about four modules:

- `SchemaBeforeService`, for every number of migrations and every configuration,
  from `StartupAssumption`. What a part relies on was established phases earlier,
  so the invariant says what the database says of itself (`Database`: recorded was
  applied, nothing is applied before all below it is recorded), which migration
  may be applied and not recorded (`Unrecorded`: the current one, or one where the
  process ended), and what `Migrate` and `main` have established where they are
  (`Migrator`, `Established`).
- `LeafFits`, for every validity and lead time, from `TlsAssumption`. That the certificate has not expired is not inductive:
  `LeadTime` accounts for the days, `day + RenewBefore <= last + missed + (1 if
  today's tick is still to come)`, where `missed` counts renewals that failed in a
  row.
- `ConfiguredFeedsOnly` and `ListsOutliveOutages`, for every set of feeds and
  networks, from `FeedsAssumption`. `ListsOfFeeds`: a process that has
  pruned fills no list but those it is configured for.
- `FindingsHaveEvents`, for every finite set of readers and every set of lines,
  from `SuricataAssumption`. `RowsKnown`: a reader between storing and raising
  holds the row of its own line, whatever the other readers store meanwhile;
  `AlertsCounted` counts the readers that stand between two counters.
- `EventsAreAccountedFor`, `[]TypesAccountForEvents`, from the same. The sum over the
  table of types is stated as the size of a set, `Noted`, which has one element for
  each event counted: a step that counts an event adds one element to it
  (`NotesOne`), and a reader between the counter and the table accounts for one
  event received and not yet noted (`NotedInv`). That the table has at most
  `MaxTypes + 1` rows is not inductive, that it has at most `MaxTypes` without
  `other` is.

Only model-checked: liveness, which needs fairness and `ENABLED`, out of the
reach of the prover (`ResolvedAlertsGo`, `TrustedAlertsClear`,
`QueuedAlertsAreDelivered`, `QuotaPassesEnd`, `SteadyAreReported`, `LookupsKeepUp`,
`RevokedGoesQuiet`, `SpoolDrains`, `PruningKeepsUp`, `RulesEvaluated`,
`ServesAtLast`). Every safety invariant and action property of a passing run, and
both refinements, are proved.

## 5. Not modelled

Detectors and statistics (SQL over traffic, the input of passes), the execution
of the SQL of a custom rule, rendering of notifications and explanations, read
handlers, HTTP parsing, the parsing of the configuration, the frontend: they
keep no state and decide nothing over several steps. Notes, nicknames and the
knowledge base are single statements on rows nothing else reads. What the
answers of providers say. The self-update of the agent is two renames and a
restart by the service manager, both outside the repository. Of the alert rows:
title, details, count, first_seen, acked_at, which nothing decides on. Of the
lanes: the counters and the `quotaHit` flag that are only displayed, the order
inside a batch, the pauses between lookups. Three hazards have no property that
would show them: what is queued in memory is lost at a restart (the code promises
nothing of it), alerts written by a pass that failed later wait for a recurrence
before anybody is notified, and two administrators who delete each other, which
the code allows. The crash between the renames of the self-update is not modelled.

## 6. Plan

What the runs check of safety is proved. Left: an abstract
specification of the dispatcher that `AlertDelivery` implements; the arguments for liveness, of which only the safety part could be
proved.
