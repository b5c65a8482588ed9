---------------------------- MODULE AlertsProofs ----------------------------
(***************************************************************************)
(* Proofs about Alerts: for every set of findings, patterns, goroutines    *)
(* and every bound, the table is well typed, a finding has at most one     *)
(* live alert, resolved rows are dated, a trusted-list request closes only *)
(* rows its pattern is for, and the table implements AlertCases.           *)
(***************************************************************************)
EXTENDS Alerts, TLAPS

USE ConstantsAssumption

Table == [Ids -> Row \cup {NoRow}]

-----------------------------------------------------------------------------
(* Rows *)

\* A row that exists has every column.
LEMMA ExistsIsRow ==
    ASSUME TypeOK, NEW i \in Ids, Exists(i)
    PROVE  alerts[i] \in Row
<1>1. alerts[i] \in Row \cup {NoRow}
    BY DEF TypeOK
<1>2. alerts[i] # NoRow
    BY DEF Exists, NoRow, States
<1> QED
    BY <1>1, <1>2

\* A time that has just been set is an age, and Never is not one.
LEMMA AgeZero == 0 \in Ages /\ Never \notin Ages
BY DEF Ages, Never

\* What the columns a statement sets leave of a row.
LEMMA AsResolvedRow ==
    ASSUME NEW r \in Row
    PROVE  /\ AsResolved(r) \in Row
           /\ AsResolved(r).key = r.key
           /\ AsResolved(r).state = "resolved"
           /\ AsResolved(r).resolved # Never
           /\ AsResolved(r).notified = r.notified
BY AgeZero DEF AsResolved, Row, States, Never

\* A reopened row is a row, live and without resolved_at.
LEMMA AsReopenedRow ==
    ASSUME NEW r \in Row
    PROVE  /\ AsReopened(r) \in Row
           /\ AsReopened(r).key = r.key
           /\ AsReopened(r).state = "open"
           /\ AsReopened(r).resolved = Never
           /\ AsReopened(r).notified = r.notified
BY AgeZero DEF AsReopened, Row, States

\* The row UpsertAlert inserts is a row.
LEMMA NewRowIsRow ==
    ASSUME NEW k \in Keys, NEW s \in Severities
    PROVE  /\ NewRow(k, s) \in Row
           /\ NewRow(k, s).key = k
           /\ NewRow(k, s).state = "open"
           /\ NewRow(k, s).resolved = Never
           /\ NewRow(k, s).notified = Never
BY AgeZero DEF NewRow, Row, States

\* A tick of the clock leaves an age an age, and a time that is not set unset.
LEMMA OlderAge ==
    ASSUME NEW t \in Ages \cup {Never}
    PROVE  /\ Older(t) \in Ages \cup {Never}
           /\ t \in Ages => Older(t) \in Ages
           /\ Older(t) = Never <=> t = Never
BY DEF Older, Ages, Never

\* A tick of the clock changes nothing of a row but its times.
LEMMA AgedRow ==
    ASSUME NEW r \in Row
    PROVE  /\ Aged(r) \in Row
           /\ Aged(r).key = r.key
           /\ Aged(r).state = r.state
           /\ Aged(r).resolved = Never <=> r.resolved = Never
           /\ Aged(r).notified = Never <=> r.notified = Never
<1>1. /\ r.idle \in Ages
      /\ r.resolved \in Ages \cup {Never}
      /\ r.notified \in Ages \cup {Never}
    BY DEF Row
<1>2. /\ Older(r.idle) \in Ages
      /\ Older(r.resolved) \in Ages \cup {Never}
      /\ Older(r.notified) \in Ages \cup {Never}
      /\ Older(r.resolved) = Never <=> r.resolved = Never
      /\ Older(r.notified) = Never <=> r.notified = Never
    BY <1>1, OlderAge
<1> QED
    BY <1>2, AgeZero DEF Aged, Row

\* The row ON CONFLICT DO UPDATE leaves is the row of the same finding.
LEMMA BumpedRow ==
    ASSUME NEW r \in Row, NEW s \in Severities
    PROVE  /\ Bumped(r, s) \in Row
           /\ Bumped(r, s).key = r.key
           /\ Bumped(r, s).state = r.state
           /\ Bumped(r, s).resolved = r.resolved
           /\ Bumped(r, s).notified = r.notified
<1>1. Escalated(r.sev, s) \in Severities
    BY DEF Escalated, Row
<1> QED
    BY <1>1, AgeZero DEF Bumped, Row

-----------------------------------------------------------------------------
(* Type correctness *)

\* A bulk resolve leaves a table of rows.
LEMMA ResolveRowsTyped ==
    ASSUME TypeOK, NEW S, \A i \in S \cap Ids : Exists(i), ResolveRows(S)
    PROVE  alerts' \in Table
<1>1. \A i \in S \cap Ids : AsResolved(alerts[i]) \in Row
    BY ExistsIsRow, AsResolvedRow
<1>2. \A i \in Ids : alerts[i] \in Row \cup {NoRow}
    BY DEF TypeOK
<1> QED
    BY <1>1, <1>2 DEF ResolveRows, Table

\* A bulk delete leaves a table of rows.
LEMMA DeleteRowsTyped ==
    ASSUME TypeOK, NEW S, DeleteRows(S)
    PROVE  alerts' \in Table
BY DEF TypeOK, DeleteRows, Table

\* A live row is a row that exists.
LEMMA LiveExists ==
    ASSUME NEW i \in Ids, Live(i)
    PROVE  Exists(i)
BY DEF Live, Exists, States

\* What a pass that is under way has read.
LEMMA PassTyped ==
    ASSUME TypeOK, NEW e \in Evaluators
    PROVE  /\ pass[e].todo \subseteq Finding
           /\ pass[e].raised \subseteq Ids \X Severities
           /\ pass[e].keep \in Retentions
BY DEF TypeOK

\* The type of one row of the pass and client tables.
Passes == [stage : {"none", "raise", "resolve"}, todo : SUBSET Finding,
           raised : SUBSET (Ids \X Severities), keep : Retentions]
Requests == [op : {"none", "reopen", "reopenWrite", "cover", "close", "prune"},
             id : Ids \cup {0}, patterns : SUBSET Patterns,
             ids : SUBSET Ids, keep : Retentions]

\* A goroutine at rest is in a state of its type.
LEMMA NoPassTyped == NoPass \in Passes /\ NoRequest \in Requests
BY DEF NoPass, NoRequest, Passes, Requests

\* A handler that returns leaves every request in its type.
LEMMA DoneTyped ==
    ASSUME TypeOK, NEW c \in Servers, Done(c)
    PROVE  client' \in [Servers -> Requests]
BY NoPassTyped DEF TypeOK, Done, Requests

\* An upsert leaves a table of rows and moves the sequence within its bound.
LEMMA UpsertTyped ==
    ASSUME TypeOK, NEW k \in Keys, NEW s \in Severities, NEW i \in Ids, UpsertAlert(k, s, i)
    PROVE  /\ alerts' \in Table
           /\ nextId' \in 1..(MaxId + 1)
           /\ alerts'[i] \in Row
<1>1. CASE i = nextId /\ InsertAlert(k, s)
    BY <1>1, NewRowIsRow DEF InsertAlert, TypeOK, Table, Ids
<1>2. CASE BumpAlert(k, s, i)
    <2>1. alerts[i] \in Row
        BY <1>2, ExistsIsRow, LiveExists DEF BumpAlert, LiveOf, LiveIds
    <2> QED
        BY <1>2, <2>1, BumpedRow DEF BumpAlert, TypeOK, Table
<1> QED
    BY <1>1, <1>2 DEF UpsertAlert

\* Every action keeps the type invariant.
LEMMA TypeNext == TypeOK /\ [Next]_vars => TypeOK'
<1> SUFFICES ASSUME TypeOK, [Next]_vars
             PROVE  TypeOK'
    OBVIOUS
<1> USE DEF Table, Passes, Requests
<1>1. ASSUME NEW e \in Evaluators, Pass(e)
      PROVE  TypeOK'
    <2>1. CASE BeginPass(e)
        <3>1. PICK F \in SUBSET Finding : pass' = [pass EXCEPT ![e] = [NoPass EXCEPT
                  !.stage = "raise", !.todo = {f \in F : ~Covered(trusted, f[1])}]]
            BY <2>1 DEF BeginPass
        <3>2. pass' \in [Evaluators -> Passes]
            BY <3>1 DEF TypeOK, NoPass
        <3> QED
            BY <2>1, <3>2 DEF BeginPass, TypeOK, dbVars
    <2>2. CASE RaiseFinding(e)
        <3>1. PICK f \in pass[e].todo, i \in Ids :
                  /\ UpsertAlert(f[1], f[2], i)
                  /\ pass' = [pass EXCEPT ![e] = [@ EXCEPT
                        !.todo = pass[e].todo \ {f},
                        !.raised = IF ToNotify(alerts'[i])
                                   THEN pass[e].raised \cup {<<i, alerts'[i].sev>>}
                                   ELSE pass[e].raised]]
                  /\ UNCHANGED <<trusted, named, retention, client>>
            BY <2>2 DEF RaiseFinding
        <3>2. f[1] \in Keys /\ f[2] \in Severities
            BY PassTyped DEF Finding
        <3>3. /\ alerts' \in Table
              /\ nextId' \in 1..(MaxId + 1)
              /\ alerts'[i] \in Row
            BY <3>1, <3>2, UpsertTyped
        <3>4. <<i, alerts'[i].sev>> \in Ids \X Severities
            BY <3>3 DEF Row
        <3>5. pass' \in [Evaluators -> Passes]
            <4> DEFINE T == pass[e].todo \ {f}
                       R == IF ToNotify(alerts'[i])
                            THEN pass[e].raised \cup {<<i, alerts'[i].sev>>}
                            ELSE pass[e].raised
            <4>1. pass[e] \in Passes
                BY DEF TypeOK
            <4>2. T \in SUBSET Finding /\ R \in SUBSET (Ids \X Severities)
                BY <3>4, PassTyped
            <4>3. pass' = [pass EXCEPT ![e] = [@ EXCEPT !.todo = T, !.raised = R]]
                BY <3>1
            <4> HIDE DEF T, R
            <4>4. [pass[e] EXCEPT !.todo = T, !.raised = R] \in Passes
                BY <4>1, <4>2
            <4> QED
                BY <4>3, <4>4 DEF TypeOK
        <3> QED
            BY <3>1, <3>3, <3>5 DEF TypeOK
    <2>3. CASE FailPass(e)
        BY <2>3, NoPassTyped DEF FailPass, TypeOK, dbVars
    <2>4. CASE EndTick(e)
        <3>1. PICK r \in {retention, DefaultRetention} :
                  pass' = [pass EXCEPT ![e] = [NoPass EXCEPT !.stage = "resolve", !.keep = r]]
            BY <2>4 DEF EndTick
        <3>2. [NoPass EXCEPT !.stage = "resolve", !.keep = r] \in Passes
            BY DEF TypeOK, NoPass
        <3>3. pass' \in [Evaluators -> Passes]
            BY <3>1, <3>2 DEF TypeOK
        <3> QED
            BY <2>4, <3>3 DEF EndTick, TypeOK, dbVars
    <2>5. CASE AutoResolveStale(e)
        <3>1. alerts' \in Table
            BY <2>5, ResolveRowsTyped, LiveExists DEF AutoResolveStale, LiveIds
        <3> QED
            BY <2>5, <3>1, NoPassTyped DEF AutoResolveStale, TypeOK
    <2>6. CASE FailTick(e)
        BY <2>6, NoPassTyped DEF FailTick, TypeOK, dbVars
    <2> QED
        BY <1>1, <2>1, <2>2, <2>3, <2>4, <2>5, <2>6 DEF Pass
<1>2. ASSUME NEW c \in Clients, Request(c)
      PROVE  TypeOK'
    <2> c \in Servers
        BY DEF Servers
    <2>1. ASSUME NEW i \in Ids, Reopen(c, i)
          PROVE  TypeOK'
        <3>1. alerts[i] \in Row
            BY <2>1, ExistsIsRow DEF Reopen
        <3>2. alerts' \in Table
            <4>1. [alerts[i] EXCEPT !.state = "open"] \in Row
                BY <3>1 DEF Row, States
            <4>2. \/ alerts' = [alerts EXCEPT ![i] = [@ EXCEPT !.state = "open"]]
                  \/ alerts' = alerts
                BY <2>1 DEF Reopen
            <4> QED
                BY <4>1, <4>2 DEF TypeOK
        <3>3. client' \in [Servers -> Requests]
            <4>1. [NoRequest EXCEPT !.op = "reopen", !.id = i] \in Requests
                BY DEF NoRequest
            <4>2. \/ client' = [client EXCEPT ![c] = [NoRequest EXCEPT !.op = "reopen", !.id = i]]
                  \/ client' = client
                BY <2>1 DEF Reopen
            <4> QED
                BY <4>1, <4>2 DEF TypeOK
        <3> QED
            BY <2>1, <3>2, <3>3 DEF Reopen, onlyAlerts, TypeOK
    <2>2. CASE ReopenSelect(c)
        <3>1. client' \in [Servers -> Requests]
            <4>1. CASE Done(c)
                BY <4>1, DoneTyped
            <4>2. CASE client' = [client EXCEPT ![c].op = "reopenWrite"]
                <5>1. [client[c] EXCEPT !.op = "reopenWrite"] \in Requests
                    <6>1. client[c] \in Requests
                        BY DEF TypeOK
                    <6> QED
                        BY <6>1 DEF Requests
                <5> QED
                    BY <4>2, <5>1 DEF TypeOK
            <4> QED
                BY <2>2, <4>1, <4>2 DEF ReopenSelect
        <3> QED
            BY <2>2, <3>1 DEF ReopenSelect, TypeOK, dbVars
    <2>3. CASE ReopenWrite(c)
        <3>1. client[c].id \in Ids \cup {0}
            BY DEF TypeOK
        <3>2. ASSUME Resolved(client[c].id), client[c].id \in Ids
              PROVE  AsReopened(alerts[client[c].id]) \in Row
            BY <3>2, ExistsIsRow, AsReopenedRow DEF Resolved, Exists, States
        <3>3. alerts' \in Table
            BY <2>3, <3>1, <3>2 DEF ReopenWrite, TypeOK
        <3> QED
            BY <2>3, <3>3, DoneTyped DEF ReopenWrite, onlyAlerts, TypeOK
    <2>4. ASSUME NEW p \in Patterns, AddExclusion(c, p)
          PROVE  TypeOK'
        BY <2>4 DEF AddExclusion, TypeOK, NoRequest
    <2>5. CASE SelectCovered(c)
        <3>1. client' \in [Servers -> Requests]
            <4>1. CASE Done(c)
                BY <4>1, DoneTyped
            <4>2. CASE ~Done(c)
                <5>1. PICK ids \in SUBSET Ids :
                          client' = [client EXCEPT ![c] = [@ EXCEPT !.op = "close", !.ids = ids]]
                    BY <2>5, <4>2 DEF SelectCovered, LiveIds
                <5>2. [client[c] EXCEPT !.op = "close", !.ids = ids] \in Requests
                    <6>1. client[c] \in Requests
                        BY DEF TypeOK
                    <6> QED
                        BY <6>1, <5>1 DEF Requests
                <5> QED
                    BY <5>1, <5>2 DEF TypeOK
            <4> QED
                BY <4>1, <4>2
        <3> QED
            BY <2>5, <3>1 DEF SelectCovered, TypeOK, dbVars
    <2>6. CASE ResolveSelected(c)
        <3>1. alerts' \in Table
            BY <2>6, ResolveRowsTyped DEF ResolveSelected
        <3> QED
            BY <2>6, <3>1, DoneTyped DEF ResolveSelected, onlyAlerts, TypeOK
    <2>7. ASSUME NEW r \in Retentions, SetAlertSettings(c, r)
          PROVE  TypeOK'
        BY <2>7 DEF SetAlertSettings, TypeOK, NoRequest
    <2> QED
        BY <1>2, <2>1, <2>2, <2>3, <2>4, <2>5, <2>6, <2>7 DEF Request
<1>3. CASE BeginMaintenance
    BY <1>3 DEF BeginMaintenance, TypeOK, NoRequest, dbVars, Servers
<1>4. ASSUME NEW c \in Servers, Settle(c)
      PROVE  TypeOK'
    <2>1. ASSUME NEW S \in SUBSET Severities, PruneResolvedAlerts(c, S)
          PROVE  TypeOK'
        <3>1. alerts' \in Table
            BY <2>1, DeleteRowsTyped DEF PruneResolvedAlerts
        <3> QED
            BY <2>1, <3>1, DoneTyped DEF PruneResolvedAlerts, onlyAlerts, TypeOK
    <2>2. CASE AbortRequest(c)
        BY <2>2, DoneTyped DEF AbortRequest, TypeOK, dbVars
    <2> QED
        BY <1>4, <2>1, <2>2 DEF Settle
<1>5. CASE Statement
    <2>1. ASSUME NEW i \in Ids, AckAlert(i)
          PROVE  TypeOK'
        <3>1. alerts[i] \in Row
            BY <2>1, ExistsIsRow, LiveExists DEF AckAlert
        <3> QED
            BY <2>1, <3>1 DEF AckAlert, onlyAlerts, TypeOK, Row, States
    <2>2. ASSUME NEW i \in Ids, ResolveAlert(i)
          PROVE  TypeOK'
        <3>1. alerts' \in Table
            BY <2>2, ResolveRowsTyped, LiveExists DEF ResolveAlert
        <3> QED
            BY <2>2, <3>1 DEF ResolveAlert, onlyAlerts, TypeOK
    <2>3. ASSUME NEW i \in Ids, DeleteAlert(i)
          PROVE  TypeOK'
        <3>1. alerts' \in Table
            BY <2>3, DeleteRowsTyped DEF DeleteAlert
        <3> QED
            BY <2>3, <3>1 DEF DeleteAlert, onlyAlerts, TypeOK
    <2>4. CASE ResolveAlerts
        <3>1. alerts' \in Table
            BY <2>4, ResolveRowsTyped, LiveExists DEF ResolveAlerts, LiveIds
        <3> QED
            BY <2>4, <3>1 DEF ResolveAlerts, onlyAlerts, TypeOK
    <2>5. CASE DeleteResolvedAlerts
        <3>1. alerts' \in Table
            BY <2>5, DeleteRowsTyped DEF DeleteResolvedAlerts
        <3> QED
            BY <2>5, <3>1 DEF DeleteResolvedAlerts, onlyAlerts, TypeOK
    <2>6. ASSUME NEW p \in Patterns, DeleteExclusion(p)
          PROVE  TypeOK'
        BY <2>6 DEF DeleteExclusion, TypeOK
    <2>7. ASSUME NEW a \in Addrs, LearnName(a) \/ ForgetName(a)
          PROVE  TypeOK'
        BY <2>7 DEF LearnName, ForgetName, TypeOK
    <2> QED
        BY <1>5, <2>1, <2>2, <2>3, <2>4, <2>5, <2>6, <2>7 DEF Statement
<1>6. ASSUME NEW e \in Evaluators, EndPass(e)
      PROVE  TypeOK'
    BY <1>6, NoPassTyped DEF EndPass, TypeOK, dbVars
<1>7. CASE Elapse
    <2>1. \A i \in Ids : Exists(i) => Aged(alerts[i]) \in Row
        BY ExistsIsRow, AgedRow
    <2> QED
        BY <1>7, <2>1 DEF Elapse, onlyAlerts, TypeOK
<1>8. CASE Restart
    BY <1>8, NoPassTyped DEF Restart, TypeOK, dbVars
<1>9. CASE UNCHANGED vars
    BY <1>9 DEF TypeOK, vars, dbVars
<1> QED
    BY <1>1, <1>2, <1>3, <1>4, <1>5, <1>6, <1>7, <1>8, <1>9 DEF Next, Step

\* An empty database and an idle server are in their types.
LEMMA TypeInit == Init => TypeOK
BY NoPassTyped DEF Init, TypeOK, Passes, Requests, Ids

\* The state of the whole component stays within its types, whatever the
\* interleaving of passes, requests, jobs and restarts.
THEOREM TypeCorrect == Spec => []TypeOK
BY TypeInit, TypeNext, PTL DEF Spec

-----------------------------------------------------------------------------
(* What a step can do to the rows.  Three kinds of step are told apart: one   *)
(* that makes no row live, the insertion of a new row, and a reopen.          *)

Dated(i) == Exists(i) => (Resolved(i) <=> alerts[i].resolved # Never)

\* Row i is left, closed or deleted.
Keeps(i) ==
    Exists(i)' => /\ Exists(i)
                  /\ alerts'[i].key = alerts[i].key
                  /\ alerts'[i].notified # Never => alerts[i].notified # Never
                  /\ Live(i)' => Live(i)
                  /\ Dated(i) => Dated(i)'

Quiet == nextId' = nextId /\ \A i \in Ids : Keeps(i)

Inserts == \E k \in Keys, s \in Severities : InsertAlert(k, s)

Reopens ==
    /\ nextId' = nextId
    /\ \E i \in Ids : /\ Resolved(i)
                      /\ KeyIsFree(alerts[i].key)
                      /\ alerts' = [alerts EXCEPT ![i] = AsReopened(@)]

\* A step that leaves the table alone makes no row live.
LEMMA SameRowsQuiet ==
    ASSUME UNCHANGED <<alerts, nextId>>
    PROVE  Quiet
BY DEF Quiet, Keeps, Exists, Live, Dated, Resolved

\* A bulk resolve makes no row live and dates the rows it closes.
LEMMA ResolveRowsQuiet ==
    ASSUME TypeOK, NEW S, \A i \in S \cap Ids : Exists(i), ResolveRows(S), nextId' = nextId
    PROVE  Quiet
<1> SUFFICES ASSUME NEW i \in Ids PROVE Keeps(i)
    BY DEF Quiet
<1>1. CASE i \in S
    <2>1. alerts[i] \in Row /\ alerts'[i] = AsResolved(alerts[i])
        BY <1>1, ExistsIsRow DEF ResolveRows
    <2> QED
        BY <1>1, <2>1, AsResolvedRow DEF Keeps, Exists, Live, Dated, Resolved
<1>2. CASE i \notin S
    BY <1>2 DEF ResolveRows, Keeps, Exists, Live, Dated, Resolved
<1> QED
    BY <1>1, <1>2

\* A bulk delete makes no row live.
LEMMA DeleteRowsQuiet ==
    ASSUME NEW S, DeleteRows(S), nextId' = nextId
    PROVE  Quiet
BY DEF DeleteRows, Quiet, Keeps, Exists, Live, Dated, Resolved, NoRow, States

\* A finding of a pass inserts a row or bumps one.
LEMMA RaiseFindingStep ==
    ASSUME TypeOK, NEW e \in Evaluators, RaiseFinding(e)
    PROVE  Quiet \/ Inserts
<1>1. PICK f \in pass[e].todo, i \in Ids : UpsertAlert(f[1], f[2], i)
    BY DEF RaiseFinding
<1>2. f[1] \in Keys /\ f[2] \in Severities
    BY PassTyped DEF Finding
<1>3. CASE BumpAlert(f[1], f[2], i)
    <2>1. alerts[i] \in Row /\ Exists(i)
        BY <1>3, ExistsIsRow, LiveExists DEF BumpAlert, LiveOf, LiveIds
    <2>2. /\ alerts' = [alerts EXCEPT ![i] = Bumped(alerts[i], f[2])]
          /\ nextId' = nextId
        BY <1>3 DEF BumpAlert
    <2>3. ASSUME NEW j \in Ids
          PROVE  Keeps(j)
        BY <2>1, <2>2, <1>2, BumpedRow
            DEF Keeps, Exists, Live, Dated, Resolved, TypeOK
    <2> QED
        BY <2>2, <2>3 DEF Quiet
<1>4. CASE InsertAlert(f[1], f[2])
    BY <1>2, <1>4 DEF Inserts
<1> QED
    BY <1>1, <1>3, <1>4 DEF UpsertAlert

\* Changing the state of a live row to another live state makes no row live.
LEMMA RelabelQuiet ==
    ASSUME TypeOK, NEW i \in Ids, Live(i), NEW q \in {"open", "acked"},
           alerts' = [alerts EXCEPT ![i].state = q], nextId' = nextId
    PROVE  Quiet
<1>1. alerts[i] \in Row /\ Exists(i)
    BY ExistsIsRow, LiveExists
<1>2. ASSUME NEW j \in Ids
      PROVE  Keeps(j)
    <2>1. CASE j = i
        <3>1. /\ alerts'[j].state = q
              /\ alerts'[j].key = alerts[j].key
              /\ alerts'[j].resolved = alerts[j].resolved
              /\ alerts'[j].notified = alerts[j].notified
            BY <1>1, <2>1 DEF TypeOK, Row
        <3> QED
            BY <1>1, <2>1, <3>1 DEF Keeps, Exists, Live, Dated, Resolved
    <2>2. CASE j # i
        BY <2>2 DEF Keeps, Exists, Live, Dated, Resolved, TypeOK
    <2> QED
        BY <2>1, <2>2
<1> QED
    BY <1>2 DEF Quiet

\* Every step leaves the live rows alone or closes some, inserts one row, or reopens one.
LEMMA StepKinds == TypeOK /\ [Next]_vars => Quiet \/ Inserts \/ Reopens
<1> SUFFICES ASSUME TypeOK, [Next]_vars
             PROVE  Quiet \/ Inserts \/ Reopens
    OBVIOUS
<1>1. ASSUME NEW e \in Evaluators, Pass(e)
      PROVE  Quiet \/ Inserts
    <2>1. CASE RaiseFinding(e)
        BY <2>1, RaiseFindingStep
    <2>2. CASE AutoResolveStale(e)
        BY <2>2, ResolveRowsQuiet, LiveExists DEF AutoResolveStale, LiveIds
    <2>3. CASE UNCHANGED dbVars
        BY <2>3, SameRowsQuiet DEF dbVars
    <2> QED
        BY <1>1, <2>1, <2>2, <2>3 DEF Pass, BeginPass, FailPass, EndTick, FailTick
<1>2. ASSUME NEW c \in Clients, Request(c)
      PROVE  Quiet \/ Reopens
    <2>1. ASSUME NEW i \in Ids, Reopen(c, i)
          PROVE  Quiet
        <3>1. CASE alerts[i].state = "acked"
            BY <2>1, <3>1, RelabelQuiet DEF Reopen, Live, onlyAlerts
        <3>2. CASE alerts[i].state # "acked"
            BY <2>1, <3>2, SameRowsQuiet DEF Reopen, onlyAlerts
        <3> QED
            BY <3>1, <3>2
    <2>2. CASE ReopenWrite(c)
        <3>1. client[c].id \in Ids \/ client[c].id \notin Ids
            OBVIOUS
        <3>2. CASE UNCHANGED alerts
            BY <2>2, <3>2, SameRowsQuiet DEF ReopenWrite, onlyAlerts
        <3>3. CASE client[c].id \notin Ids
            <4>1. alerts' = alerts
                BY <2>2, <3>3 DEF ReopenWrite, TypeOK
            <4> QED
                BY <4>1, <3>2
        <3>4. CASE client[c].id \in Ids /\ alerts' # alerts
            BY <2>2, <3>4 DEF ReopenWrite, Reopens, onlyAlerts
        <3> QED
            BY <3>1, <3>2, <3>3, <3>4
    <2>3. CASE ResolveSelected(c)
        BY <2>3, ResolveRowsQuiet DEF ResolveSelected, onlyAlerts
    <2>4. CASE UNCHANGED <<alerts, nextId>>
        BY <2>4, SameRowsQuiet
    <2> QED
        BY <1>2, <2>1, <2>2, <2>3, <2>4
            DEF Request, ReopenSelect, AddExclusion, SelectCovered, SetAlertSettings, dbVars
<1>3. CASE BeginMaintenance
    BY <1>3, SameRowsQuiet DEF BeginMaintenance, dbVars
<1>4. ASSUME NEW c \in Servers, Settle(c)
      PROVE  Quiet
    <2>1. ASSUME NEW S \in SUBSET Severities, PruneResolvedAlerts(c, S)
          PROVE  Quiet
        BY <2>1, DeleteRowsQuiet DEF PruneResolvedAlerts, onlyAlerts
    <2>2. CASE AbortRequest(c)
        BY <2>2, SameRowsQuiet DEF AbortRequest, dbVars
    <2> QED
        BY <1>4, <2>1, <2>2 DEF Settle
<1>5. CASE Statement
    <2>1. ASSUME NEW i \in Ids, AckAlert(i)
          PROVE  Quiet
        BY <2>1, RelabelQuiet DEF AckAlert, onlyAlerts
    <2>2. ASSUME NEW i \in Ids, ResolveAlert(i)
          PROVE  Quiet
        BY <2>2, ResolveRowsQuiet, LiveExists DEF ResolveAlert, onlyAlerts
    <2>3. ASSUME NEW i \in Ids, DeleteAlert(i)
          PROVE  Quiet
        BY <2>3, DeleteRowsQuiet DEF DeleteAlert, onlyAlerts
    <2>4. CASE ResolveAlerts
        BY <2>4, ResolveRowsQuiet, LiveExists DEF ResolveAlerts, LiveIds, onlyAlerts
    <2>5. CASE DeleteResolvedAlerts
        BY <2>5, DeleteRowsQuiet DEF DeleteResolvedAlerts, onlyAlerts
    <2>6. CASE UNCHANGED <<alerts, nextId>>
        BY <2>6, SameRowsQuiet
    <2> QED
        BY <1>5, <2>1, <2>2, <2>3, <2>4, <2>5, <2>6
            DEF Statement, DeleteExclusion, LearnName, ForgetName
<1>6. ASSUME NEW e \in Evaluators, EndPass(e)
      PROVE  Quiet
    BY <1>6, SameRowsQuiet DEF EndPass, dbVars
<1>7. CASE Elapse
    <2>1. ASSUME NEW i \in Ids
          PROVE  Keeps(i)
        <3>1. CASE Exists(i)
            <4>1. alerts[i] \in Row /\ alerts'[i] = Aged(alerts[i])
                BY <1>7, <3>1, ExistsIsRow DEF Elapse
            <4> QED
                BY <3>1, <4>1, AgedRow DEF Keeps, Exists, Live, Dated, Resolved
        <3>2. CASE ~Exists(i)
            BY <1>7, <3>2 DEF Elapse, Keeps, Exists, NoRow, States
        <3> QED
            BY <3>1, <3>2
    <2> QED
        BY <1>7, <2>1 DEF Elapse, Quiet, onlyAlerts
<1>8. CASE Restart
    BY <1>8, SameRowsQuiet DEF Restart, dbVars
<1>9. CASE UNCHANGED vars
    BY <1>9, SameRowsQuiet DEF vars, dbVars
<1> QED
    BY <1>1, <1>2, <1>3, <1>4, <1>5, <1>6, <1>7, <1>8, <1>9 DEF Next, Step

-----------------------------------------------------------------------------
(* One live alert for a finding *)

\* No step makes a second row of a finding live.
LEMMA OneLiveNext ==
    ASSUME TypeOK, OneLivePerKey, [Next]_vars
    PROVE  OneLivePerKey'
<1>1. CASE Quiet
    <2>1. \A i \in Ids : Live(i)' => Live(i) /\ alerts'[i].key = alerts[i].key
        BY <1>1 DEF Quiet, Keeps, Live, Exists, States
    <2> QED
        BY <2>1 DEF OneLivePerKey, LiveIds
<1>2. CASE Inserts
    <2>1. PICK k \in Keys, s \in Severities : InsertAlert(k, s)
        BY <1>2 DEF Inserts
    <2>2. /\ nextId \in Ids /\ LiveOf(k) = {}
          /\ \A i \in Ids : i # nextId => alerts'[i] = alerts[i]
          /\ alerts'[nextId].key = k
        BY <2>1, NewRowIsRow DEF InsertAlert, TypeOK
    <2>3. \A i \in Ids : i # nextId /\ Live(i)' => Live(i) /\ alerts'[i].key # k
        BY <2>2 DEF Live, LiveOf, LiveIds
    <2> QED
        BY <2>2, <2>3 DEF OneLivePerKey, LiveIds
<1>3. CASE Reopens
    <2>1. PICK j \in Ids : /\ Resolved(j)
                           /\ KeyIsFree(alerts[j].key)
                           /\ alerts' = [alerts EXCEPT ![j] = AsReopened(@)]
        BY <1>3 DEF Reopens
    <2>2. alerts[j] \in Row
        BY <2>1, ExistsIsRow DEF Resolved, Exists, States
    <2>3. /\ \A i \in Ids : i # j => alerts'[i] = alerts[i]
          /\ alerts'[j].key = alerts[j].key
        BY <2>1, <2>2, AsReopenedRow DEF TypeOK
    <2>4. \A i \in Ids : i # j /\ Live(i)' => Live(i) /\ alerts'[i].key # alerts[j].key
        BY <2>1, <2>3 DEF Live, KeyIsFree, LiveOf, LiveIds
    <2> QED
        BY <2>3, <2>4 DEF OneLivePerKey, LiveIds
<1> QED
    BY <1>1, <1>2, <1>3, StepKinds

\* An empty table has no two live rows.
LEMMA OneLiveInit == Init => OneLivePerKey
BY DEF Init, OneLivePerKey, LiveIds, Live, NoRow

\* However passes, reopens and trusted-list requests interleave, and although a
\* reopen decides on an older reading of the table, a finding never has two live
\* alerts: the only steps that make a row live are the upsert and the write of a
\* reopen, and the unique index makes both look at the table as it is.
THEOREM OneLive == Spec => []OneLivePerKey
BY TypeCorrect, OneLiveInit, OneLiveNext, PTL DEF Spec

-----------------------------------------------------------------------------
(* Resolved rows are dated *)

\* No step leaves a resolved row without resolved_at, or a live one with it.
LEMMA DatedNext ==
    ASSUME TypeOK, ResolvedAreDated, [Next]_vars
    PROVE  ResolvedAreDated'
<1> SUFFICES ASSUME NEW i \in Ids PROVE Dated(i)'
    BY DEF ResolvedAreDated, Dated
<1>0. Dated(i)
    BY DEF ResolvedAreDated, Dated
<1>1. CASE Quiet
    BY <1>0, <1>1 DEF Quiet, Keeps, Dated, Exists, Resolved
<1>2. CASE Inserts
    <2>1. PICK k \in Keys, s \in Severities : InsertAlert(k, s)
        BY <1>2 DEF Inserts
    <2>2. alerts'[i] = alerts[i] \/ alerts'[i] = NewRow(k, s)
        BY <2>1 DEF InsertAlert, TypeOK
    <2> QED
        BY <1>0, <2>2, NewRowIsRow DEF Dated, Exists, Resolved
<1>3. CASE Reopens
    <2>1. PICK j \in Ids : Resolved(j) /\ alerts' = [alerts EXCEPT ![j] = AsReopened(@)]
        BY <1>3 DEF Reopens
    <2>2. alerts[j] \in Row
        BY <2>1, ExistsIsRow DEF Resolved, Exists, States
    <2> QED
        BY <1>0, <2>1, <2>2, AsReopenedRow DEF Dated, Exists, Resolved, TypeOK
<1> QED
    BY <1>1, <1>2, <1>3, StepKinds

\* An empty table has no resolved row.
LEMMA DatedInit == Init => ResolvedAreDated
BY DEF Init, ResolvedAreDated, Exists, NoRow, States

\* Every sequence of resolving, reopening and ageing leaves resolved_at set
\* exactly on the resolved rows, so that retention can find each of them.
THEOREM AlwaysDated == Spec => []ResolvedAreDated
BY TypeCorrect, DatedInit, DatedNext, PTL DEF Spec

-----------------------------------------------------------------------------
(* What a trusted-list request closes.  The invariant is inductive only with  *)
(* the fact that ids are never given out twice: a row that exists, and an id  *)
(* a request remembers, is below the sequence.                                *)

IdsSpent ==
    /\ \A i \in Ids : Exists(i) => i < nextId
    /\ \A c \in Clients : \A i \in client[c].ids : i < nextId

\* What a step can do to the selection of a request.
LEMMA SelectionStep ==
    ASSUME TypeOK, [Next]_vars, NEW c \in Clients
    PROVE  \/ client'[c] = client[c]
           \/ client'[c].ids = {}
           \/ client'[c].ids = client[c].ids /\ client'[c].patterns = client[c].patterns
           \/ SelectCovered(c) /\ client'[c].ids \subseteq LiveIds
              /\ client'[c].patterns = client[c].patterns
              /\ \A i \in client'[c].ids : Covered(client[c].patterns, alerts[i].key)
<1> DEFINE Goal ==
           \/ client'[c] = client[c]
           \/ client'[c].ids = {}
           \/ client'[c].ids = client[c].ids /\ client'[c].patterns = client[c].patterns
           \/ SelectCovered(c) /\ client'[c].ids \subseteq LiveIds
              /\ client'[c].patterns = client[c].patterns
              /\ \A i \in client'[c].ids : Covered(client[c].patterns, alerts[i].key)
<1> c \in Servers
    BY DEF Servers
<1>0. /\ client \in [Servers -> Requests]
      /\ client[c] \in Requests
    BY DEF TypeOK, Requests
<1>1. ASSUME NEW d \in Servers, Done(d)
      PROVE  Goal
    BY <1>0, <1>1 DEF Done, NoRequest
<1>2. CASE UNCHANGED client
    BY <1>2
<1>3. ASSUME NEW d \in Clients, Request(d)
      PROVE  Goal
    <2> d \in Servers
        BY DEF Servers
    <2>1. ASSUME NEW i \in Ids, Reopen(d, i)
          PROVE  Goal
        BY <2>1, <1>0 DEF Reopen, NoRequest
    <2>2. CASE ReopenSelect(d)
        BY <2>2, <1>0, <1>1 DEF ReopenSelect, Requests
    <2>3. CASE ReopenWrite(d) \/ ResolveSelected(d)
        BY <2>3, <1>1 DEF ReopenWrite, ResolveSelected
    <2>4. ASSUME NEW p \in Patterns, AddExclusion(d, p)
          PROVE  Goal
        BY <2>4, <1>0 DEF AddExclusion, NoRequest
    <2>5. CASE SelectCovered(d)
        <3> DEFINE ids == {i \in LiveIds : Covered(client[d].patterns, alerts[i].key)}
        <3>1. CASE Done(d)
            BY <3>1, <1>1
        <3>2. CASE ~Done(d)
            <4>1. client' = [client EXCEPT ![d] = [@ EXCEPT !.op = "close", !.ids = ids]]
                BY <2>5, <3>2 DEF SelectCovered
            <4>2. CASE d # c
                BY <4>1, <4>2, <1>0
            <4>3. CASE d = c
                <5>1. client'[c].ids = ids /\ client'[c].patterns = client[c].patterns
                    BY <4>1, <4>3, <1>0 DEF Requests
                <5> QED
                    BY <5>1, <4>3, <2>5
            <4> QED
                BY <4>2, <4>3
        <3> QED
            BY <3>1, <3>2
    <2>6. ASSUME NEW r \in Retentions, SetAlertSettings(d, r)
          PROVE  Goal
        BY <2>6, <1>0 DEF SetAlertSettings, NoRequest
    <2> QED
        BY <1>3, <2>1, <2>2, <2>3, <2>4, <2>5, <2>6 DEF Request
<1>4. ASSUME NEW d \in Servers, Settle(d)
      PROVE  Goal
    BY <1>4, <1>1 DEF Settle, PruneResolvedAlerts, AbortRequest
<1>5. CASE BeginMaintenance
    <2>1. c # Maintenance
        OBVIOUS
    <2> QED
        BY <1>5, <1>0, <2>1 DEF BeginMaintenance
<1>6. CASE Restart
    BY <1>6 DEF Restart, NoRequest
<1>7. ASSUME NEW e \in Evaluators, Pass(e) \/ EndPass(e)
      PROVE  Goal
    BY <1>2, <1>7 DEF Pass, BeginPass, RaiseFinding, FailPass, EndTick, AutoResolveStale,
        FailTick, EndPass
<1>8. CASE Statement \/ Elapse \/ UNCHANGED vars
    BY <1>2, <1>8 DEF Statement, AckAlert, ResolveAlert, DeleteAlert, ResolveAlerts,
        DeleteResolvedAlerts, DeleteExclusion, LearnName, ForgetName, Elapse, vars
<1> QED
    BY <1>3, <1>4, <1>5, <1>6, <1>7, <1>8 DEF Next, Step

\* A row below the sequence is never another finding's later on, and rows above
\* it do not exist yet.
LEMMA RowIdentity ==
    ASSUME TypeOK, [Next]_vars
    PROVE  /\ nextId <= nextId'
           /\ \A i \in Ids : Exists(i)' /\ i # nextId =>
                  Exists(i) /\ alerts'[i].key = alerts[i].key
           /\ Exists(nextId)' /\ nextId \in Ids =>
                  \/ Exists(nextId) /\ alerts'[nextId].key = alerts[nextId].key
                  \/ nextId < nextId'
<1>0. nextId \in Int
    BY DEF TypeOK
<1>1. CASE Quiet
    BY <1>0, <1>1 DEF Quiet, Keeps
<1>2. CASE Inserts
    <2>1. PICK k \in Keys, s \in Severities : InsertAlert(k, s)
        BY <1>2 DEF Inserts
    <2> QED
        BY <1>0, <2>1 DEF InsertAlert, Exists, TypeOK
<1>3. CASE Reopens
    <2>1. PICK j \in Ids : Resolved(j) /\ alerts' = [alerts EXCEPT ![j] = AsReopened(@)]
        BY <1>3 DEF Reopens
    <2>2. alerts[j] \in Row /\ Exists(j)
        BY <2>1, ExistsIsRow DEF Resolved, Exists, States
    <2>3. \A i \in Ids : Exists(i)' => Exists(i) /\ alerts'[i].key = alerts[i].key
        BY <2>1, <2>2, AsReopenedRow DEF Exists, TypeOK
    <2> QED
        BY <1>0, <1>3, <2>3 DEF Reopens
<1> QED
    BY <1>1, <1>2, <1>3, StepKinds

\* A selection holds ids the sequence has already given out, and goes on doing so.
LEMMA IdsSpentNext ==
    ASSUME TypeOK, IdsSpent, [Next]_vars
    PROVE  IdsSpent'
<1>0. /\ nextId \in Int /\ nextId' \in Int
      /\ \A i \in Ids : i \in Int
      /\ \A c \in Clients : client[c].ids \subseteq Ids /\ client'[c].ids \subseteq Ids
    BY TypeNext DEF TypeOK, Ids, Servers
<1>1. \A i \in Ids : Exists(i)' => i < nextId'
    BY <1>0, RowIdentity DEF IdsSpent
<1>2. ASSUME NEW c \in Clients, NEW i \in client'[c].ids
      PROVE  i < nextId'
    <2>1. i < nextId
        <3>1. CASE i \in client[c].ids
            BY <3>1 DEF IdsSpent
        <3>2. CASE i \in LiveIds
            BY <3>2, LiveExists DEF IdsSpent, LiveIds
        <3> QED
            BY <1>2, <3>1, <3>2, SelectionStep
    <2> QED
        BY <1>0, <1>2, <2>1, RowIdentity
<1> QED
    BY <1>1, <1>2 DEF IdsSpent

\* No step makes a selected row the row of a finding outside the pattern.
LEMMA SelectedNext ==
    ASSUME TypeOK, IdsSpent, SelectedAreCovered, [Next]_vars
    PROVE  SelectedAreCovered'
<1> SUFFICES ASSUME NEW c \in Clients, NEW i \in client'[c].ids, Exists(i)'
             PROVE  \E p \in client'[c].patterns : KeyAddrs[alerts'[i].key] \cap Covers[p] # {}
    BY DEF SelectedAreCovered
<1>0. /\ client[c].ids \subseteq Ids /\ client'[c].ids \subseteq Ids
      /\ nextId \in Int
      /\ client[c].patterns \subseteq Patterns
    BY TypeNext DEF TypeOK, Servers
<1>1. CASE i \in client[c].ids /\ client'[c].patterns = client[c].patterns
    <2>1. i \in Ids /\ i # nextId
        BY <1>0, <1>1 DEF IdsSpent, Ids
    <2>2. Exists(i) /\ alerts'[i].key = alerts[i].key
        BY <2>1, RowIdentity
    <2> QED
        BY <1>1, <2>2 DEF SelectedAreCovered
<1>2. CASE /\ SelectCovered(c) /\ client'[c].patterns = client[c].patterns
           /\ Covered(client[c].patterns, alerts[i].key)
    <2>1. alerts' = alerts
        BY <1>2 DEF SelectCovered, dbVars
    <2> QED
        BY <1>2, <2>1 DEF Covered, Matches
<1> QED
    BY <1>1, <1>2, SelectionStep

\* No request has selected anything at the start.
LEMMA SelectedInit == Init => IdsSpent /\ SelectedAreCovered
BY DEF Init, IdsSpent, SelectedAreCovered, Exists, NoRow, States, NoRequest, Servers

\* A trusted-list request closes rows by ids it read in an earlier statement.
\* Whatever happened between, none of them has become the row of a finding its
\* pattern is not for, because no id is given out twice.
THEOREM ClosesOnlyCovered == Spec => []SelectedAreCovered
<1> DEFINE Inv == IdsSpent /\ SelectedAreCovered
<1>1. Init => Inv
    BY SelectedInit
<1>2. TypeOK /\ Inv /\ [Next]_vars => Inv'
    BY IdsSpentNext, SelectedNext
<1> QED
    BY <1>1, <1>2, TypeCorrect, PTL DEF Spec

-----------------------------------------------------------------------------
(* The table implements AlertCases.  A case is looked up in a table T, the    *)
(* one before a step or the one after it.                                     *)

\* The live rows of a finding, the case a row stands for, the case of a finding.
LiveIn(T, k) == {i \in Ids : T[i].state \in {"open", "acked"} /\ T[i].key = k}
CaseOfRow(r) == [state |-> r.state, sev |-> r.sev]
CaseIn(T, k) == IF LiveIn(T, k) = {} THEN Cases!NoCase
                ELSE CaseOfRow(T[CHOOSE i \in LiveIn(T, k) : TRUE])

\* The refinement mapping reads the case of every finding in the table.
LEMMA CaseIsRead == case = [k \in Keys |-> CaseIn(alerts, k)]
<1>1. \A k \in Keys : LiveOf(k) = LiveIn(alerts, k)
    BY DEF LiveOf, LiveIn, LiveIds, Live
<1> QED
    BY <1>1 DEF case, CaseIn, CaseOfRow, Cases!NoCase

\* So it does after a step.
LEMMA CaseIsReadNext == case' = [k \in Keys |-> CaseIn(alerts', k)]
<1>1. \A k \in Keys : LiveOf(k)' = LiveIn(alerts', k)
    BY DEF LiveOf, LiveIn, LiveIds, Live
<1> QED
    BY <1>1 DEF case, CaseIn, CaseOfRow, Cases!NoCase

\* Where a finding has one live row, its case is that row.
LEMMA CaseOfLiveRow ==
    ASSUME NEW T, NEW k, NEW i, LiveIn(T, k) = {i}
    PROVE  CaseIn(T, k) = CaseOfRow(T[i])
<1>1. (CHOOSE j \in LiveIn(T, k) : TRUE) = i
    OBVIOUS
<1> QED
    BY <1>1 DEF CaseIn

\* A finding without a live row has no case.
LEMMA CaseOfNone ==
    ASSUME NEW T, NEW k, LiveIn(T, k) = {}
    PROVE  CaseIn(T, k) = Cases!NoCase
BY DEF CaseIn

\* The case of a finding is the same in two tables with the same live rows of it.
LEMMA CaseStays ==
    ASSUME NEW T, NEW U, NEW k, LiveIn(U, k) = LiveIn(T, k),
           \A i \in LiveIn(T, k) : U[i].state = T[i].state /\ U[i].sev = T[i].sev
    PROVE  CaseIn(U, k) = CaseIn(T, k)
<1>1. CASE LiveIn(T, k) = {}
    BY <1>1, CaseOfNone
<1>2. CASE LiveIn(T, k) # {}
    <2>1. (CHOOSE i \in LiveIn(T, k) : TRUE) \in LiveIn(T, k)
        BY <1>2
    <2> QED
        BY <1>2, <2>1 DEF CaseIn, CaseOfRow
<1> QED
    BY <1>1, <1>2

\* One live row for a finding, as a set.
LEMMA LiveIsSingle ==
    ASSUME OneLivePerKey, NEW i \in LiveIds
    PROVE  LiveIn(alerts, alerts[i].key) = {i}
BY DEF OneLivePerKey, LiveIn, LiveIds, Live

-----------------------------------------------------------------------------
(* What a step does to the live rows. *)

LeavesLive ==
    \A i \in Ids : /\ Live(i)' <=> Live(i)
                   /\ Live(i) => /\ alerts'[i].key = alerts[i].key
                                 /\ alerts'[i].state = alerts[i].state
                                 /\ alerts'[i].sev = alerts[i].sev
Bumps == \E k \in Keys, s \in Severities, i \in Ids : BumpAlert(k, s, i)
Relabels == \E i \in LiveIds, q \in {"open", "acked"} : alerts' = [alerts EXCEPT ![i].state = q]
Closes == \E S : (\A i \in S \cap Ids : Exists(i)) /\ ResolveRows(S)

\* A step that only deletes resolved rows leaves the live ones alone.
LEMMA DeleteLeavesLive ==
    ASSUME NEW S, \A i \in S \cap Ids : Resolved(i), DeleteRows(S)
    PROVE  LeavesLive
BY DEF DeleteRows, LeavesLive, Live, Resolved, NoRow

\* A step that does not touch the table leaves them alone.
LEMMA SameLeavesLive ==
    ASSUME UNCHANGED alerts
    PROVE  LeavesLive
BY DEF LeavesLive, Live

\* A tick of the clock changes no severity.
LEMMA AgedKeepsSev ==
    ASSUME NEW r \in Row
    PROVE  Aged(r).sev = r.sev
BY DEF Aged, Row

\* A tick of the clock leaves every row that exists in its state.
LEMMA ElapseLeavesLive ==
    ASSUME TypeOK, Elapse
    PROVE  LeavesLive
<1> SUFFICES ASSUME NEW i \in Ids
             PROVE  /\ Live(i)' <=> Live(i)
                    /\ Live(i) => /\ alerts'[i].key = alerts[i].key
                                  /\ alerts'[i].state = alerts[i].state
                                  /\ alerts'[i].sev = alerts[i].sev
    BY DEF LeavesLive
<1>1. CASE Exists(i)
    <2>1. alerts[i] \in Row /\ alerts'[i] = Aged(alerts[i])
        BY <1>1, ExistsIsRow DEF Elapse
    <2> QED
        BY <2>1, AgedRow, AgedKeepsSev DEF Live
<1>2. CASE ~Exists(i)
    <2>1. alerts'[i] = NoRow
        BY <1>2 DEF Elapse
    <2> QED
        BY <1>2, <2>1, LiveExists DEF Live, NoRow
<1> QED
    BY <1>1, <1>2

\* Every step is of one of six kinds.
LEMMA CaseSteps ==
    ASSUME TypeOK, [Next]_vars
    PROVE  LeavesLive \/ Inserts \/ Bumps \/ Relabels \/ Closes \/ Reopens
<1> DEFINE Goal == LeavesLive \/ Inserts \/ Bumps \/ Relabels \/ Closes \/ Reopens
<1>1. ASSUME NEW e \in Evaluators, Pass(e)
      PROVE  Goal
    <2>1. CASE RaiseFinding(e)
        <3>1. PICK f \in pass[e].todo, i \in Ids : UpsertAlert(f[1], f[2], i)
            BY <2>1 DEF RaiseFinding
        <3>2. f[1] \in Keys /\ f[2] \in Severities
            BY PassTyped DEF Finding
        <3> QED
            BY <3>1, <3>2 DEF UpsertAlert, Inserts, Bumps
    <2>2. CASE AutoResolveStale(e)
        BY <2>2, LiveExists DEF AutoResolveStale, LiveIds, Closes
    <2>3. CASE UNCHANGED dbVars
        BY <2>3, SameLeavesLive DEF dbVars
    <2> QED
        BY <1>1, <2>1, <2>2, <2>3 DEF Pass, BeginPass, FailPass, EndTick, FailTick
<1>2. ASSUME NEW c \in Clients, Request(c)
      PROVE  Goal
    <2>1. ASSUME NEW i \in Ids, Reopen(c, i)
          PROVE  Goal
        <3>1. CASE alerts[i].state = "acked"
            BY <2>1, <3>1 DEF Reopen, Live, LiveIds, Relabels
        <3>2. CASE alerts[i].state # "acked"
            BY <2>1, <3>2, SameLeavesLive DEF Reopen
        <3> QED
            BY <3>1, <3>2
    <2>2. CASE ReopenWrite(c)
        <3>2. CASE alerts' = alerts
            BY <3>2, SameLeavesLive
        <3>3. CASE client[c].id \notin Ids
            <4>1. alerts' = alerts
                BY <2>2, <3>3 DEF ReopenWrite, TypeOK
            <4> QED
                BY <4>1, <3>2
        <3>4. CASE client[c].id \in Ids /\ alerts' # alerts
            BY <2>2, <3>4 DEF ReopenWrite, Reopens, onlyAlerts
        <3> QED
            BY <3>2, <3>3, <3>4
    <2>3. CASE ResolveSelected(c)
        BY <2>3 DEF ResolveSelected, Closes
    <2>4. CASE UNCHANGED alerts
        BY <2>4, SameLeavesLive
    <2> QED
        BY <1>2, <2>1, <2>2, <2>3, <2>4
            DEF Request, ReopenSelect, AddExclusion, SelectCovered, SetAlertSettings, dbVars
<1>3. ASSUME NEW c \in Servers, Settle(c)
      PROVE  Goal
    <2>1. ASSUME NEW S \in SUBSET Severities, PruneResolvedAlerts(c, S)
          PROVE  Goal
        BY <2>1, DeleteLeavesLive DEF PruneResolvedAlerts, Expired
    <2>2. CASE AbortRequest(c)
        BY <2>2, SameLeavesLive DEF AbortRequest, dbVars
    <2> QED
        BY <1>3, <2>1, <2>2 DEF Settle
<1>4. CASE Statement
    <2>1. ASSUME NEW i \in Ids, AckAlert(i)
          PROVE  Goal
        BY <2>1 DEF AckAlert, LiveIds, Relabels
    <2>2. ASSUME NEW i \in Ids, ResolveAlert(i)
          PROVE  Goal
        BY <2>2, LiveExists DEF ResolveAlert, Closes
    <2>3. ASSUME NEW i \in Ids, DeleteAlert(i)
          PROVE  Goal
        BY <2>3, DeleteLeavesLive DEF DeleteAlert
    <2>4. CASE ResolveAlerts
        BY <2>4, LiveExists DEF ResolveAlerts, LiveIds, Closes
    <2>5. CASE DeleteResolvedAlerts
        BY <2>5, DeleteLeavesLive DEF DeleteResolvedAlerts
    <2>6. CASE UNCHANGED alerts
        BY <2>6, SameLeavesLive
    <2> QED
        BY <1>4, <2>1, <2>2, <2>3, <2>4, <2>5, <2>6
            DEF Statement, DeleteExclusion, LearnName, ForgetName
<1>5. CASE Elapse
    BY <1>5, ElapseLeavesLive
<1>6. CASE UNCHANGED alerts
    BY <1>6, SameLeavesLive
<1> QED
    BY <1>1, <1>2, <1>3, <1>4, <1>5, <1>6
        DEF Next, Step, BeginMaintenance, EndPass, Restart, vars, dbVars

-----------------------------------------------------------------------------
(* Each kind of step is a step of the cases. *)

\* A step that leaves the live rows alone changes no case.
LEMMA LeavesLiveStutters ==
    ASSUME LeavesLive
    PROVE  case' = case
<1>1. ASSUME NEW k \in Keys
      PROVE  CaseIn(alerts', k) = CaseIn(alerts, k)
    <2>1. LiveIn(alerts', k) = LiveIn(alerts, k)
        BY DEF LeavesLive, LiveIn, Live
    <2>2. \A i \in LiveIn(alerts, k) : alerts'[i].state = alerts[i].state /\ alerts'[i].sev = alerts[i].sev
        BY DEF LeavesLive, LiveIn, Live
    <2> QED
        BY <2>1, <2>2, CaseStays
<1> QED
    BY <1>1, CaseIsRead, CaseIsReadNext

\* The case of a finding with a live row, and of one without.
LEMMA CaseNow ==
    ASSUME OneLivePerKey, NEW k \in Keys
    PROVE  /\ LiveOf(k) = {} => case[k] = Cases!NoCase
           /\ \A i \in LiveIds : alerts[i].key = k => case[k] = CaseOfRow(alerts[i])
<1>1. case[k] = CaseIn(alerts, k)
    BY CaseIsRead
<1>2. LiveOf(k) = LiveIn(alerts, k)
    BY DEF LiveOf, LiveIn, LiveIds, Live
<1>3. ASSUME NEW i \in LiveIds, alerts[i].key = k
      PROVE  CaseIn(alerts, k) = CaseOfRow(alerts[i])
    BY <1>3, LiveIsSingle, CaseOfLiveRow
<1> QED
    BY <1>1, <1>2, <1>3, CaseOfNone

\* The case of a row that exists is a case.
LEMMA RowIsACase ==
    ASSUME NEW r, r.state # "none"
    PROVE  CaseOfRow(r) # Cases!NoCase
<1>1. CaseOfRow(r).state # Cases!NoCase.state
    BY DEF CaseOfRow, Cases!NoCase
<1> QED
    BY <1>1

\* A step after which row i, and no other, is a live one of finding k, and that
\* changes no other row, changes the case of k alone.
LEMMA CaseOfOneRow ==
    ASSUME NEW i \in Ids, NEW k \in Keys, Live(i)', alerts'[i].key = k,
           \A j \in Ids \ {i} : alerts'[j] = alerts[j],
           LiveOf(k) \subseteq {i}, Live(i) => alerts[i].key = k
    PROVE  case' = [case EXCEPT ![k] = CaseOfRow(alerts'[i])]
<1>1. CaseIn(alerts', k) = CaseOfRow(alerts'[i])
    <2>1. LiveIn(alerts', k) = {i}
        BY DEF LiveIn, LiveOf, LiveIds, Live
    <2> QED
        BY <2>1, CaseOfLiveRow
<1>2. ASSUME NEW q \in Keys \ {k}
      PROVE  CaseIn(alerts', q) = CaseIn(alerts, q)
    <2>1. LiveIn(alerts', q) = LiveIn(alerts, q)
        BY <1>2 DEF LiveIn, Live
    <2>2. i \notin LiveIn(alerts, q)
        BY <1>2 DEF LiveIn, Live
    <2>3. \A j \in LiveIn(alerts, q) : alerts'[j].state = alerts[j].state /\ alerts'[j].sev = alerts[j].sev
        BY <2>2 DEF LiveIn
    <2> QED
        BY <2>1, <2>3, CaseStays
<1> QED
    BY <1>1, <1>2, CaseIsRead, CaseIsReadNext

\* So a statement that writes one row changes one case.
LEMMA CaseOfWrittenRow ==
    ASSUME TypeOK, NEW i \in Ids, NEW k \in Keys, NEW r,
           alerts' = [alerts EXCEPT ![i] = r], r.key = k, r.state \in {"open", "acked"},
           LiveOf(k) \subseteq {i}, Live(i) => alerts[i].key = k
    PROVE  case' = [case EXCEPT ![k] = CaseOfRow(r)]
<1>1. alerts'[i] = r /\ \A j \in Ids \ {i} : alerts'[j] = alerts[j]
    BY DEF TypeOK
<1>2. Live(i)'
    BY <1>1 DEF Live
<1>3. case' = [case EXCEPT ![k] = CaseOfRow(alerts'[i])]
    BY <1>1, <1>2, CaseOfOneRow
<1> QED
    BY <1>1, <1>3

\* A new row opens a case.
LEMMA InsertRaises ==
    ASSUME TypeOK, OneLivePerKey, IdsSpent, Inserts
    PROVE  Cases!Next
<1>1. PICK k \in Keys, s \in Severities : InsertAlert(k, s)
    BY DEF Inserts
<1>2. nextId \in Ids /\ ~Exists(nextId)
    BY <1>1 DEF InsertAlert, IdsSpent, TypeOK, Ids
<1>3. ~Live(nextId)
    BY <1>2, LiveExists
<1>4. /\ alerts' = [alerts EXCEPT ![nextId] = NewRow(k, s)]
      /\ NewRow(k, s).key = k /\ NewRow(k, s).state \in {"open", "acked"}
      /\ LiveOf(k) = {}
    BY <1>1 DEF InsertAlert, NewRow
<1>5. case' = [case EXCEPT ![k] = CaseOfRow(NewRow(k, s))]
    BY <1>2, <1>3, <1>4, CaseOfWrittenRow
<1>6. CaseOfRow(NewRow(k, s)) = Cases!Open(s)
    BY DEF CaseOfRow, NewRow, Cases!Open
<1>7. case[k] = Cases!NoCase
    BY <1>4, CaseNow
<1>8. Cases!TakeUp(k, s)
    BY <1>5, <1>6, <1>7 DEF Cases!TakeUp
<1> QED
    BY <1>8 DEF Cases!Next

\* Escalation as the statement words it is escalation by rank.
LEMMA EscalatedIsWorse ==
    ASSUME NEW a \in Severities, NEW b \in Severities
    PROVE  Escalated(a, b) = Cases!Worse(a, b)
BY DEF Severities, Escalated, Cases!Worse, SeverityRank

\* A bump adds to the case there is.
LEMMA BumpRaises ==
    ASSUME TypeOK, OneLivePerKey, Bumps
    PROVE  Cases!Next
<1>1. PICK k \in Keys, s \in Severities, i \in Ids : BumpAlert(k, s, i)
    BY DEF Bumps
<1>2. i \in LiveIds /\ alerts[i].key = k /\ alerts' = [alerts EXCEPT ![i] = Bumped(alerts[i], s)]
    BY <1>1 DEF BumpAlert, LiveOf
<1>3. alerts[i] \in Row /\ Live(i)
    BY <1>2, ExistsIsRow, LiveExists DEF LiveIds
<1> DEFINE r == Bumped(alerts[i], s)
<1>4. /\ r.key = k
      /\ r.state = alerts[i].state
      /\ r.state \in {"open", "acked"}
      /\ r.sev = Escalated(alerts[i].sev, s)
    BY <1>2, <1>3, BumpedRow DEF Live, Bumped, Row
<1>5. LiveOf(k) \subseteq {i}
    BY <1>2 DEF OneLivePerKey, LiveOf
<1> HIDE DEF r
<1>6. case' = [case EXCEPT ![k] = CaseOfRow(r)]
    BY <1>2, <1>4, <1>5, CaseOfWrittenRow DEF r
<1>7. case[k] = CaseOfRow(alerts[i]) /\ case[k] # Cases!NoCase
    BY <1>2, <1>3, CaseNow, RowIsACase DEF Live
<1>8. alerts[i].sev \in Severities
    BY <1>3 DEF Row
<1>9. CaseOfRow(r) = Cases!Recurred(case[k], s)
    BY <1>4, <1>7, <1>8, EscalatedIsWorse DEF CaseOfRow, Cases!Recurred
<1>10. Cases!Raise(k, s)
    BY <1>6, <1>7, <1>9 DEF Cases!Raise
<1> QED
    BY <1>10 DEF Cases!Next

\* An acknowledgement, and a reopen of an acknowledged alert.
LEMMA RelabelAcknowledges ==
    ASSUME TypeOK, OneLivePerKey, Relabels
    PROVE  Cases!Next
<1>1. PICK i \in LiveIds, q \in {"open", "acked"} : alerts' = [alerts EXCEPT ![i].state = q]
    BY DEF Relabels
<1>2. i \in Ids /\ Live(i) /\ alerts[i] \in Row
    BY ExistsIsRow, LiveExists DEF LiveIds
<1> DEFINE r == [alerts[i] EXCEPT !.state = q]
           k == alerts[i].key
<1>3. r.key = k /\ r.state = q /\ r.sev = alerts[i].sev /\ k \in Keys
    BY <1>2 DEF Row
<1>4. alerts' = [alerts EXCEPT ![i] = r]
    BY <1>1
<1>5. LiveOf(k) \subseteq {i}
    BY <1>1, <1>2 DEF OneLivePerKey, LiveOf
<1> HIDE DEF r
<1>6. case' = [case EXCEPT ![k] = CaseOfRow(r)]
    BY <1>2, <1>3, <1>4, <1>5, CaseOfWrittenRow
<1>7. case[k] = CaseOfRow(alerts[i]) /\ case[k] # Cases!NoCase
    BY <1>2, <1>3, CaseNow, RowIsACase DEF Live
<1>8. CaseOfRow(r) = [case[k] EXCEPT !.state = q]
    BY <1>3, <1>7 DEF CaseOfRow
<1> HIDE DEF k
<1>9. case' = [case EXCEPT ![k].state = q]
    BY <1>6, <1>8
<1>10. Cases!Acknowledge(k) \/ Cases!Unacknowledge(k)
    BY <1>7, <1>9 DEF Cases!Acknowledge, Cases!Unacknowledge
<1> QED
    BY <1>3, <1>10 DEF Cases!Next

\* A reopened row opens a case, and there was none.
LEMMA ReopenTakesUp ==
    ASSUME TypeOK, OneLivePerKey, Reopens
    PROVE  Cases!Next
<1>1. PICK i \in Ids : /\ Resolved(i)
                       /\ KeyIsFree(alerts[i].key)
                       /\ alerts' = [alerts EXCEPT ![i] = AsReopened(alerts[i])]
    BY DEF Reopens
<1>2. alerts[i] \in Row /\ ~Live(i)
    BY <1>1, ExistsIsRow DEF Resolved, Exists, Live, States
<1> DEFINE r == AsReopened(alerts[i])
           k == alerts[i].key
           s == alerts[i].sev
<1>3. r.key = k /\ r.state = "open" /\ r.sev = s /\ k \in Keys /\ s \in Severities
    BY <1>2 DEF AsReopened, Row
<1>4. LiveOf(k) = {}
    BY <1>1 DEF KeyIsFree
<1>5. alerts' = [alerts EXCEPT ![i] = r]
    BY <1>1
<1> HIDE DEF r
<1>6. case' = [case EXCEPT ![k] = CaseOfRow(r)]
    BY <1>2, <1>3, <1>4, <1>5, CaseOfWrittenRow
<1>7. CaseOfRow(r) = Cases!Open(s)
    BY <1>3 DEF CaseOfRow, Cases!Open
<1>8. case[k] = Cases!NoCase
    BY <1>3, <1>4, CaseNow
<1>9. Cases!TakeUp(k, s)
    BY <1>6, <1>7, <1>8 DEF Cases!TakeUp
<1> QED
    BY <1>3, <1>9 DEF Cases!Next

\* A statement that resolves rows closes the cases whose live row is among them.
LEMMA ResolveCloses ==
    ASSUME TypeOK, OneLivePerKey, Closes
    PROVE  Cases!Next
<1>1. PICK S : (\A i \in S \cap Ids : Exists(i)) /\ ResolveRows(S)
    BY DEF Closes
<1> DEFINE K == {k \in Keys : LiveOf(k) \cap S # {}}
<1>2. ASSUME NEW i \in Ids
      PROVE  /\ i \in S => alerts'[i].state = "resolved"
             /\ i \notin S => alerts'[i] = alerts[i]
    BY <1>1, ExistsIsRow, AsResolvedRow DEF ResolveRows
<1>3. ASSUME NEW k \in K
      PROVE  CaseIn(alerts', k) = Cases!NoCase
    <2>1. PICK i \in LiveOf(k) : i \in S
        OBVIOUS
    <2>2. \A j \in LiveOf(k) : j = i
        BY DEF OneLivePerKey, LiveOf
    <2>3. LiveIn(alerts', k) = {}
        BY <1>2, <2>1, <2>2 DEF LiveIn, LiveOf, LiveIds, Live
    <2> QED
        BY <2>3, CaseOfNone
<1>4. ASSUME NEW k \in Keys \ K
      PROVE  CaseIn(alerts', k) = CaseIn(alerts, k)
    <2>1. LiveOf(k) \cap S = {}
        OBVIOUS
    <2>2. LiveIn(alerts', k) = LiveIn(alerts, k)
        BY <1>2, <2>1 DEF LiveIn, LiveOf, LiveIds, Live
    <2>3. \A i \in LiveIn(alerts, k) : alerts'[i].state = alerts[i].state /\ alerts'[i].sev = alerts[i].sev
        BY <1>2, <2>1 DEF LiveIn, LiveOf, LiveIds, Live
    <2> QED
        BY <2>2, <2>3, CaseStays
<1> HIDE DEF K
<1>5. case' = [k \in Keys |-> IF k \in K THEN Cases!NoCase ELSE case[k]]
    BY <1>3, <1>4, CaseIsRead, CaseIsReadNext
<1>6. K \in SUBSET Keys /\ Cases!Close(K)
    BY <1>5 DEF Cases!Close, K
<1> QED
    BY <1>6 DEF Cases!Next

\* An empty table has no case.
LEMMA CasesInit == Init => Cases!Init
<1> SUFFICES ASSUME Init
             PROVE  Cases!Init
    OBVIOUS
<1>1. \A k \in Keys : LiveIn(alerts, k) = {}
    BY DEF Init, LiveIn, NoRow
<1> QED
    BY <1>1, CaseOfNone, CaseIsRead DEF Cases!Init

\* Every step on the table is a step of the cases or leaves them alone.
LEMMA CasesNext == TypeOK /\ OneLivePerKey /\ IdsSpent /\ [Next]_vars => [Cases!Next]_case
BY CaseSteps, LeavesLiveStutters, InsertRaises, BumpRaises, RelabelAcknowledges,
   ReopenTakesUp, ResolveCloses

\* The table keeps the promise of AlertCases: for every set of findings, patterns,
\* goroutines and every bound, each statement of the passes, requests and jobs is
\* a step of one case, a bulk close, or no step of a case at all.
THEOREM TableImplementsCases == Spec => ImplementsCases
<1>1. Init => IdsSpent
    BY SelectedInit
<1>2. TypeOK /\ IdsSpent /\ [Next]_vars => IdsSpent'
    BY IdsSpentNext
<1> QED
    BY <1>1, <1>2, CasesInit, CasesNext, TypeCorrect, OneLive, PTL DEF Spec, ImplementsCases, Cases!Spec
=============================================================================
