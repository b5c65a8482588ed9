------------------------ MODULE AlertDeliveryProofs ------------------------
(***************************************************************************)
(* Proof that the dispatcher marks only alerts it has delivered, for every *)
(* number of channels, findings, passes and clients, every digest and      *)
(* every quiet range.                                                      *)
(***************************************************************************)
EXTENDS AlertDelivery, AlertsProofs

Flushes == [stage : {"none", "start", "send"}, batch : SUBSET Ids,
            left : SUBSET Channels, ok : BOOLEAN]

\* The part of the type invariant that is the dispatcher's own.
DispatcherTypeOK ==
    /\ pending \subseteq Ids
    /\ {minSeverity, savedSeverity} \subseteq Severities
    /\ flush \in [Flushers -> Flushes]
    /\ hour \in 0..(HoursPerDay - 1)
    /\ untilTick \in 0..Interval
    /\ delivered \subseteq Ids

\* What a flush has had accepted, it has had accepted as a whole.
AcceptedIsDelivered == \A f \in Flushers : flush[f].ok => flush[f].batch \subseteq delivered

DeliveryInv == DeliveryTypeOK /\ AcceptedIsDelivered /\ NotifiedWereDelivered

\* The ticker's interval is a number of hours, at least one.
LEMMA IntervalPositive == Interval \in Nat /\ Interval >= 1
BY DeliveryAssumption DEF Interval

\* A goroutine that is not flushing is in a state of its type.
LEMMA NoFlushTyped ==
    /\ NoFlush \in Flushes /\ NoFlush.ok = FALSE /\ NoFlush.batch = {}
    /\ [NoFlush EXCEPT !.stage = "start"] \in Flushes
    /\ [NoFlush EXCEPT !.stage = "start"].ok = FALSE
BY DEF NoFlush, Flushes

\* The whole type invariant is that of the table and that of the dispatcher.
LEMMA DeliveryTypes == DeliveryTypeOK <=> TypeOK /\ DispatcherTypeOK
BY DEF DeliveryTypeOK, DispatcherTypeOK, Flushes

\* The invariant after a step, from its parts.
LEMMA InvAfter ==
    ASSUME TypeOK', DispatcherTypeOK', AcceptedIsDelivered', NotifiedWereDelivered'
    PROVE  DeliveryInv'
BY DEF DeliveryInv, DeliveryTypeOK, DispatcherTypeOK, Flushes

\* No step of the table's own writes notified_at: a row that has it had it.
LEMMA NotifiedBefore ==
    ASSUME TypeOK, [Next]_vars
    PROVE  \A i \in Ids : Exists(i)' /\ alerts'[i].notified # Never
                            => Exists(i) /\ alerts[i].notified # Never
<1>1. CASE Quiet
    BY <1>1 DEF Quiet, Keeps
<1>2. CASE Inserts
    <2>1. PICK k \in Keys, s \in Severities : InsertAlert(k, s)
        BY <1>2 DEF Inserts
    <2>2. alerts' = [alerts EXCEPT ![nextId] = NewRow(k, s)] /\ nextId \in Ids
        BY <2>1 DEF InsertAlert
    <2>3. alerts'[nextId].notified = Never
        BY <2>2, NewRowIsRow DEF TypeOK
    <2>4. \A i \in Ids : i # nextId => alerts'[i] = alerts[i]
        BY <2>2 DEF TypeOK
    <2> QED
        BY <2>3, <2>4 DEF Exists
<1>3. CASE Reopens
    <2>1. PICK j \in Ids : Resolved(j) /\ alerts' = [alerts EXCEPT ![j] = AsReopened(@)]
        BY <1>3 DEF Reopens
    <2>2. alerts[j] \in Row /\ Exists(j)
        BY <2>1, ExistsIsRow DEF Resolved, Exists, States
    <2>3. alerts'[j] = AsReopened(alerts[j]) /\ \A i \in Ids : i # j => alerts'[i] = alerts[i]
        BY <2>1 DEF TypeOK
    <2>4. alerts'[j].notified = alerts[j].notified
        BY <2>2, <2>3, AsReopenedRow
    <2> QED
        BY <2>2, <2>3, <2>4 DEF Exists
<1> QED
    BY <1>1, <1>2, <1>3, StepKinds

\* A step of the table's own that delivers nothing keeps the marks honest.
LEMMA TableStep ==
    ASSUME DeliveryInv, [Next]_vars, delivered \subseteq delivered'
    PROVE  TypeOK' /\ NotifiedWereDelivered'
<1>1. TypeOK
    BY DeliveryTypes DEF DeliveryInv
<1>2. TypeOK'
    BY <1>1, TypeNext
<1>3. NotifiedWereDelivered'
    BY <1>1, NotifiedBefore DEF DeliveryInv, NotifiedWereDelivered
<1> QED
    BY <1>2, <1>3

\* A step that leaves the table, and what was delivered, alone.
LEMMA SameTable ==
    ASSUME DeliveryInv, UNCHANGED vars, delivered \subseteq delivered'
    PROVE  TypeOK' /\ NotifiedWereDelivered'
BY TableStep

\* The flushes other than f, and the delivered alerts, stay.
LEMMA FlushReplaced ==
    ASSUME DispatcherTypeOK, AcceptedIsDelivered, NEW f \in Flushers, NEW v \in Flushes,
           v.ok => v.batch \subseteq delivered',
           flush' = [flush EXCEPT ![f] = v], delivered \subseteq delivered'
    PROVE  flush' \in [Flushers -> Flushes] /\ AcceptedIsDelivered'
<1>1. flush' \in [Flushers -> Flushes]
    BY DEF DispatcherTypeOK
<1>2. ASSUME NEW g \in Flushers, flush'[g].ok
      PROVE  flush'[g].batch \subseteq delivered'
    <2>1. CASE g = f
        BY <1>2, <2>1 DEF DispatcherTypeOK
    <2>2. CASE g # f
        BY <1>2, <2>2 DEF DispatcherTypeOK, AcceptedIsDelivered
    <2> QED
        BY <2>1, <2>2
<1> QED
    BY <1>1, <1>2 DEF AcceptedIsDelivered

\* What Notify keeps are ids; the pass's goroutine may go on to flush.
LEMMA NotifyKeeps ==
    ASSUME DeliveryInv, NEW e \in Evaluators, NEW raised, Notify(e, raised), UNCHANGED <<hour, delivered>>
    PROVE  DispatcherTypeOK' /\ AcceptedIsDelivered'
<1>0. DispatcherTypeOK /\ AcceptedIsDelivered /\ e \in Flushers
    BY DeliveryTypes DEF DeliveryInv, Flushers
<1>1. pending' \subseteq Ids
    BY <1>0 DEF Notify, DispatcherTypeOK
<1>2. flush' \in [Flushers -> Flushes] /\ AcceptedIsDelivered'
    <2>1. CASE flush' = flush
        BY <1>0, <2>1 DEF DispatcherTypeOK, AcceptedIsDelivered
    <2>2. CASE flush' = [flush EXCEPT ![e] = [NoFlush EXCEPT !.stage = "start"]]
        BY <1>0, <2>2, FlushReplaced, NoFlushTyped
    <2> QED
        BY <2>1, <2>2 DEF Notify
<1> QED
    BY <1>0, <1>1, <1>2 DEF Notify, DispatcherTypeOK

\* Flush takes over what is pending, or nothing.
LEMMA FlushKeeps ==
    ASSUME DeliveryInv, NEW f \in Flushers, Flush(f), delivered' = delivered
    PROVE  /\ pending' \subseteq Ids /\ flush' \in [Flushers -> Flushes]
           /\ AcceptedIsDelivered'
<1>0. DispatcherTypeOK /\ AcceptedIsDelivered
    BY DeliveryTypes DEF DeliveryInv
<1> DEFINE taken == [NoFlush EXCEPT !.stage = "send", !.batch = pending, !.left = Channels]
<1>1. taken \in Flushes /\ taken.ok = FALSE
    BY <1>0 DEF DispatcherTypeOK, NoFlush, Flushes
<1>2. CASE flush' = [flush EXCEPT ![f] = NoFlush] /\ pending' = pending
    BY <1>0, <1>2, FlushReplaced, NoFlushTyped DEF DispatcherTypeOK
<1>3. CASE flush' = [flush EXCEPT ![f] = taken] /\ pending' = {}
    <2> HIDE DEF taken
    <2> QED BY <1>0, <1>1, <1>3, FlushReplaced
<1> QED
    BY <1>2, <1>3 DEF Flush

\* A channel's answer: what it accepts is delivered, the whole batch of it.
LEMMA SendKeeps ==
    ASSUME DeliveryInv, NEW f \in Flushers, NEW c \in Channels, NEW accepted \in BOOLEAN,
           Send(f, c, accepted)
    PROVE  DeliveryInv'
<1>0. DispatcherTypeOK /\ AcceptedIsDelivered
    BY DeliveryTypes DEF DeliveryInv
<1>1. flush[f] \in Flushes
    BY <1>0 DEF DispatcherTypeOK
<1>2. /\ delivered \subseteq delivered' /\ delivered' \subseteq Ids
      /\ accepted => flush[f].batch \subseteq delivered'
    BY <1>0, <1>1 DEF Send, DispatcherTypeOK, Flushes
<1> DEFINE v == [flush[f] EXCEPT !.left = flush[f].left \ {c}, !.ok = flush[f].ok \/ accepted]
<1>3. flush' = [flush EXCEPT ![f] = v]
    BY <1>0 DEF Send, DispatcherTypeOK
<1>4. v \in Flushes /\ v.batch = flush[f].batch /\ v.ok = (flush[f].ok \/ accepted)
    BY <1>1 DEF Flushes
<1>5. v.ok => v.batch \subseteq delivered'
    BY <1>0, <1>2, <1>4 DEF AcceptedIsDelivered
<1>6. flush' \in [Flushers -> Flushes] /\ AcceptedIsDelivered'
    <2> HIDE DEF v
    <2> QED BY <1>0, <1>2, <1>3, <1>4, <1>5, FlushReplaced
<1>7. DispatcherTypeOK'
    BY <1>0, <1>2, <1>6 DEF Send, DispatcherTypeOK
<1>8. TypeOK' /\ NotifiedWereDelivered'
    BY <1>2, SameTable DEF Send
<1> QED
    BY <1>6, <1>7, <1>8, InvAfter

\* Only what was delivered is marked.
LEMMA EndFlushKeeps ==
    ASSUME DeliveryInv, NEW f \in Flushers, EndFlush(f)
    PROVE  DeliveryInv'
<1>0. TypeOK /\ DispatcherTypeOK /\ AcceptedIsDelivered /\ NotifiedWereDelivered
    BY DeliveryTypes DEF DeliveryInv
<1>1. flush' \in [Flushers -> Flushes] /\ AcceptedIsDelivered'
    BY <1>0, FlushReplaced, NoFlushTyped DEF EndFlush
<1>2. DispatcherTypeOK'
    BY <1>0, <1>1 DEF EndFlush, DispatcherTypeOK
<1>3. CASE UNCHANGED alerts
    <2>1. UNCHANGED vars /\ delivered' = delivered
        BY <1>3 DEF EndFlush, onlyAlerts, vars, dbVars
    <2>2. TypeOK' /\ NotifiedWereDelivered'
        BY <2>1, SameTable
    <2> QED
        BY <1>1, <1>2, <2>2, InvAfter
<1>4. CASE flush[f].ok /\ MarkNotified(flush[f].batch)
    <2> DEFINE B == flush[f].batch
    <2>1. B \subseteq delivered /\ delivered' = delivered
        BY <1>0, <1>4 DEF AcceptedIsDelivered, EndFlush
    <2>2. \A i \in Ids : Exists(i) => [alerts[i] EXCEPT !.notified = 0] \in Row
        BY <1>0, ExistsIsRow, AgeZero DEF Row
    <2>3. alerts' = [i \in Ids |-> IF i \in B /\ Exists(i) THEN [alerts[i] EXCEPT !.notified = 0]
                                                           ELSE alerts[i]]
        BY <1>4 DEF MarkNotified
    <2>4. \A i \in Ids : alerts[i] \in Row \cup {NoRow}
        BY <1>0 DEF TypeOK
    <2> HIDE DEF B
    <2>5. alerts' \in [Ids -> Row \cup {NoRow}]
        BY <2>2, <2>3, <2>4
    <2>6. TypeOK'
        BY <1>0, <2>5 DEF EndFlush, onlyAlerts, TypeOK
    <2>7. ASSUME NEW i \in Ids, Exists(i)', alerts'[i].notified # Never
          PROVE  i \in delivered'
        <3>1. CASE i \in B
            BY <2>1, <3>1
        <3>2. CASE i \notin B
            <4>1. alerts'[i] = alerts[i]
                BY <2>3, <3>2
            <4> QED
                BY <1>0, <2>1, <2>7, <4>1 DEF NotifiedWereDelivered, Exists
        <3> QED
            BY <3>1, <3>2
    <2>8. NotifiedWereDelivered'
        BY <2>7 DEF NotifiedWereDelivered
    <2> QED
        BY <1>1, <1>2, <2>6, <2>8, InvAfter
<1> QED
    BY <1>3, <1>4 DEF EndFlush

\* Every step of the table, the dispatcher and the clock keeps the invariant.
LEMMA DeliveryNext == DeliveryInv /\ [NextDelivery]_allVars => DeliveryInv'
<1> SUFFICES ASSUME DeliveryInv, [NextDelivery]_allVars PROVE DeliveryInv'
    OBVIOUS
<1>0. TypeOK /\ DispatcherTypeOK /\ AcceptedIsDelivered
    BY DeliveryTypes DEF DeliveryInv
<1>1. CASE AlertStep
    <2>1. Next /\ UNCHANGED <<dispatcher, hour, delivered>>
        BY <1>1 DEF AlertStep, Next
    <2>2. TypeOK' /\ NotifiedWereDelivered'
        BY <2>1, TableStep
    <2>3. DispatcherTypeOK' /\ AcceptedIsDelivered'
        BY <1>0, <2>1 DEF dispatcher, DispatcherTypeOK, AcceptedIsDelivered
    <2> QED
        BY <2>2, <2>3, InvAfter
<1>2. ASSUME NEW e \in Evaluators, EndPassAndNotify(e)
      PROVE  DeliveryInv'
    <2>1. Next /\ UNCHANGED <<hour, delivered>> /\ Notify(e, pass[e].raised)
        BY <1>2 DEF EndPassAndNotify, Next
    <2>2. TypeOK' /\ NotifiedWereDelivered'
        BY <2>1, TableStep
    <2>3. DispatcherTypeOK' /\ AcceptedIsDelivered'
        BY <2>1, NotifyKeeps
    <2> QED
        BY <2>2, <2>3, InvAfter
<1>3. ASSUME NEW f \in Flushers, Flush(f), UNCHANGED <<vars, minSeverity, savedSeverity, hour, delivered>>,
             untilTick' \in 0..Interval
      PROVE  DeliveryInv'
    <2>1. TypeOK' /\ NotifiedWereDelivered'
        BY <1>3, SameTable
    <2>2. /\ pending' \subseteq Ids /\ flush' \in [Flushers -> Flushes]
          /\ AcceptedIsDelivered'
        BY <1>3, FlushKeeps
    <2>3. DispatcherTypeOK'
        BY <1>0, <1>3, <2>2 DEF DispatcherTypeOK
    <2> QED
        BY <2>1, <2>2, <2>3, InvAfter
<1>4. ASSUME NEW f \in Flushers, FlushStep(f)
      PROVE  DeliveryInv'
    <2>1. CASE FlushNow(f)
        BY <1>0, <1>3, <2>1 DEF FlushNow, DispatcherTypeOK
    <2>2. ASSUME NEW c \in Channels, NEW accepted \in BOOLEAN, Send(f, c, accepted)
          PROVE  DeliveryInv'
        BY <2>2, SendKeeps
    <2>3. CASE EndFlush(f)
        BY <2>3, EndFlushKeeps
    <2> QED
        BY <1>4, <2>1, <2>2, <2>3 DEF FlushStep
<1>5. CASE Tick
    <2>1. untilTick' \in 0..Interval /\ Drainer \in Flushers
        BY <1>5, IntervalPositive DEF Tick, Flushers
    <2> QED
        BY <1>3, <1>5, <2>1 DEF Tick
<1>6. ASSUME NEW s \in ChosenSeverities, SetMinSeverity(s)
      PROVE  DeliveryInv'
    <2>1. TypeOK' /\ NotifiedWereDelivered'
        BY <1>6, SameTable DEF SetMinSeverity
    <2>2. DispatcherTypeOK' /\ AcceptedIsDelivered'
        BY <1>0, <1>6, DeliveryAssumption DEF SetMinSeverity, DispatcherTypeOK, AcceptedIsDelivered
    <2> QED
        BY <2>1, <2>2, InvAfter
<1>7. CASE Hour
    <2>1. Next \/ UNCHANGED vars
        BY <1>7 DEF Hour, Next
    <2>2. TypeOK' /\ NotifiedWereDelivered'
        BY <1>7, <2>1, TableStep DEF Hour
    <2>3. hour' \in 0..(HoursPerDay - 1) /\ untilTick' \in 0..Interval
        BY <1>0, <1>7, DeliveryAssumption, IntervalPositive DEF Hour, DispatcherTypeOK
    <2>4. DispatcherTypeOK' /\ AcceptedIsDelivered'
        BY <1>0, <1>7, <2>3 DEF Hour, DispatcherTypeOK, AcceptedIsDelivered
    <2> QED
        BY <2>2, <2>4, InvAfter
<1>8. CASE RestartServer
    <2>1. Next /\ delivered' = delivered
        BY <1>8 DEF RestartServer, Next
    <2>2. TypeOK' /\ NotifiedWereDelivered'
        BY <2>1, TableStep
    <2>3. DispatcherTypeOK' /\ AcceptedIsDelivered'
        BY <1>0, <1>8, NoFlushTyped, IntervalPositive, DeliveryAssumption
        DEF RestartServer, DispatcherTypeOK, AcceptedIsDelivered
    <2> QED
        BY <2>2, <2>3, InvAfter
<1>9. CASE UNCHANGED allVars
    <2>1. TypeOK' /\ NotifiedWereDelivered'
        BY <1>9, SameTable DEF allVars
    <2>2. DispatcherTypeOK' /\ AcceptedIsDelivered'
        BY <1>0, <1>9 DEF allVars, dispatcher, DispatcherTypeOK, AcceptedIsDelivered
    <2> QED
        BY <2>1, <2>2, InvAfter
<1> QED
    BY <1>1, <1>2, <1>4, <1>5, <1>6, <1>7, <1>8, <1>9 DEF NextDelivery

\* A new server has nothing queued and nothing marked.
LEMMA DeliveryInit == InitDelivery => DeliveryInv
<1> SUFFICES ASSUME InitDelivery PROVE DeliveryInv
    OBVIOUS
<1>1. TypeOK
    BY TypeInit DEF InitDelivery
<1>2. DispatcherTypeOK /\ AcceptedIsDelivered
    BY NoFlushTyped, IntervalPositive, DeliveryAssumption
    DEF InitDelivery, DispatcherTypeOK, AcceptedIsDelivered
<1>3. NotifiedWereDelivered
    BY DEF InitDelivery, Init, NotifiedWereDelivered, Exists, NoRow, States
<1> QED
    BY <1>1, <1>2, <1>3, DeliveryTypes DEF DeliveryInv

\* The queue, the flushes, the ticker and the minimum severities stay in their
\* types whatever the dispatcher, the passes and the requests do.
THEOREM DeliveryTypeCorrect == SpecDelivery => []DeliveryTypeOK
<1>1. DeliveryInv => DeliveryTypeOK
    BY DEF DeliveryInv
<1> QED
    BY <1>1, DeliveryInit, DeliveryNext, PTL DEF SpecDelivery

\* However flushes of passes and of the ticker overlap, channels fail and the
\* server restarts, notified_at is set only on alerts some channel has accepted
\* (Flush, MarkNotified).
THEOREM OnlyDeliveredAreMarked == SpecDelivery => []NotifiedWereDelivered
<1>1. DeliveryInv => NotifiedWereDelivered
    BY DEF DeliveryInv
<1> QED
    BY <1>1, DeliveryInit, DeliveryNext, PTL DEF SpecDelivery
=============================================================================
