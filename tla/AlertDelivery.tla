--------------------------- MODULE AlertDelivery ---------------------------
(***************************************************************************)
(* The alerts table together with the notification dispatcher.  A rule     *)
(* pass that ends hands its alerts to Notify, which runs in the goroutine  *)
(* of the pass; the dispatcher's own goroutine flushes at every tick of    *)
(* its ticker.  Flushes run concurrently and send outside the lock.  What  *)
(* is pending is only in memory.                                           *)
(***************************************************************************)
EXTENDS Alerts

CONSTANTS
    Channels,       \* configured channels
    Digest,         \* NOTIFY_DIGEST in hours, 0 = immediate
    QuietFrom,      \* NOTIFY_QUIET_HOURS "from-to"; from = to: none
    QuietTo,
    HoursPerDay,    \* bound: a day has this many hours
    ConfigSeverity, \* NOTIFY_MIN_SEVERITY
    ChosenSeverities,   \* minimum severities an administrator may choose
    Drainer         \* the goroutine of Dispatcher.Run

Flushers == Evaluators \cup {Drainer}

ASSUME DeliveryAssumption ==
    /\ Channels # {}
    /\ Digest \in Nat
    /\ HoursPerDay \in Nat \ {0}
    /\ QuietFrom \in 0..HoursPerDay /\ QuietTo \in 0..HoursPerDay
    /\ ChosenSeverities \cup {ConfigSeverity} \subseteq Severities
    /\ Drainer \notin Evaluators

VARIABLES
    pending,    \* ids of the alerts waiting to be sent
    minSeverity,    \* the minimum severity in force
    savedSeverity,  \* settings["notify"], ConfigSeverity when there is none
    flush,      \* flush[f]: what goroutine f does in Flush
    hour,       \* local hour of the day
    untilTick,  \* hours until the dispatcher's ticker fires, 0 = it has fired
    delivered   \* history: ids some channel has accepted a message about

dispatcher == <<pending, minSeverity, savedSeverity, flush, untilTick>>
allVars    == <<vars, dispatcher, hour, delivered>>

-----------------------------------------------------------------------------
\* The quiet range may wrap round midnight.
InQuietHours(h) ==
    IF QuietFrom <= QuietTo THEN h >= QuietFrom /\ h < QuietTo
                            ELSE h >= QuietFrom \/ h < QuietTo

\* Without a digest the ticker fires every minute, here every hour.
Interval == IF Digest = 0 THEN 1 ELSE Digest

NoFlush == [stage |-> "none", batch |-> {}, left |-> {}, ok |-> FALSE]

\* Notify: what passes the severity filter is queued, and flushed at once when
\* there is neither a digest nor quiet hours.  raised may be empty.
Notify(e, raised) ==
    LET keep == {i \in Ids : \E s \in Severities :
                    <<i, s>> \in raised /\ SeverityRank(s) >= SeverityRank(minSeverity)}
    IN  /\ pending' = pending \cup keep
        /\ flush' = IF keep # {} /\ Digest = 0 /\ ~InQuietHours(hour)
                    THEN [flush EXCEPT ![e] = [NoFlush EXCEPT !.stage = "start"]]
                    ELSE flush
        /\ UNCHANGED <<minSeverity, savedSeverity, untilTick>>

EndPassAndNotify(e) ==
    /\ EndPass(e)
    /\ Notify(e, pass[e].raised)
    /\ UNCHANGED <<hour, delivered>>

FlushDiscarding(f) ==           \* mutant: the queue is emptied before the checks
    /\ flush' = [flush EXCEPT ![f] =
                    IF pending = {} \/ InQuietHours(hour) THEN NoFlush
                    ELSE [NoFlush EXCEPT !.stage = "send", !.batch = pending, !.left = Channels]]
    /\ pending' = {}

\* Flush: under the lock everything pending becomes this flush's batch, unless
\* there is nothing or the hours are quiet.
Flush(f) ==
    IF pending = {} \/ InQuietHours(hour)
    THEN /\ flush' = [flush EXCEPT ![f] = NoFlush]
         /\ UNCHANGED pending
    ELSE /\ flush' = [flush EXCEPT ![f] = [NoFlush EXCEPT
                         !.stage = "send", !.batch = pending, !.left = Channels]]
         /\ pending' = {}

FlushNow(e) ==
    /\ flush[e].stage = "start"
    /\ Flush(e)
    /\ UNCHANGED <<vars, minSeverity, savedSeverity, untilTick, hour, delivered>>

\* One channel after another is tried; a failure is counted and passed over.
Send(f, c, accepted) ==
    /\ flush[f].stage = "send"
    /\ c \in flush[f].left
    /\ flush' = [flush EXCEPT ![f].left = @ \ {c}, ![f].ok = @ \/ accepted]
    /\ delivered' = IF accepted THEN delivered \cup flush[f].batch ELSE delivered
    /\ UNCHANGED <<vars, pending, minSeverity, savedSeverity, untilTick, hour>>

\* If any channel accepted the message its alerts are marked; that statement
\* may fail.  If none did, the batch is gone.
MarkNotified(S) ==
    alerts' = [i \in Ids |-> IF i \in S /\ Exists(i)
                             THEN [alerts[i] EXCEPT !.notified = 0] ELSE alerts[i]]

EndFlushMarkingAll(f) ==        \* mutant: marked whether or not a channel accepted
    /\ flush[f].stage = "send"
    /\ flush[f].left = {}
    /\ MarkNotified(flush[f].batch)
    /\ flush' = [flush EXCEPT ![f] = NoFlush]
    /\ onlyAlerts
    /\ UNCHANGED <<client, pending, minSeverity, savedSeverity, untilTick, hour, delivered>>

EndFlush(f) ==
    /\ flush[f].stage = "send"
    /\ flush[f].left = {}
    /\ IF flush[f].ok THEN MarkNotified(flush[f].batch) \/ UNCHANGED alerts
                      ELSE UNCHANGED alerts
    /\ flush' = [flush EXCEPT ![f] = NoFlush]
    /\ onlyAlerts
    /\ UNCHANGED <<client, pending, minSeverity, savedSeverity, untilTick, hour, delivered>>

\* The dispatcher's goroutine flushes at every tick, once it is back in its loop.
Tick ==
    /\ untilTick = 0
    /\ flush[Drainer] = NoFlush
    /\ Flush(Drainer)
    /\ untilTick' = Interval
    /\ UNCHANGED <<vars, minSeverity, savedSeverity, hour, delivered>>

\* The new minimum holds at once; saving it may fail.
SetMinSeverity(s) ==
    /\ minSeverity' = s
    /\ savedSeverity' \in {s, savedSeverity}
    /\ UNCHANGED <<vars, pending, flush, untilTick, hour, delivered>>

\* An hour goes by, once the tick due in it is taken.
Hour ==
    /\ untilTick > 0
    /\ hour' = (hour + 1) % HoursPerDay
    /\ untilTick' = untilTick - 1
    /\ IF hour' = 0 THEN Elapse ELSE UNCHANGED vars
    /\ UNCHANGED <<pending, minSeverity, savedSeverity, flush, delivered>>

\* A restart loads the saved minimum severity, or goes by the configured one
\* when it cannot be read, and starts the ticker afresh.
RestartServer ==
    /\ Restart
    /\ pending' = {}
    /\ flush' = [f \in Flushers |-> NoFlush]
    /\ untilTick' = Interval
    /\ minSeverity' \in {savedSeverity, ConfigSeverity}
    /\ UNCHANGED <<savedSeverity, hour, delivered>>

-----------------------------------------------------------------------------
InitDelivery ==
    /\ Init
    /\ pending = {}
    /\ minSeverity = ConfigSeverity
    /\ savedSeverity = ConfigSeverity
    /\ flush = [f \in Flushers |-> NoFlush]
    /\ hour \in 0..(HoursPerDay - 1)
    /\ untilTick = Interval
    /\ delivered = {}

\* A goroutine starts its next pass when Notify has returned.
AlertStep ==
    /\ Step
    /\ \A e \in Evaluators : pass[e] = NoPass /\ pass'[e] # NoPass => flush[e] = NoFlush
    /\ UNCHANGED <<dispatcher, hour, delivered>>

FlushStep(f) ==
    \/ f \in Evaluators /\ FlushNow(f)
    \/ \E c \in Channels, accepted \in BOOLEAN : Send(f, c, accepted)
    \/ EndFlush(f)

NextDelivery ==
    \/ AlertStep
    \/ \E e \in Evaluators : EndPassAndNotify(e)
    \/ \E f \in Flushers : FlushStep(f)
    \/ Tick
    \/ \E s \in ChosenSeverities : SetMinSeverity(s)
    \/ Hour
    \/ RestartServer

SpecDelivery == InitDelivery /\ [][NextDelivery]_allVars
-----------------------------------------------------------------------------
(* Properties *)

\* The queue, the minimum severity, the flushes and the ticker stay in their
\* types: the minimum in force and the one saved are severities that rank.
DeliveryTypeOK ==
    /\ TypeOK
    /\ pending \subseteq Ids
    /\ {minSeverity, savedSeverity} \subseteq Severities
    /\ flush \in [Flushers -> [stage : {"none", "start", "send"}, batch : SUBSET Ids,
                               left : SUBSET Channels, ok : BOOLEAN]]
    /\ hour \in 0..(HoursPerDay - 1)
    /\ untilTick \in 0..Interval
    /\ delivered \subseteq Ids

\* notified_at is written only for alerts some channel has accepted.  It is what
\* keeps RunRule from queueing an alert again: were it set for a batch that was
\* lost, nothing would ever bring that alert back.
NotifiedWereDelivered ==
    \A i \in Ids : Exists(i) /\ alerts[i].notified # Never => i \in delivered

\* A restart loses what is queued, a batch no channel accepts is dropped.
LosesAlerts == RestartServer /\ (pending # {} \/ \E f \in Flushers : flush[f].left # {})
Rejected(f) == flush[f].stage = "send" /\ flush[f].left = {} /\ ~flush[f].ok

\* "New alerts are never lost during quiet hours -- they're recorded and
\* delivered when the window ends" (README.md): once restarts and failures of
\* all the channels are over, an alert that waits in the queue, or keeps coming
\* back to it, is delivered.
QueuedAlertsAreDelivered ==
    <>[][~LosesAlerts]_allVars /\ <>[](\A f \in Flushers : ~Rejected(f))
        => \A i \in Ids : []<>(i \in pending) => <>(i \in delivered)

\* Goroutines run on, the ticker ticks, time passes.
FairDelivery ==
    /\ SpecDelivery
    /\ \A f \in Flushers : WF_allVars(FlushStep(f))
    /\ \A e \in Evaluators : WF_allVars(EndPassAndNotify(e))
    /\ WF_allVars(Tick)
    /\ WF_allVars(Hour)
=============================================================================
