------------------------------ MODULE Rollups ------------------------------
(***************************************************************************)
(* The maintenance job of the scheduler (RunRollupsOnce): hourly rollups   *)
(* recomputed from the raw table, daily peer rollups added incrementally   *)
(* behind a cursor, and the pruning at the end of the job                  *)
(* (backend/internal/scheduler/scheduler.go, db/rollups.go).               *)
(*                                                                         *)
(* Time is counted in ticks.  pmacct writes one flow per tick, stamped     *)
(* with it and visible up to Lag ticks later; the retention job of the     *)
(* deployment deletes it when it is older than Keep.  Every database call  *)
(* of the job is an action and may fail; the server may restart between    *)
(* any two.                                                                *)
(***************************************************************************)
EXTENDS Integers, FiniteSets

CONSTANTS
    HourLen,    \* ticks of an hour
    DayLen,     \* ticks of a backfill chunk, and between two prunings
    LookBack,   \* what each run recomputes: 2 hours
    Chunk,      \* what one RollupPeerDays adds at most: 6 hours
    Reach,      \* where a job without flag or cursor starts: 8 days back
    Lag,        \* how late pmacct's update of a flow may come: 3 minutes
    Keep,       \* for how long the deployment keeps raw flows: 7 days, or 30
    MaxNow,     \* bound: ticks of the run
    MaxMishaps  \* bound: failing database calls and restarts

ASSUME RollupsAssumption ==
    /\ HourLen \in Nat \ {0} /\ DayLen \in Nat \ {0} /\ DayLen % HourLen = 0 /\ Chunk \in Nat \ {0}
    /\ LookBack \in Nat /\ Reach \in Nat /\ LookBack <= Reach
    /\ Lag \in Nat /\ Keep \in Nat /\ MaxNow \in Nat /\ MaxMishaps \in Nat

VARIABLES
    now,        \* the clock
    acct,       \* stamps of the flows in pmacct's table
    gone,       \* stamps of the flows the retention has deleted from it
    hourly,     \* host_hourly: the flows each hour's row counts
    daily,      \* host_peer_daily: how often each flow was added
    backfilled, \* settings["rollup_hours_backfilled"]
    cursor,     \* settings["rollup_peer_cursor"], Never when absent
    lastPrune,  \* settings["last_prune"], Never when absent
    job,        \* the running job: where it is, its now, its cursor
    mishaps,    \* failures so far
    origin,     \* history: where the daily rollups begin
    slips,      \* history: cursors not read, not saved, or lost in a restart
    closed,     \* history: hours recomputed after their last flow had arrived
    faded,      \* history: hours recomputed when the retention had reached them
    lastHours,  \* history: time of the last completed recomputation or backfill
    regular     \* history: no long pause between these so far

tables   == <<hourly, daily>>
settings == <<backfilled, cursor, lastPrune>>
history  == <<origin, slips, closed, faded, lastHours, regular>>
flows    == <<acct, gone>>
rollupVars == <<now, flows, tables, settings, job, mishaps, history>>

Never == -1
Slots == 0..MaxNow
HourOf(s) == s \div HourLen
Hours == 0..HourOf(MaxNow)
FlowsOf(h) == {s \in Slots : HourOf(s) = h}
Least(a, b) == IF a <= b THEN a ELSE b
Most(a, b) == IF a >= b THEN a ELSE b

Resting == [pc |-> "rest", at |-> 0, cur |-> 0]
Stages == {"rest", "backfill", "flag", "hours", "readcursor", "peers", "save", "prune", "stamp"}

RollupsInit ==
    /\ now = 0 /\ acct = {} /\ gone = {}
    /\ hourly = [h \in Hours |-> {}]
    /\ daily = [s \in Slots |-> 0]
    /\ backfilled = FALSE /\ cursor = Never /\ lastPrune = Never
    /\ job = Resting
    /\ mishaps = 0
    /\ origin = Never /\ slips = 0 /\ closed = {} /\ faded = {} /\ lastHours = Never /\ regular = TRUE

Mishap == mishaps < MaxMishaps /\ mishaps' = mishaps + 1
Goto(pc) == job' = [job EXCEPT !.pc = pc]
EndJob == job' = Resting
---------------------------------------------------------------------------
(* pmacct, the retention job beside it, and the clock *)

Arrive(s) ==
    /\ s \in Most(0, now - Lag)..now
    /\ s \notin acct \cup gone
    /\ acct' = acct \cup {s}
    /\ UNCHANGED <<now, gone, tables, settings, job, mishaps, history>>

Tick ==
    /\ now < MaxNow
    /\ now - Lag \in Slots => now - Lag \in acct \cup gone
    /\ now' = now + 1
    /\ UNCHANGED <<flows, tables, settings, job, mishaps, history>>

Retention ==
    LET old == {s \in acct : s < now - Keep}
    IN  /\ old # {}
        /\ acct' = acct \ old /\ gone' = gone \cup old
        /\ UNCHANGED <<now, tables, settings, job, mishaps, history>>
---------------------------------------------------------------------------
(* RollupHours: the row of every hour that intersects [from, to), from     *)
(* being cut down to the hour, is replaced by what the table holds of it,  *)
(* and stays where that is nothing.                                        *)
WindowStartOfDay(from) == Most(0, from - (from % DayLen))    \* mutant: cut down to the day

WindowStart(from) == Most(0, from - (from % HourLen))
HoursIn(from, to) == {h \in Hours : \E s \in FlowsOf(h) : s >= WindowStart(from) /\ s < to}

RecomputedUncut(from, to) ==    \* mutant: the window starts within an hour
    LET seen(h) == {s \in FlowsOf(h) \cap acct : s >= from /\ s < to}
    IN  [h \in Hours |-> IF seen(h) # {} THEN seen(h) ELSE hourly[h]]

Recomputed(from, to) ==
    LET seen(h) == {s \in FlowsOf(h) \cap acct : s >= WindowStart(from) /\ s < to}
    IN  [h \in Hours |-> IF seen(h) # {} THEN seen(h) ELSE hourly[h]]

(* The retention may have taken a part of the hour. *)
Fading(h) == \E s \in FlowsOf(h) : s < now - Keep

RollupHours(from, to) ==
    /\ hourly' = Recomputed(from, to)
    /\ closed' = closed \cup {h \in HoursIn(from, to) : FlowsOf(h) \subseteq acct /\ \A s \in FlowsOf(h) : s < Least(to, job.at)}
    /\ faded' = faded \cup {h \in HoursIn(from, to) : Fading(h)}

(* RollupPeerDays: the traffic of [from, to) is added to what is there.    *)
RollupPeerDaysClosed(from, to) ==       \* mutant: both ends of the window included
    daily' = [s \in Slots |-> IF s \in acct /\ s >= from /\ s <= to THEN daily[s] + 1 ELSE daily[s]]

RollupPeerDays(from, to) ==
    daily' = [s \in Slots |-> IF s \in acct /\ s >= from /\ s < to THEN daily[s] + 1 ELSE daily[s]]
---------------------------------------------------------------------------
(* The job.  A setting that cannot be read counts as absent.               *)

StartJob ==
    /\ job.pc = "rest"
    /\ LET start == now - Reach
       IN  \/ /\ job' = [pc |-> IF backfilled THEN "hours" ELSE "backfill", at |-> now, cur |-> start - (start % DayLen)]
              /\ UNCHANGED mishaps
           \/ /\ backfilled /\ Mishap
              /\ job' = [pc |-> "backfill", at |-> now, cur |-> start - (start % DayLen)]
    /\ UNCHANGED <<now, flows, tables, settings, history>>

(* A pause after which the two hours still reach back to every hour that   *)
(* was open at the last recomputation.                                     *)
ShortPause == job.at - lastHours <= LookBack - Lag

HoursDone ==
    /\ lastHours' = job.at
    /\ regular' = (regular /\ (lastHours = Never \/ ShortPause))

Backfill ==
    /\ job.pc = "backfill"
    /\ \/ /\ job.cur < job.at
          /\ RollupHours(job.cur, job.cur + DayLen)
          /\ job' = [job EXCEPT !.cur = @ + DayLen]
          /\ UNCHANGED <<mishaps, lastHours, regular>>
       \/ /\ job.cur < job.at
          /\ Mishap /\ EndJob
          /\ UNCHANGED <<hourly, closed, faded, lastHours, regular>>
       \/ /\ job.cur >= job.at
          /\ HoursDone
          /\ Goto("flag")
          /\ UNCHANGED <<hourly, closed, faded, mishaps>>
    /\ UNCHANGED <<now, flows, daily, settings, origin, slips>>

SaveFlag ==
    /\ job.pc = "flag"
    /\ \/ backfilled' = TRUE /\ UNCHANGED mishaps
       \/ Mishap /\ UNCHANGED backfilled
    /\ Goto("hours")
    /\ UNCHANGED <<now, flows, tables, cursor, lastPrune, history>>

RecomputeLastHour ==            \* mutant: one hour instead of two
    /\ job.pc = "hours"
    /\ RollupHours(job.at - HourLen, job.at)
    /\ HoursDone
    /\ Goto("readcursor")
    /\ UNCHANGED <<now, flows, daily, settings, mishaps, origin, slips>>

Recompute ==
    /\ job.pc = "hours"
    /\ \/ /\ RollupHours(job.at - LookBack, job.at)
          /\ HoursDone
          /\ Goto("readcursor")
          /\ UNCHANGED mishaps
       \/ /\ Mishap /\ EndJob
          /\ UNCHANGED <<hourly, closed, faded, lastHours, regular>>
    /\ UNCHANGED <<now, flows, daily, settings, origin, slips>>

ReadCursor ==
    /\ job.pc = "readcursor"
    /\ \/ /\ cursor # Never
          /\ job' = [job EXCEPT !.pc = "peers", !.cur = cursor]
          /\ UNCHANGED <<origin, slips, mishaps>>
       \/ /\ job' = [job EXCEPT !.pc = "peers", !.cur = Most(0, job.at - Reach)]
          /\ IF cursor = Never
             THEN /\ origin' = Most(0, job.at - Reach)
                  /\ UNCHANGED <<slips, mishaps>>
             ELSE Mishap /\ slips' = slips + 1 /\ UNCHANGED origin
    /\ UNCHANGED <<now, flows, tables, settings, closed, faded, lastHours, regular>>

PeersEnd == job.at - Lag

AddPeers ==
    /\ job.pc = "peers"
    /\ \/ /\ job.cur < PeersEnd
          /\ LET next == Least(job.cur + Chunk, PeersEnd)
             IN  RollupPeerDays(job.cur, next) /\ job' = [job EXCEPT !.pc = "save", !.cur = next]
          /\ UNCHANGED mishaps
       \/ /\ job.cur < PeersEnd
          /\ Mishap /\ EndJob
          /\ UNCHANGED daily
       \/ /\ job.cur >= PeersEnd
          /\ Goto("prune")
          /\ UNCHANGED <<daily, mishaps>>
    /\ UNCHANGED <<now, flows, hourly, settings, history>>

SaveCursor ==
    /\ job.pc = "save"
    /\ \/ cursor' = job.cur /\ UNCHANGED <<slips, mishaps>>
       \/ Mishap /\ slips' = slips + 1 /\ UNCHANGED cursor
    /\ Goto("peers")
    /\ UNCHANGED <<now, flows, tables, backfilled, lastPrune, origin, closed, faded, lastHours, regular>>

Overdue == lastPrune = Never \/ now - lastPrune > DayLen

PruneRollupsOnce ==             \* mutant: only a server that has never pruned does
    /\ job.pc = "prune"
    /\ IF lastPrune = Never THEN Goto("stamp") ELSE EndJob
    /\ UNCHANGED <<now, flows, tables, settings, mishaps, history>>

PruneRollups ==
    /\ job.pc = "prune"
    /\ \/ /\ lastPrune # Never /\ job.at - lastPrune <= DayLen
          /\ EndJob
          /\ UNCHANGED mishaps
       \/ /\ lastPrune = Never \/ job.at - lastPrune > DayLen
          /\ Goto("stamp")
          /\ UNCHANGED mishaps
       \/ Mishap /\ (EndJob \/ Goto("stamp"))
    /\ UNCHANGED <<now, flows, tables, settings, history>>

StampPrune ==
    /\ job.pc = "stamp"
    /\ \/ lastPrune' = job.at /\ UNCHANGED mishaps
       \/ Mishap /\ UNCHANGED lastPrune
    /\ EndJob
    /\ UNCHANGED <<now, flows, tables, backfilled, cursor, history>>

RollupsRestart ==
    /\ job.pc # "rest"
    /\ Mishap /\ EndJob
    /\ slips' = IF job.pc = "save" THEN slips + 1 ELSE slips
    /\ UNCHANGED <<now, flows, tables, settings, origin, closed, faded, lastHours, regular>>
---------------------------------------------------------------------------
JobStep == \/ StartJob \/ Backfill \/ SaveFlag \/ Recompute \/ ReadCursor
           \/ AddPeers \/ SaveCursor \/ PruneRollups \/ StampPrune

RollupsNext == (\E s \in Slots : Arrive(s)) \/ Tick \/ Retention \/ JobStep \/ RollupsRestart

(* The lane's ticker starts the job again and again, and a started job     *)
(* goes on.                                                                *)
RollupsFairness == WF_rollupVars(JobStep)

RollupsSpec == RollupsInit /\ [][RollupsNext]_rollupVars /\ RollupsFairness
---------------------------------------------------------------------------
(* The traffic of the daily peer rollups is exact up to the cursor, and    *)
(* nothing beyond it is counted, however jobs fail and whenever flows      *)
(* arrive within the lag, as long as no cursor was misread or not saved:   *)
(* RollupPeerDays is called "with non-overlapping windows".  Each such     *)
(* slip adds a flow at most once more.  A flow that the retention deleted  *)
(* may have gone before its window was added.                              *)
Added == IF job.pc = "save" THEN job.cur ELSE cursor
CountedIn(s) == origin # Never /\ s >= origin /\ s < Added
DailyExact ==
    /\ slips = 0 => \A s \in Slots : /\ daily[s] = 1 => CountedIn(s)
                                     /\ CountedIn(s) /\ s \notin gone => daily[s] = 1
    /\ \A s \in Slots : daily[s] <= 1 + slips

(* What an hour's row says after the hour is complete stays right: later   *)
(* recomputations, that begin in the middle of an hour, and a second       *)
(* backfill replace it by the same, and the deletion of the raw flows      *)
(* leaves it alone.  Not so where a statement went over the hour when the  *)
(* retention had reached it: that replaces it by what is left of the hour. *)
ClosedHoursExact == \A h \in closed \ faded : hourly[h] = FlowsOf(h)

(* The retention reaches an hour before the job only where the job came    *)
(* late for its window, or the window of a backfill goes further back      *)
(* than what is kept.                                                      *)
FadesOnlyBehind ==
    [][faded' # faded => \/ Recompute /\ now - job.at > Keep - (LookBack + HourLen - 1)
                         \/ Backfill /\ now - job.at > Keep - (Reach + DayLen - 1)]_rollupVars

(* As long as completed recomputations and backfills are at most           *)
(* LookBack - Lag apart, no hour that is over is left incomplete, back to  *)
(* the one in which the daily rollups begin: a job that fails between its  *)
(* backfill and its first recomputation included.  Only an hour that the   *)
(* retention had reached when a statement went over it may be.             *)
NoGapWhileRegular ==
    regular /\ lastHours # Never /\ origin # Never =>
        \A h \in Hours :
            (\E s \in FlowsOf(h) : s >= origin) /\ (\A s \in FlowsOf(h) : s + Lag < lastHours) => h \in closed \cup faded

(* Pruning that is due is done, whatever stage of the job failed before.   *)
OverdueIsPruned == Overdue ~> ~Overdue
=============================================================================
