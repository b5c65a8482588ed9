--------------------------- MODULE RollupsProofs ---------------------------
(***************************************************************************)
(* Proofs about Rollups: the daily rollups add every flow exactly once up  *)
(* to the cursor, an hour that is complete stays as it is, and no hour is  *)
(* left incomplete while the job runs often enough, for every length of    *)
(* the hour, of the windows and of the lag.                                *)
(*                                                                         *)
(* Both rollups rest on the clock: a flow older than Lag is in the table.  *)
(* The hours rest on the alignment of the windows with whole hours, the    *)
(* days on where the cursor stands while a chunk is added but not saved.   *)
(***************************************************************************)
EXTENDS Rollups, TLAPS

RollupsTyped ==
    /\ now \in Nat /\ acct \subseteq Slots /\ gone \subseteq Slots
    /\ hourly \in [Hours -> SUBSET Slots]
    /\ daily \in [Slots -> Nat]
    /\ cursor \in Nat \cup {Never}
    /\ job \in [pc : Stages, at : Nat, cur : Int]
    /\ job.pc \in {"peers", "save"} => job.cur \in Nat
    /\ origin \in Nat \cup {Never} /\ slips \in Nat
    /\ closed \subseteq Hours /\ faded \subseteq Hours /\ lastHours \in Nat \cup {Never}

Arrived == acct \cup gone

(* What is older than the lag has arrived, what the retention deleted is   *)
(* older than Keep; a job's time is in the past.                           *)
ClockInv ==
    /\ \A s \in Slots : s < now - Lag => s \in Arrived
    /\ \A s \in gone : s < now - Keep
    /\ job.at <= now

(* Up to position p a flow was added once more than there were slips. *)
AtMostOnceMore(p) == \A s \in Slots : daily[s] <= (IF s < p THEN 1 ELSE 0) + slips

DailyInv ==
    /\ slips = 0 =>
        /\ \A s \in Slots : daily[s] = 1 => CountedIn(s)
        /\ \A s \in Slots : CountedIn(s) /\ s \notin gone => daily[s] = 1
        /\ cursor # Never => origin # Never /\ origin <= cursor
        /\ job.pc = "peers" => origin # Never /\ job.cur = (IF cursor = Never THEN origin ELSE cursor)
        /\ job.pc = "save" => origin # Never /\ origin <= job.cur
    /\ job.pc # "save" => AtMostOnceMore(cursor)
    /\ job.pc = "peers" => job.cur = cursor \/ \A s \in Slots : daily[s] <= slips
    /\ job.pc = "save" => AtMostOnceMore(job.cur)

OnBoundary(t, len) == t % len = 0

ClosedInv ==
    /\ \A h \in closed : h \in faded \/ hourly[h] = FlowsOf(h)
    /\ \A h \in closed : FlowsOf(h) \subseteq Arrived
    /\ \A h \in closed : \A s \in FlowsOf(h) : s < now
    /\ job.pc # "rest" => \A h \in closed : \A s \in FlowsOf(h) : s < job.at
    /\ job.pc = "backfill" => OnBoundary(job.cur, DayLen)

(* The hours that need no more. *)
Settled == closed \cup faded

(* Every hour that reaches beyond from, ends before to and was complete at *)
(* time at is closed, unless the retention had reached it.                 *)
Covered(from, to, at) ==
    \A h \in Hours :
        (\E s \in FlowsOf(h) : s >= from) /\ (\A s \in FlowsOf(h) : s < to /\ s + Lag < at) => h \in Settled

GapInv ==
    /\ job.pc = "backfill" => Covered(job.at - Reach, job.cur, job.at)
    /\ regular /\ lastHours # Never => Covered(lastHours - Reach, lastHours, lastHours)
    /\ regular /\ lastHours # Never /\ origin # Never => Covered(origin, lastHours, lastHours)
    /\ origin # Never => lastHours # Never
    /\ backfilled \/ job.pc \notin {"rest", "backfill"} => lastHours # Never
    /\ job.pc = "readcursor" => lastHours = job.at
    /\ lastHours <= now
    /\ job.pc # "rest" => lastHours <= job.at
---------------------------------------------------------------------------
(* Whole hours *)

(* Division with remainder, as the integers of the code do it. *)
LEMMA DivMod ==
    ASSUME NEW t \in Int, NEW n \in Nat \ {0}
    PROVE  /\ t = n * (t \div n) + (t % n)
           /\ t % n \in Int /\ 0 <= t % n /\ t % n < n /\ t \div n \in Int
BY SMT

(* Multiples of n are ordered as their factors are. *)
LEMMA MulLess ==
    ASSUME NEW n \in Nat \ {0}, NEW a \in Int, NEW b \in Int, n * a < n * b
    PROVE  a < b
BY SMT

(* The product respects the order. *)
LEMMA MulMono ==
    ASSUME NEW n \in Nat \ {0}, NEW a \in Int, NEW b \in Int, a <= b
    PROVE  n * a <= n * b
BY SMT

(* The next multiple. *)
LEMMA MulNext ==
    ASSUME NEW n \in Int, NEW q \in Int
    PROVE  n * (q + 1) = n * q + n /\ n * q \in Int
BY SMT

(* A multiple has the remainder 0 and itself as quotient. *)
LEMMA MulMod ==
    ASSUME NEW n \in Nat \ {0}, NEW q \in Int
    PROVE  (n * q) % n = 0 /\ (n * q) \div n = q
<1>. DEFINE t == n * q
<1>1. t \in Int
  BY MulNext
<1>2. PICK d \in Int : d = t \div n
  BY <1>1, DivMod
<1>3. PICK r \in Int : r = t % n
  BY <1>1, DivMod
<1>4. t = n * d + r /\ 0 <= r /\ r < n
  BY <1>1, <1>2, <1>3, DivMod
<1>5. n * d <= n * q /\ n * q < n * d + n /\ n * d \in Int
  BY <1>4, MulNext
<1>6. n * q < n * (d + 1)
  BY <1>5, MulNext
<1>7. q < d + 1
  BY <1>6, MulLess
<1>8. ~(q < d)
  <2>. SUFFICES ASSUME q < d PROVE FALSE
    OBVIOUS
  <2>1. n * (q + 1) <= n * d
    BY MulMono
  <2>. QED
    BY <1>5, <2>1, MulNext
<1>9. q = d
  BY <1>7, <1>8
<1>. QED
  BY <1>2, <1>3, <1>4, <1>5, <1>9

(* Cutting a time down to a boundary gives one, not after the time. *)
LEMMA CutDown ==
    ASSUME NEW t \in Int, NEW n \in Nat \ {0}
    PROVE  t - (t % n) \in Int /\ t - (t % n) <= t /\ OnBoundary(t - (t % n), n)
<1>1. PICK q \in Int : q = t \div n
  BY DivMod
<1>2. t - (t % n) = n * q
  BY <1>1, DivMod, MulNext
<1>3. (n * q) % n = 0 /\ n * q \in Int
  BY MulMod, MulNext
<1>4. OnBoundary(t - (t % n), n)
  BY <1>2, <1>3, Zenon DEF OnBoundary
<1>. QED
  BY <1>2, <1>3, <1>4, DivMod

(* A boundary is a multiple. *)
LEMMA BoundaryIsMultiple ==
    ASSUME NEW t \in Int, NEW n \in Nat \ {0}, OnBoundary(t, n)
    PROVE  \E q \in Int : t = n * q
<1>1. t = n * (t \div n) + (t % n) /\ t \div n \in Int
  BY DivMod
<1>2. PICK q \in Int : q = t \div n
  BY <1>1
<1>. QED
  BY <1>1, <1>2, MulNext DEF OnBoundary

(* One length after a boundary is the next. *)
LEMMA NextBoundary ==
    ASSUME NEW t \in Int, NEW n \in Nat \ {0}, OnBoundary(t, n)
    PROVE  OnBoundary(t + n, n)
<1>1. PICK q \in Int : t = n * q
  BY BoundaryIsMultiple
<1>2. PICK p \in Int : p = q + 1
  OBVIOUS
<1>3. t + n = n * p
  BY <1>1, <1>2, MulNext
<1>4. (n * p) % n = 0
  BY MulMod
<1>. QED
  BY <1>3, <1>4, Zenon DEF OnBoundary

(* The chunks of the backfill begin on whole hours. *)
LEMMA DayOnHour ==
    ASSUME NEW t \in Int, OnBoundary(t, DayLen)
    PROVE  OnBoundary(t, HourLen)
<1>1. PICK q \in Int : t = DayLen * q
  BY BoundaryIsMultiple, RollupsAssumption
<1>2. PICK e \in Int : DayLen = HourLen * e
  BY BoundaryIsMultiple, RollupsAssumption DEF OnBoundary
<1>3. t = HourLen * (e * q) /\ e * q \in Int
  BY <1>1, <1>2, RollupsAssumption, SMT
<1>. QED
  BY <1>3, MulMod, RollupsAssumption DEF OnBoundary

(* No hour lies on both sides of a boundary. *)
LEMMA HourIsWhole ==
    ASSUME NEW b \in Int, OnBoundary(b, HourLen),
           NEW h, NEW s \in FlowsOf(h), NEW u \in FlowsOf(h), s >= b
    PROVE  u >= b
<1>1. PICK q \in Int : b = HourLen * q
  BY BoundaryIsMultiple, RollupsAssumption
<1>2. s \in Nat /\ u \in Nat /\ s \div HourLen = u \div HourLen /\ HourLen \in Nat \ {0}
  BY RollupsAssumption DEF FlowsOf, HourOf, Slots
<1>3. PICK k \in Int : k = s \div HourLen /\ k = u \div HourLen
  BY <1>2, DivMod
<1>8. s = HourLen * (s \div HourLen) + (s % HourLen) /\ u = HourLen * (u \div HourLen) + (u % HourLen)
  BY <1>2, DivMod
<1>9. s = HourLen * k + (s % HourLen) /\ u = HourLen * k + (u % HourLen)
  BY <1>3, <1>8, Zenon
<1>0. s \in Int /\ u \in Int /\ HourLen \in Nat \ {0}
  BY <1>2
<1>10. PICK r \in Int : r = s % HourLen /\ r < HourLen
  BY <1>0, DivMod, Zenon
<1>11. PICK v \in Int : v = u % HourLen /\ 0 <= v
  BY <1>0, DivMod, Zenon
<1>12. s = HourLen * k + r /\ u = HourLen * k + v
  BY <1>9, <1>10, <1>11, Zenon
<1>4. s < HourLen * k + HourLen /\ u >= HourLen * k /\ HourLen * k \in Int
  BY <1>2, <1>10, <1>11, <1>12, MulNext
<1>5. HourLen * q < HourLen * (k + 1)
  BY <1>1, <1>2, <1>4, MulNext
<1>6. q < k + 1
  BY <1>2, <1>5, MulLess
<1>7. HourLen * q <= HourLen * k
  BY <1>2, <1>6, MulMono
<1>. QED
  BY <1>1, <1>2, <1>4, <1>7
---------------------------------------------------------------------------
(* Types and the clock *)

(* The numbers of the model. *)
LEMMA Lengths ==
    /\ HourLen \in Nat \ {0} /\ DayLen \in Nat \ {0} /\ Chunk \in Nat \ {0}
    /\ LookBack \in Nat /\ Reach \in Nat /\ LookBack <= Reach /\ Lag \in Nat /\ Keep \in Nat /\ MaxNow \in Nat
    /\ Never = -1 /\ Slots = 0..MaxNow /\ Slots \subseteq Nat
BY RollupsAssumption DEF Never, Slots

(* The rows of the hours hold flows, whatever window is recomputed. *)
LEMMA RowsTyped ==
    ASSUME RollupsTyped, NEW from \in Int, NEW to \in Int, RollupHours(from, to)
    PROVE  hourly' \in [Hours -> SUBSET Slots] /\ closed' \subseteq Hours /\ faded' \subseteq Hours
<1>1. closed' \subseteq Hours /\ faded' \subseteq Hours
  BY DEF RollupsTyped, RollupHours, HoursIn
<1>2. DEFINE seen(h) == {s \in FlowsOf(h) \cap acct : s >= WindowStart(from) /\ s < to}
<1>3. hourly' = [h \in Hours |-> IF seen(h) # {} THEN seen(h) ELSE hourly[h]]
  BY DEF RollupHours, Recomputed
<1>4. ASSUME NEW h \in Hours PROVE seen(h) \subseteq Slots /\ hourly[h] \subseteq Slots
  BY DEF FlowsOf, RollupsTyped
<1>. HIDE DEF seen
<1>. QED
  BY <1>1, <1>3, <1>4

(* The initial state is typed and its clock is at the start. *)
LEMMA InitTyped ==
    RollupsInit => RollupsTyped /\ ClockInv
BY Lengths DEF RollupsInit, RollupsTyped, ClockInv, Resting, Stages

(* Every step keeps the types. *)
LEMMA StepTyped ==
    ASSUME RollupsTyped, [RollupsNext]_rollupVars
    PROVE  RollupsTyped'
<1>. USE Lengths
<1>1. ASSUME NEW s \in Slots, Arrive(s) PROVE RollupsTyped'
  BY <1>1 DEF RollupsTyped, Arrive, tables, settings, history
<1>2. ASSUME Tick PROVE RollupsTyped'
  BY <1>2 DEF RollupsTyped, Tick, flows, tables, settings, history
<1>3. ASSUME StartJob PROVE RollupsTyped'
  <2>1. PICK c \in Int : c = (now - Reach) - ((now - Reach) % DayLen)
    <3>1. now - Reach \in Int
      BY DEF RollupsTyped
    <3>. QED
      BY <3>1, CutDown, Zenon
  <2>2. job' \in [pc : {"hours", "backfill"}, at : Nat, cur : Int]
    BY <1>3, <2>1 DEF RollupsTyped, StartJob
  <2>. QED
    BY <1>3, <2>2 DEF RollupsTyped, StartJob, Stages, flows, tables, settings, history
<1>4. ASSUME Backfill PROVE RollupsTyped'
  <2>1. hourly' \in [Hours -> SUBSET Slots] /\ closed' \subseteq Hours /\ faded' \subseteq Hours
    <3>1. CASE RollupHours(job.cur, job.cur + DayLen)
      <4>1. job.cur \in Int /\ job.cur + DayLen \in Int
        BY DEF RollupsTyped
      <4>. QED
        BY <3>1, <4>1, RowsTyped
    <3>2. CASE UNCHANGED <<hourly, closed, faded>>
      BY <3>2 DEF RollupsTyped
    <3>. QED
      BY <1>4, <3>1, <3>2 DEF Backfill
  <2>2. job' \in [pc : {"backfill", "rest", "flag"}, at : Nat, cur : Int]
    <3>1. CASE job' = [job EXCEPT !.cur = job.cur + DayLen]
      <4>1. job.pc = "backfill"
        BY <1>4, Zenon DEF Backfill
      <4>2. PICK c \in Int : c = job.cur + DayLen
        BY DEF RollupsTyped
      <4>3. job' = [job EXCEPT !.cur = c]
        BY <3>1, <4>2, Zenon
      <4>. QED
        BY <4>1, <4>3 DEF RollupsTyped
    <3>2. CASE EndJob
      BY <3>2 DEF EndJob, Resting
    <3>3. CASE Goto("flag")
      BY <3>3 DEF RollupsTyped, Goto
    <3>. QED
      BY <1>4, <3>1, <3>2, <3>3, Zenon DEF Backfill
  <2>3. lastHours' \in Nat \cup {Never}
    BY <1>4 DEF RollupsTyped, Backfill, HoursDone
  <2>. QED
    BY <1>4, <2>1, <2>2, <2>3 DEF RollupsTyped, Backfill, Stages, flows, settings
<1>5. ASSUME SaveFlag PROVE RollupsTyped'
  BY <1>5 DEF RollupsTyped, SaveFlag, Goto, Stages, flows, tables, history
<1>6. ASSUME Recompute PROVE RollupsTyped'
  <2>1. hourly' \in [Hours -> SUBSET Slots] /\ closed' \subseteq Hours /\ faded' \subseteq Hours
    <3>1. CASE RollupHours(job.at - LookBack, job.at)
      <4>1. job.at - LookBack \in Int /\ job.at \in Int
        BY DEF RollupsTyped
      <4>. QED
        BY <3>1, <4>1, RowsTyped
    <3>2. CASE UNCHANGED <<hourly, closed, faded>>
      BY <3>2 DEF RollupsTyped
    <3>. QED
      BY <1>6, <3>1, <3>2 DEF Recompute
  <2>2. job' \in [pc : {"rest", "readcursor"}, at : Nat, cur : Int]
    BY <1>6 DEF RollupsTyped, Recompute, EndJob, Resting, Goto
  <2>3. lastHours' \in Nat \cup {Never}
    BY <1>6 DEF RollupsTyped, Recompute, HoursDone
  <2>. QED
    BY <1>6, <2>1, <2>2, <2>3 DEF RollupsTyped, Recompute, Stages, flows, settings
<1>7. ASSUME ReadCursor PROVE RollupsTyped'
  <2>1. Most(0, job.at - Reach) \in Nat
    BY DEF Most, RollupsTyped
  <2>2. job' \in [pc : {"peers"}, at : Nat, cur : Nat]
    <3>1. CASE job' = [job EXCEPT !.pc = "peers", !.cur = cursor] /\ cursor # Never
      BY <3>1 DEF RollupsTyped
    <3>2. CASE job' = [job EXCEPT !.pc = "peers", !.cur = Most(0, job.at - Reach)]
      BY <2>1, <3>2 DEF RollupsTyped
    <3>. QED
      BY <1>7, <3>1, <3>2 DEF ReadCursor
  <2>3. origin' \in Nat \cup {Never} /\ slips' \in Nat
    <3>1. CASE UNCHANGED <<origin, slips, mishaps>>
      BY <3>1 DEF RollupsTyped
    <3>2. CASE origin' = Most(0, job.at - Reach) /\ UNCHANGED <<slips, mishaps>>
      BY <2>1, <3>2 DEF RollupsTyped
    <3>3. CASE slips' = slips + 1 /\ UNCHANGED origin
      BY <3>3 DEF RollupsTyped
    <3>. QED
      BY <1>7, <3>1, <3>2, <3>3, Zenon DEF ReadCursor
  <2>4. UNCHANGED <<now, flows, tables, settings, closed, faded, lastHours>>
    BY <1>7 DEF ReadCursor
  <2>. QED
    BY <2>2, <2>3, <2>4 DEF RollupsTyped, Stages, flows, tables, settings
<1>8. ASSUME AddPeers PROVE RollupsTyped'
  <2>1. daily' \in [Slots -> Nat]
    <3>1. CASE RollupPeerDays(job.cur, Least(job.cur + Chunk, PeersEnd))
      <4>1. PICK d : daily' = [s \in Slots |-> d[s]] /\ \A s \in Slots : d[s] \in {daily[s], daily[s] + 1}
        <5>. DEFINE d == [s \in Slots |-> IF s \in acct /\ s >= job.cur /\ s < Least(job.cur + Chunk, PeersEnd)
                                        THEN daily[s] + 1 ELSE daily[s]]
        <5>1. daily' = d
          BY <3>1 DEF RollupPeerDays
        <5>2. \A s \in Slots : d[s] \in {daily[s], daily[s] + 1}
          OBVIOUS
        <5>3. d = [s \in Slots |-> d[s]]
          OBVIOUS
        <5>. HIDE DEF d
        <5>. QED
          BY <5>1, <5>2, <5>3
      <4>2. daily \in [Slots -> Nat]
        BY DEF RollupsTyped
      <4>3. \A s \in Slots : d[s] \in Nat
        BY <4>1, <4>2
      <4>. QED
        BY <4>1, <4>3
    <3>2. CASE UNCHANGED daily
      BY <3>2 DEF RollupsTyped
    <3>. QED
      BY <1>8, <3>1, <3>2, Zenon DEF AddPeers
  <2>2. job' \in [pc : Stages, at : Nat, cur : Int] /\ (job'.pc \in {"peers", "save"} => job'.cur \in Nat)
    <3>1. CASE job.cur < PeersEnd /\ job' = [job EXCEPT !.pc = "save", !.cur = Least(job.cur + Chunk, PeersEnd)]
      <4>1. Least(job.cur + Chunk, PeersEnd) \in Nat
        BY <1>8, <3>1 DEF Least, PeersEnd, RollupsTyped, AddPeers
      <4>2. PICK next \in Nat : next = Least(job.cur + Chunk, PeersEnd)
        BY <4>1
      <4>3. job' = [job EXCEPT !.pc = "save", !.cur = next]
        BY <3>1, <4>2, Zenon
      <4>4. job' \in [pc : {"save"}, at : Nat, cur : Nat]
        BY <4>3 DEF RollupsTyped
      <4>. QED
        BY <4>4 DEF Stages
    <3>2. CASE EndJob
      BY <3>2 DEF EndJob, Resting, Stages
    <3>3. CASE Goto("prune")
      BY <3>3 DEF RollupsTyped, Goto, Stages
    <3>. QED
      BY <1>8, <3>1, <3>2, <3>3 DEF AddPeers
  <2>. QED
    BY <1>8, <2>1, <2>2 DEF RollupsTyped, AddPeers, flows, settings, history
<1>9. ASSUME SaveCursor PROVE RollupsTyped'
  <2>1. job' \in [pc : {"peers"}, at : Nat, cur : Nat]
    BY <1>9 DEF RollupsTyped, SaveCursor, Goto
  <2>2. cursor' \in Nat \cup {Never} /\ slips' \in Nat
    BY <1>9 DEF RollupsTyped, SaveCursor
  <2>. QED
    BY <1>9, <2>1, <2>2 DEF RollupsTyped, SaveCursor, Stages, flows, tables
<1>10. ASSUME PruneRollups PROVE RollupsTyped'
  <2>1. job' \in [pc : {"stamp", "rest"}, at : Nat, cur : Int]
    <3>1. CASE EndJob
      BY <3>1 DEF EndJob, Resting
    <3>2. CASE Goto("stamp")
      BY <3>2 DEF RollupsTyped, Goto
    <3>. QED
      BY <1>10, <3>1, <3>2, Zenon DEF PruneRollups
  <2>2. UNCHANGED <<now, flows, hourly, daily, cursor, origin, slips, closed, faded, lastHours>>
    BY <1>10, Zenon DEF PruneRollups, tables, settings, history
  <2>. QED
    BY <2>1, <2>2 DEF RollupsTyped, Stages, flows
<1>11. ASSUME StampPrune PROVE RollupsTyped'
  BY <1>11 DEF RollupsTyped, StampPrune, EndJob, Resting, Stages, flows, tables, history
<1>12. ASSUME RollupsRestart PROVE RollupsTyped'
  BY <1>12 DEF RollupsTyped, RollupsRestart, EndJob, Resting, Stages, flows, tables, settings
<1>13. ASSUME UNCHANGED rollupVars PROVE RollupsTyped'
  BY <1>13 DEF RollupsTyped, rollupVars, flows, tables, settings, history
<1>14. ASSUME Retention PROVE RollupsTyped'
  BY <1>14 DEF RollupsTyped, Retention, tables, settings, history
<1>. QED
  BY <1>14, <1>1, <1>2, <1>3, <1>4, <1>5, <1>6, <1>7, <1>8, <1>9, <1>10, <1>11, <1>12, <1>13
  DEF RollupsNext, JobStep

(* Every step keeps the clock: it ticks only when what is Lag old has      *)
(* arrived, and a job takes its time from it.                              *)
LEMMA StepClock ==
    ASSUME RollupsTyped, ClockInv, [RollupsNext]_rollupVars
    PROVE  ClockInv' /\ now <= now'
<1>. USE Lengths
<1>1. ASSUME NEW s \in Slots, Arrive(s) PROVE ClockInv' /\ now <= now'
  BY <1>1 DEF RollupsTyped, ClockInv, Arrive, Arrived
<1>2. ASSUME Tick PROVE ClockInv' /\ now <= now'
  <2>1. now' = now + 1 /\ acct' = acct /\ gone' = gone /\ job' = job
       /\ (now - Lag \in Slots => now - Lag \in Arrived)
    BY <1>2, Zenon DEF Tick, flows, Arrived
  <2>2. ASSUME NEW s \in Slots, s < now' - Lag PROVE s \in Arrived'
    <3>1. s < now - Lag \/ s = now - Lag
      BY <2>1, <2>2 DEF RollupsTyped
    <3>. QED
      BY <2>1, <3>1 DEF ClockInv, Arrived
  <2>3. job'.at <= now' /\ now <= now'
    BY <2>1 DEF RollupsTyped, ClockInv
  <2>4. \A s \in gone' : s < now' - Keep
    BY <2>1 DEF RollupsTyped, ClockInv
  <2>. QED
    BY <2>2, <2>3, <2>4 DEF ClockInv
<1>3. ASSUME StartJob PROVE ClockInv' /\ now <= now'
  <2>1. ASSUME NEW c, NEW p, job' = [pc |-> p, at |-> now, cur |-> c] PROVE job'.at = now
    BY <2>1
  <2>2. job'.at = now
    BY <1>3, <2>1, Zenon DEF StartJob
  <2>. QED
    BY <1>3, <2>2 DEF RollupsTyped, ClockInv, StartJob, flows, Arrived
<1>4. ASSUME UNCHANGED <<now, flows>>, job'.at \in {job.at, 0} PROVE ClockInv' /\ now <= now'
  BY <1>4 DEF RollupsTyped, ClockInv, flows, Arrived
<1>5. ASSUME \/ Backfill \/ SaveFlag \/ Recompute \/ ReadCursor \/ AddPeers \/ SaveCursor
             \/ PruneRollups \/ StampPrune \/ RollupsRestart
      PROVE  UNCHANGED <<now, flows>> /\ job'.at \in {job.at, 0}
  <2>1. UNCHANGED <<now, flows>>
    BY <1>5 DEF Backfill, SaveFlag, Recompute, ReadCursor, AddPeers, SaveCursor, PruneRollups, StampPrune, RollupsRestart
  <2>2. EndJob => job'.at = 0
    BY DEF EndJob, Resting
  <2>3. ASSUME NEW p, NEW c, job' = [job EXCEPT !.pc = p, !.cur = c] \/ job' = [job EXCEPT !.cur = c] \/ Goto(p)
        PROVE  job'.at = job.at
    BY <2>3 DEF RollupsTyped, Goto
  <2>4. EndJob \/ job'.at = job.at
    <3>1. CASE Backfill
      <4>1. EndJob \/ job' = [job EXCEPT !.cur = job.cur + DayLen] \/ Goto("flag")
        BY <3>1 DEF Backfill
      <4>. QED
        BY <2>3, <4>1
    <3>2. CASE ReadCursor
      BY <2>3, <3>2 DEF ReadCursor
    <3>3. CASE AddPeers
      BY <2>3, <3>3 DEF AddPeers
    <3>4. CASE SaveFlag \/ Recompute \/ SaveCursor \/ PruneRollups \/ StampPrune \/ RollupsRestart
      BY <2>3, <3>4, Zenon DEF SaveFlag, Recompute, SaveCursor, PruneRollups, StampPrune, RollupsRestart
    <3>. QED
      BY <1>5, <3>1, <3>2, <3>3, <3>4
  <2>. QED
    BY <2>1, <2>2, <2>4
<1>6. ASSUME UNCHANGED rollupVars PROVE ClockInv' /\ now <= now'
  BY <1>6 DEF RollupsTyped, ClockInv, rollupVars, flows, Arrived
<1>7. ASSUME Retention PROVE ClockInv' /\ now <= now'
  BY <1>7 DEF RollupsTyped, ClockInv, Retention, Arrived
<1>. QED
  BY <1>7, <1>1, <1>2, <1>3, <1>4, <1>5, <1>6 DEF RollupsNext, JobStep
---------------------------------------------------------------------------
(* The stages of the job *)

(* What a job's next stage is, and that it keeps its time.                 *)
LEMMA Stage ==
    ASSUME RollupsTyped
    PROVE  /\ \A p \in Stages : Goto(p) => job'.pc = p /\ job'.at = job.at /\ job'.cur = job.cur
           /\ EndJob => job'.pc = "rest"
           /\ \A p \in Stages, c \in Int : job' = [job EXCEPT !.pc = p, !.cur = c]
                                             => job'.pc = p /\ job'.at = job.at /\ job'.cur = c
           /\ \A c \in Int : job' = [job EXCEPT !.cur = c]
                               => job'.pc = job.pc /\ job'.at = job.at /\ job'.cur = c
<1>1. ASSUME NEW p \in Stages, Goto(p) PROVE job'.pc = p /\ job'.at = job.at /\ job'.cur = job.cur
  BY <1>1 DEF RollupsTyped, Goto
<1>2. EndJob => job'.pc = "rest"
  BY DEF EndJob, Resting
<1>3. ASSUME NEW p \in Stages, NEW c \in Int, job' = [job EXCEPT !.pc = p, !.cur = c]
      PROVE  job'.pc = p /\ job'.at = job.at /\ job'.cur = c
  BY <1>3 DEF RollupsTyped
<1>4. ASSUME NEW c \in Int, job' = [job EXCEPT !.cur = c]
      PROVE  job'.pc = job.pc /\ job'.at = job.at /\ job'.cur = c
  BY <1>4 DEF RollupsTyped
<1>. QED
  BY <1>1, <1>2, <1>3, <1>4, Zenon

(* A job starts with the backfill or the hours, at the present time. *)
LEMMA Started ==
    ASSUME RollupsTyped, StartJob
    PROVE  /\ job'.pc \in {"hours", "backfill"} /\ job'.at = now
           /\ job'.cur = (now - Reach) - ((now - Reach) % DayLen)
           /\ job'.pc = "hours" => backfilled
<1>. DEFINE c == (now - Reach) - ((now - Reach) % DayLen)
<1>1. \/ backfilled /\ job' = [pc |-> "hours", at |-> now, cur |-> c]
      \/ job' = [pc |-> "backfill", at |-> now, cur |-> c]
  BY DEF StartJob
<1>. HIDE DEF c
<1>2. ASSUME NEW p, job' = [pc |-> p, at |-> now, cur |-> c]
      PROVE  job'.pc = p /\ job'.at = now /\ job'.cur = c
  BY <1>2
<1>3. \/ backfilled /\ job'.pc = "hours" /\ job'.at = now /\ job'.cur = c
      \/ job'.pc = "backfill" /\ job'.at = now /\ job'.cur = c
  BY <1>1, <1>2, Zenon
<1>4. "hours" # "backfill"
  OBVIOUS
<1>. QED
  BY <1>3, <1>4, Zenon DEF c
---------------------------------------------------------------------------
(* The daily rollups *)

(* A step that touches none of the daily rollups, and neither leaves the   *)
(* saving of a cursor nor begins the adding.                               *)
LEMMA DailyUntouched ==
    ASSUME DailyInv, gone \subseteq gone', UNCHANGED <<daily, cursor, origin, slips>>,
           job.pc # "save", job'.pc \notin {"peers", "save"}
    PROVE  DailyInv'
<1>1. Added' = cursor /\ Added = cursor
  BY DEF Added
<1>. QED
  BY <1>1, Zenon DEF DailyInv, AtMostOnceMore, CountedIn

(* Without a step of the job nothing changes. *)
LEMMA DailySame ==
    ASSUME DailyInv, gone \subseteq gone', UNCHANGED <<daily, cursor, origin, slips, job>>
    PROVE  DailyInv'
BY Zenon DEF DailyInv, AtMostOnceMore, Added, CountedIn

(* The cursor that AddPeers works with: read, or made up from the reach.   *)
LEMMA DailyReadCursor ==
    ASSUME RollupsTyped, RollupsTyped', DailyInv, ReadCursor
    PROVE  DailyInv'
<1>. USE Lengths
<1>1. job'.pc = "peers" /\ job.pc = "readcursor" /\ UNCHANGED <<daily, cursor, gone>>
  <2>1. Most(0, job.at - Reach) \in Int
    BY DEF Most, RollupsTyped
  <2>2. cursor \in Int
    BY DEF RollupsTyped
  <2>3. "peers" \in Stages
    BY DEF Stages
  <2>. QED
    BY <2>1, <2>2, <2>3, Stage, Zenon DEF ReadCursor, flows, tables, settings
<1>2. AtMostOnceMore(cursor) /\ Added = cursor /\ Added' = cursor
  BY <1>1 DEF DailyInv, Added
<1>3. CASE cursor # Never /\ job' = [job EXCEPT !.pc = "peers", !.cur = cursor] /\ UNCHANGED <<origin, slips, mishaps>>
  <2>1. job'.cur = cursor
    BY <1>3 DEF RollupsTyped
  <2>. QED
    BY <1>1, <1>2, <1>3, <2>1 DEF DailyInv, AtMostOnceMore, CountedIn
<1>4. CASE cursor = Never /\ origin' = Most(0, job.at - Reach) /\ UNCHANGED slips
           /\ job' = [job EXCEPT !.pc = "peers", !.cur = Most(0, job.at - Reach)]
  <2>1. PICK m \in Nat : m = Most(0, job.at - Reach)
    BY DEF Most, RollupsTyped
  <2>2. job'.cur = m /\ origin' = m
    BY <1>4, <2>1 DEF RollupsTyped
  <2>3. ASSUME NEW s \in Slots PROVE daily[s] <= slips /\ ~(s < cursor)
    <3>1. ~(s < cursor)
      BY <1>4
    <3>2. daily[s] <= (IF s < cursor THEN 1 ELSE 0) + slips
      BY <1>2, Zenon DEF AtMostOnceMore
    <3>. QED
      BY <3>1, <3>2 DEF RollupsTyped
  <2>4. slips = 0 => \A s \in Slots : daily[s] = 0
    BY <2>3 DEF RollupsTyped
  <2>. QED
    BY <1>1, <1>2, <1>4, <2>2, <2>3, <2>4 DEF DailyInv, AtMostOnceMore, CountedIn, RollupsTyped
<1>5. CASE cursor # Never /\ slips' = slips + 1 /\ UNCHANGED origin
  <2>1. \A s \in Slots : daily'[s] <= slips'
    BY <1>1, <1>2, <1>5 DEF AtMostOnceMore, RollupsTyped
  <2>2. slips' # 0
    BY <1>5 DEF RollupsTyped
  <2>3. AtMostOnceMore(cursor)'
    BY <2>1 DEF AtMostOnceMore, RollupsTyped
  <2>. QED
    BY <1>1, <2>1, <2>2, <2>3 DEF DailyInv
<1>. QED
  BY <1>3, <1>4, <1>5 DEF ReadCursor

(* A chunk is added behind the cursor; its end waits to be saved.          *)
LEMMA DailyAddPeers ==
    ASSUME RollupsTyped, RollupsTyped', ClockInv, DailyInv, AddPeers
    PROVE  DailyInv'
<1>. USE Lengths
<1>1. job.pc = "peers" /\ UNCHANGED <<cursor, origin, slips, now, acct, gone>> /\ Added = cursor
  BY DEF AddPeers, Added, flows, settings, history
<1>2. CASE job.cur < PeersEnd /\ RollupPeerDays(job.cur, Least(job.cur + Chunk, PeersEnd))
           /\ job' = [job EXCEPT !.pc = "save", !.cur = Least(job.cur + Chunk, PeersEnd)]
  <2>1. PICK c \in Nat : c = job.cur
    BY <1>1 DEF RollupsTyped
  <2>2. PICK next \in Int : next = Least(job.cur + Chunk, PeersEnd) /\ c < next /\ next <= job.at - Lag
    <3>1. PICK end \in Int : end = PeersEnd /\ end = job.at - Lag
      BY DEF PeersEnd, RollupsTyped
    <3>2. c < end
      BY <1>2, <2>1, <3>1
    <3>3. Least(c + Chunk, end) \in Int /\ c < Least(c + Chunk, end) /\ Least(c + Chunk, end) <= end
      BY <3>2 DEF Least
    <3>. QED
      BY <2>1, <3>1, <3>3
  <2>3. job'.pc = "save" /\ job'.cur = next
    BY <1>2, <2>2 DEF RollupsTyped
  <2>4. RollupPeerDays(c, next)
    BY <1>2, <2>1, <2>2, Zenon
  <2>5. Added' = next
    BY <2>3 DEF Added
  <2>6. ASSUME NEW s \in Slots
        PROVE  /\ s >= c /\ s < next => daily'[s] = daily[s] + 1 \/ (s \in gone /\ daily'[s] = daily[s])
               /\ s < c \/ s >= next => daily'[s] = daily[s]
    <3>1. s < next => s \in acct \/ s \in gone
      <4>1. next <= job.at - Lag /\ job.at <= now /\ job.at \in Nat /\ now \in Nat
        BY <2>2, Zenon DEF ClockInv, RollupsTyped
      <4>2. s < next => s < now - Lag
        BY <4>1
      <4>. QED
        BY <4>2, Zenon DEF ClockInv, Arrived
    <3>2. daily'[s] = IF s \in acct /\ s >= c /\ s < next THEN daily[s] + 1 ELSE daily[s]
      BY <2>4 DEF RollupPeerDays
    <3>. QED
      BY <3>1, <3>2
  <2>7. AtMostOnceMore(next)'
    <3>. SUFFICES ASSUME NEW s \in Slots PROVE daily'[s] <= (IF s < next THEN 1 ELSE 0) + slips
      BY <1>1 DEF AtMostOnceMore
    <3>1. daily[s] \in Nat /\ slips \in Nat
      BY DEF RollupsTyped
    <3>2. CASE c = cursor
      <4>1. daily[s] <= (IF s < c THEN 1 ELSE 0) + slips
        BY <1>1, <3>2 DEF DailyInv, AtMostOnceMore
      <4>. QED
        BY <2>2, <2>6, <3>1, <4>1
    <3>3. CASE daily[s] <= slips
      BY <2>2, <2>6, <3>1, <3>3
    <3>. QED
      BY <1>1, <2>1, <3>2, <3>3 DEF DailyInv
  <2>8. ASSUME slips = 0
        PROVE  /\ origin # Never /\ origin <= next
               /\ \A s \in Slots : /\ daily'[s] = 1 => s >= origin /\ s < next
                                   /\ s >= origin /\ s < next /\ s \notin gone => daily'[s] = 1
    <3>1. origin # Never /\ c = (IF cursor = Never THEN origin ELSE cursor) /\ (cursor # Never => origin <= cursor)
      BY <1>1, <2>1, <2>8 DEF DailyInv
    <3>2. origin \in Nat /\ cursor \in Nat \cup {Never} /\ origin <= c
      BY <3>1 DEF RollupsTyped
    <3>3. ASSUME NEW s \in Slots
          PROVE  /\ daily'[s] = 1 => s >= origin /\ s < next
                 /\ s >= origin /\ s < next /\ s \notin gone => daily'[s] = 1
      <4>1. /\ daily[s] = 1 => s >= origin /\ s < cursor
            /\ s >= origin /\ s < cursor /\ s \notin gone => daily[s] = 1
        BY <1>1, <2>8, <3>1 DEF DailyInv, CountedIn
      <4>2. s \in Nat /\ daily[s] \in Nat /\ (cursor = Never => c = origin) /\ (cursor # Never => c = cursor)
        BY <3>1 DEF RollupsTyped
      <4>3. daily[s] <= (IF s < c THEN 1 ELSE 0)
        BY <1>1, <2>1, <2>8, <3>1, <3>2, <4>2 DEF DailyInv, AtMostOnceMore
      <4>. QED
        BY <2>2, <2>6, <3>2, <4>1, <4>2, <4>3
    <3>. QED
      BY <2>2, <3>1, <3>2, <3>3
  <2>9. gone' = gone /\ origin' = origin /\ slips' = slips
    BY <1>1
  <2>10. slips' = 0 =>
            /\ \A s \in Slots : daily'[s] = 1 => CountedIn(s)'
            /\ \A s \in Slots : CountedIn(s)' /\ s \notin gone' => daily'[s] = 1
    <3>. SUFFICES ASSUME slips = 0, NEW s \in Slots
                  PROVE  (daily'[s] = 1 => CountedIn(s)') /\ (CountedIn(s)' /\ s \notin gone => daily'[s] = 1)
      BY <2>9
    <3>1. CountedIn(s)' <=> origin' # Never /\ s >= origin' /\ s < Added'
      BY Zenon DEF CountedIn
    <3>2. CountedIn(s)' <=> s >= origin /\ s < next
      BY <2>5, <2>8, <2>9, <3>1
    <3>3. (daily'[s] = 1 => s >= origin /\ s < next) /\ (s >= origin /\ s < next /\ s \notin gone => daily'[s] = 1)
      BY <2>8, Zenon
    <3>. QED
      BY <3>2, <3>3, Zenon
  <2>11. slips' = 0 => /\ cursor' # Never => origin' # Never /\ origin' <= cursor'
                       /\ origin' # Never /\ origin' <= job'.cur
    BY <1>1, <2>3, <2>8, <2>9 DEF DailyInv
  <2>12. AtMostOnceMore(job.cur)'
    BY <2>3, <2>7 DEF AtMostOnceMore
  <2>13. "save" # "peers"
    OBVIOUS
  <2>. QED
    BY <2>3, <2>10, <2>11, <2>12, <2>13, Zenon DEF DailyInv
<1>3. CASE UNCHANGED daily /\ (EndJob \/ Goto("prune"))
  <2>1. job'.pc \notin {"peers", "save"}
    BY <1>3, Stage DEF Stages
  <2>. QED
    BY <1>1, <1>3, <2>1, DailyUntouched
<1>. QED
  BY <1>2, <1>3 DEF AddPeers

(* The cursor is saved, or what was added will be added again.             *)
LEMMA DailySaveCursor ==
    ASSUME RollupsTyped, RollupsTyped', DailyInv, SaveCursor
    PROVE  DailyInv'
<1>. USE Lengths
<1>1. job.pc = "save" /\ job'.pc = "peers" /\ job'.cur = job.cur /\ UNCHANGED <<daily, origin, gone>>
  BY Stage DEF SaveCursor, flows, tables, Stages
<1>2. AtMostOnceMore(job.cur) /\ Added = job.cur /\ Added' = cursor' /\ job.cur \in Nat
  BY <1>1 DEF DailyInv, Added, RollupsTyped
<1>3. CASE cursor' = job.cur /\ UNCHANGED slips
  BY <1>1, <1>2, <1>3 DEF DailyInv, AtMostOnceMore, CountedIn
<1>4. CASE slips' = slips + 1 /\ UNCHANGED cursor
  <2>1. \A s \in Slots : daily'[s] <= slips'
    BY <1>1, <1>2, <1>4 DEF AtMostOnceMore, RollupsTyped
  <2>2. slips' # 0
    BY <1>4 DEF RollupsTyped
  <2>3. AtMostOnceMore(cursor)'
    BY <2>1 DEF AtMostOnceMore, RollupsTyped
  <2>. QED
    BY <1>1, <2>1, <2>2, <2>3 DEF DailyInv
<1>. QED
  BY <1>3, <1>4 DEF SaveCursor

(* A restart loses the end of the chunk it interrupts.                     *)
LEMMA DailyRestart ==
    ASSUME RollupsTyped, RollupsTyped', DailyInv, RollupsRestart
    PROVE  DailyInv'
<1>. USE Lengths
<1>1. job'.pc = "rest" /\ UNCHANGED <<daily, cursor, origin, gone>>
  BY Stage DEF RollupsRestart, flows, tables, settings
<1>2. CASE job.pc = "save"
  <2>1. slips' = slips + 1 /\ AtMostOnceMore(job.cur)
    BY <1>2 DEF RollupsRestart, DailyInv
  <2>2. \A s \in Slots : daily'[s] <= slips'
    BY <1>1, <2>1 DEF AtMostOnceMore, RollupsTyped
  <2>3. slips' # 0
    BY <2>1 DEF RollupsTyped
  <2>4. AtMostOnceMore(cursor)'
    BY <2>2 DEF AtMostOnceMore, RollupsTyped
  <2>. QED
    BY <1>1, <2>3, <2>4 DEF DailyInv
<1>3. CASE job.pc # "save"
  <2>1. slips' = slips
    BY <1>3 DEF RollupsRestart
  <2>. QED
    BY <1>1, <1>3, <2>1, DailyUntouched
<1>. QED
  BY <1>2, <1>3

(* Every step keeps the account of the daily rollups. *)
LEMMA StepDaily ==
    ASSUME RollupsTyped, RollupsTyped', ClockInv, DailyInv, [RollupsNext]_rollupVars
    PROVE  DailyInv'
<1>1. ASSUME (\E s \in Slots : Arrive(s)) \/ Tick \/ Retention \/ UNCHANGED rollupVars PROVE DailyInv'
  <2>1. UNCHANGED <<daily, cursor, origin, slips, job>> /\ gone \subseteq gone'
    BY <1>1 DEF Arrive, Tick, Retention, rollupVars, flows, tables, settings, history
  <2>. QED
    BY <2>1, DailySame
<1>2. ASSUME StartJob PROVE DailyInv'
  <2>1. job.pc = "rest" /\ UNCHANGED <<daily, cursor, origin, slips, gone>>
    BY <1>2 DEF StartJob, flows, tables, settings, history
  <2>. QED
    BY <1>2, <2>1, Started, DailyUntouched
<1>3. ASSUME Backfill PROVE DailyInv'
  <2>1. job.pc = "backfill" /\ UNCHANGED <<daily, cursor, origin, slips, gone>>
    BY <1>3 DEF Backfill, flows, settings
  <2>2. job'.pc \notin {"peers", "save"}
    <3>1. CASE job' = [job EXCEPT !.cur = job.cur + DayLen]
      <4>1. PICK c \in Int : c = job.cur + DayLen
        BY Lengths DEF RollupsTyped
      <4>. QED
        BY <2>1, <3>1, <4>1, Stage
    <3>2. CASE EndJob \/ Goto("flag")
      BY <3>2, Stage DEF Stages
    <3>. QED
      BY <1>3, <3>1, <3>2 DEF Backfill
  <2>. QED
    BY <2>1, <2>2, DailyUntouched
<1>4. ASSUME SaveFlag \/ Recompute \/ PruneRollups \/ StampPrune PROVE DailyInv'
  <2>1. job.pc # "save" /\ UNCHANGED <<daily, cursor, origin, slips, gone>>
    BY <1>4 DEF SaveFlag, Recompute, PruneRollups, StampPrune, flows, tables, settings, history
  <2>2. Goto("hours") \/ Goto("readcursor") \/ Goto("stamp") \/ EndJob
    BY <1>4, Zenon DEF SaveFlag, Recompute, PruneRollups, StampPrune
  <2>3. job'.pc \notin {"peers", "save"}
    BY <2>2, Stage DEF Stages
  <2>. QED
    BY <2>1, <2>3, DailyUntouched
<1>. QED
  BY <1>1, <1>2, <1>3, <1>4, DailyReadCursor, DailyAddPeers, DailySaveCursor, DailyRestart
  DEF RollupsNext, JobStep

(* DailyExact: a flow is in the daily peer rollups exactly once from where *)
(* they begin up to the cursor, and not beyond it, unless a cursor was     *)
(* misread, not saved, or lost in a restart; each such slip adds it at     *)
(* most once more.  Whatever jobs fail, and whenever flows arrive within   *)
(* the lag; only a flow that the retention deleted may be missing.         *)
THEOREM FlowsAreAddedOnce == RollupsSpec => []DailyExact
<1>1. RollupsInit => RollupsTyped /\ ClockInv /\ DailyInv
  <2>1. RollupsInit => DailyInv
    BY Lengths DEF RollupsInit, DailyInv, AtMostOnceMore, Added, CountedIn, Resting
  <2>. QED
    BY <2>1, InitTyped
<1>2. RollupsTyped /\ ClockInv /\ DailyInv /\ [RollupsNext]_rollupVars => (RollupsTyped /\ ClockInv /\ DailyInv)'
  BY StepTyped, StepClock, StepDaily
<1>3. RollupsTyped /\ DailyInv => DailyExact
  <2>. SUFFICES ASSUME RollupsTyped, DailyInv, NEW s \in Slots PROVE daily[s] <= 1 + slips
    BY DEF DailyInv, DailyExact
  <2>1. \E p \in Int : AtMostOnceMore(p)
    BY Lengths DEF DailyInv, RollupsTyped
  <2>. QED
    BY <2>1 DEF AtMostOnceMore, RollupsTyped
<1>. QED
  BY <1>1, <1>2, <1>3, PTL DEF RollupsSpec
---------------------------------------------------------------------------
(* The hours *)

(* What RollupHours does to a row: an hour whose flows have all arrived,   *)
(* that the retention has not reached, and that the window holds whole or  *)
(* not at all at its end, gets all of its flows or stays.                  *)
LEMMA HoursRecomputed ==
    ASSUME RollupsTyped, NEW from \in Int, NEW to \in Int, RollupHours(from, to),
           NEW h \in Hours, FlowsOf(h) \subseteq Arrived, \A s \in gone : s < now - Keep, h \notin faded',
           (\A s \in FlowsOf(h) : s < to) \/ (\A s \in FlowsOf(h) : s >= to)
    PROVE  hourly'[h] \in {FlowsOf(h), hourly[h]}
<1>. USE Lengths
<1>1. PICK b \in Int : b = from - (from % HourLen) /\ b <= from /\ OnBoundary(b, HourLen)
  BY CutDown
<1>2. PICK first \in Nat : first = WindowStart(from) /\ first = Most(0, b) /\ first >= b
  BY <1>1 DEF Most, WindowStart
<1>. DEFINE seen == {s \in FlowsOf(h) \cap acct : s >= first /\ s < to}
<1>3. hourly'[h] = IF seen # {} THEN seen ELSE hourly[h]
  BY <1>2, Zenon DEF RollupHours, Recomputed
<1>4. ASSUME seen # {} PROVE seen = FlowsOf(h)
  <2>1. PICK s \in FlowsOf(h) : s >= first /\ s < to
    BY <1>4
  <2>2. FlowsOf(h) \subseteq Nat
    BY DEF FlowsOf
  <2>3. ASSUME NEW u \in FlowsOf(h) PROVE u >= first /\ u < to
    <3>1. s >= b /\ s \in Nat /\ u \in Nat
      BY <1>2, <2>1, <2>2
    <3>2. u >= b
      BY <1>1, <3>1, HourIsWhole
    <3>3. u >= first
      BY <1>1, <1>2, <3>1, <3>2 DEF Most
    <3>. QED
      BY <2>1, <3>1, <3>3
  <2>4. h \in HoursIn(from, to)
    BY <1>2, <2>1 DEF HoursIn
  <2>5. ~Fading(h)
    BY <2>4, Zenon DEF RollupHours
  <2>6. \A u \in FlowsOf(h) : u \notin gone
    BY <2>5, Zenon DEF Fading
  <2>. QED
    BY <2>3, <2>6 DEF Arrived
<1>. QED
  BY <1>3, <1>4

(* An hour that becomes closed has all of its flows in its row.            *)
LEMMA NewlyClosed ==
    ASSUME RollupsTyped, NEW from \in Int, NEW to \in Int, RollupHours(from, to),
           NEW h \in closed', h \notin closed
    PROVE  /\ hourly'[h] = FlowsOf(h) /\ FlowsOf(h) \subseteq Arrived
           /\ \A s \in FlowsOf(h) : s < to /\ s < job.at
<1>. USE Lengths
<1>1. h \in HoursIn(from, to) /\ FlowsOf(h) \subseteq acct /\ \A s \in FlowsOf(h) : s < Least(to, job.at)
  BY Zenon DEF RollupHours
<1>2. PICK s0 \in FlowsOf(h) : s0 >= WindowStart(from) /\ s0 < to
  BY <1>1 DEF HoursIn
<1>3. FlowsOf(h) \subseteq Nat /\ h \in Hours /\ job.at \in Nat
  BY <1>1 DEF FlowsOf, HoursIn, RollupsTyped
<1>4. \A s \in FlowsOf(h) : s < to /\ s < job.at
  BY <1>1, <1>3 DEF Least
<1>5. PICK b \in Int : b = from - (from % HourLen) /\ b <= from /\ OnBoundary(b, HourLen)
  BY CutDown
<1>6. PICK first \in Nat : first = WindowStart(from) /\ (b >= 0 => first = b) /\ (b < 0 => first = 0)
  BY <1>5 DEF Most, WindowStart
<1>. DEFINE seen == {s \in FlowsOf(h) \cap acct : s >= first /\ s < to}
<1>7. hourly'[h] = IF seen # {} THEN seen ELSE hourly[h]
  BY <1>3, <1>6, Zenon DEF RollupHours, Recomputed
<1>8. ASSUME NEW u \in FlowsOf(h) PROVE u >= first
  <2>1. s0 >= b
    BY <1>2, <1>3, <1>5, <1>6
  <2>2. u >= b
    BY <1>5, <2>1, HourIsWhole
  <2>. QED
    BY <1>3, <1>5, <1>6, <2>2
<1>9. seen = FlowsOf(h) /\ seen # {}
  BY <1>1, <1>2, <1>4, <1>6, <1>8
<1>. QED
  BY <1>1, <1>4, <1>7, <1>9 DEF Arrived

(* Recomputing a window keeps the rows of the closed hours, if its end     *)
(* divides none of them, and closes hours of the job's past only.          *)
LEMMA RowsKept ==
    ASSUME RollupsTyped, ClosedInv, ClockInv, NEW from \in Int, NEW to \in Int, RollupHours(from, to),
           UNCHANGED <<now, flows>>, job.pc # "rest",
           \A h \in closed : (\A s \in FlowsOf(h) : s < to) \/ (\A s \in FlowsOf(h) : s >= to)
    PROVE  /\ \A h \in closed' : (h \in faded' \/ hourly'[h] = FlowsOf(h)) /\ FlowsOf(h) \subseteq Arrived'
           /\ \A h \in closed' : \A s \in FlowsOf(h) : s < now' /\ s < job.at
<1>1. ASSUME NEW h \in closed', h \notin closed
      PROVE  (h \in faded' \/ hourly'[h] = FlowsOf(h)) /\ FlowsOf(h) \subseteq Arrived /\ \A s \in FlowsOf(h) : s < job.at
  BY <1>1, NewlyClosed
<1>2. ASSUME NEW h \in closed
      PROVE  (h \in faded' \/ hourly'[h] = FlowsOf(h)) /\ FlowsOf(h) \subseteq Arrived /\ \A s \in FlowsOf(h) : s < job.at
  <2>1. h \in Hours /\ (h \in faded \/ hourly[h] = FlowsOf(h)) /\ FlowsOf(h) \subseteq Arrived /\ \A s \in FlowsOf(h) : s < job.at
    BY DEF RollupsTyped, ClosedInv
  <2>2. h \notin faded' => hourly'[h] \in {FlowsOf(h), hourly[h]}
    BY <2>1, HoursRecomputed DEF ClockInv
  <2>3. faded \subseteq faded'
    BY Zenon DEF RollupHours
  <2>. QED
    BY <2>1, <2>2, <2>3
<1>3. ASSUME NEW h, NEW s \in FlowsOf(h), s < job.at PROVE s < now
  BY <1>3, Lengths DEF FlowsOf, ClockInv, RollupsTyped
<1>. QED
  BY <1>1, <1>2, <1>3, Zenon DEF flows, Arrived

(* A step that recomputes nothing, and does not begin or go on with the    *)
(* backfill, keeps the rows; time and flows only grow.                     *)
LEMMA RowsUntouched ==
    ASSUME RollupsTyped, ClosedInv, UNCHANGED <<hourly, closed, faded>>,
           now' \in Nat, now <= now', Arrived \subseteq Arrived',
           job'.pc # "rest" => job.pc # "rest" /\ job'.at = job.at,
           job'.pc = "backfill" => job.pc = "backfill" /\ job'.cur = job.cur
    PROVE  ClosedInv'
<1>1. ASSUME NEW h, NEW s \in FlowsOf(h), s < now PROVE s < now'
  BY <1>1, Lengths DEF FlowsOf, RollupsTyped
<1>2. \A h \in closed' : (h \in faded' \/ hourly'[h] = FlowsOf(h)) /\ FlowsOf(h) \subseteq Arrived'
  BY DEF ClosedInv
<1>3. \A h \in closed' : \A s \in FlowsOf(h) : s < now'
  BY <1>1 DEF ClosedInv
<1>4. job'.pc # "rest" => \A h \in closed' : \A s \in FlowsOf(h) : s < job'.at
  BY Zenon DEF ClosedInv
<1>5. job'.pc = "backfill" => OnBoundary(job'.cur, DayLen)
  BY Zenon DEF ClosedInv
<1>. QED
  BY <1>2, <1>3, <1>4, <1>5, Zenon DEF ClosedInv

(* Every step keeps the rows of the closed hours. *)
LEMMA StepClosed ==
    ASSUME RollupsTyped, RollupsTyped', ClockInv, ClockInv', ClosedInv, [RollupsNext]_rollupVars
    PROVE  ClosedInv'
<1>0. now' \in Nat /\ now <= now' /\ now \in Nat
  BY StepClock DEF RollupsTyped
<1>1. ASSUME (\E s \in Slots : Arrive(s)) \/ Tick \/ Retention \/ UNCHANGED rollupVars PROVE ClosedInv'
  <2>1. UNCHANGED <<hourly, closed, faded, job>> /\ Arrived \subseteq Arrived'
    BY <1>1 DEF Arrive, Tick, Retention, rollupVars, flows, Arrived, tables, settings, history
  <2>. QED
    BY <1>0, <2>1, RowsUntouched
<1>2. ASSUME StartJob PROVE ClosedInv'
  <2>1. UNCHANGED <<hourly, closed, faded, now, flows, Arrived>>
    BY <1>2 DEF StartJob, flows, Arrived, tables, settings, history
  <2>2. job'.at = now /\ job'.cur = (now - Reach) - ((now - Reach) % DayLen)
    BY <1>2, Started
  <2>3. OnBoundary(job'.cur, DayLen)
    <3>1. now - Reach \in Int /\ DayLen \in Nat \ {0}
      BY Lengths DEF RollupsTyped
    <3>2. OnBoundary((now - Reach) - ((now - Reach) % DayLen), DayLen)
      BY <3>1, CutDown, Zenon
    <3>. QED
      BY <2>2, <3>2, Zenon
  <2>. QED
    BY <2>1, <2>2, <2>3, Zenon DEF ClosedInv
<1>3. ASSUME Backfill PROVE ClosedInv'
  <2>1. job.pc = "backfill" /\ UNCHANGED <<now, flows, Arrived>> /\ OnBoundary(job.cur, DayLen) /\ job.cur \in Int
    BY <1>3 DEF Backfill, flows, Arrived, ClosedInv, RollupsTyped
  <2>2. PICK to \in Int : to = job.cur + DayLen /\ OnBoundary(to, DayLen)
    BY <2>1, Lengths, NextBoundary
  <2>3. CASE RollupHours(job.cur, job.cur + DayLen) /\ job' = [job EXCEPT !.cur = job.cur + DayLen]
    <3>1. RollupHours(job.cur, to) /\ job' = [job EXCEPT !.cur = to]
      BY <2>2, <2>3, Zenon
    <3>2. OnBoundary(to, HourLen)
      BY <2>2, DayOnHour
    <3>3. ASSUME NEW h \in closed
          PROVE  (\A s \in FlowsOf(h) : s < to) \/ (\A s \in FlowsOf(h) : s >= to)
      <4>1. FlowsOf(h) \subseteq Nat
        BY Lengths DEF FlowsOf
      <4>. QED
        BY <2>2, <3>2, <4>1, HourIsWhole
    <3>4. /\ \A h \in closed' : (h \in faded' \/ hourly'[h] = FlowsOf(h)) /\ FlowsOf(h) \subseteq Arrived'
          /\ \A h \in closed' : \A s \in FlowsOf(h) : s < now' /\ s < job.at
      BY <2>1, <2>2, <3>1, <3>3, RowsKept
    <3>5. job'.pc = "backfill" /\ job'.at = job.at /\ job'.cur = to
      BY <2>1, <2>2, <3>1, Stage
    <3>. QED
      BY <2>2, <3>4, <3>5, Zenon DEF ClosedInv
  <2>4. CASE UNCHANGED <<hourly, closed, faded>> /\ (EndJob \/ Goto("flag"))
    <3>1. job'.pc # "rest" => job'.pc = "flag" /\ job'.at = job.at
      BY <2>4, Stage DEF Stages
    <3>. QED
      BY <1>0, <2>1, <2>4, <3>1, RowsUntouched
  <2>. QED
    BY <1>3, <2>3, <2>4 DEF Backfill
<1>4. ASSUME Recompute PROVE ClosedInv'
  <2>1. job.pc = "hours" /\ UNCHANGED <<now, flows, Arrived>>
    BY <1>4 DEF Recompute, flows, Arrived
  <2>2. PICK from \in Int : from = job.at - LookBack
    BY Lengths DEF RollupsTyped
  <2>3. CASE RollupHours(job.at - LookBack, job.at) /\ Goto("readcursor")
    <3>1. RollupHours(from, job.at) /\ job.at \in Int
      BY <2>2, <2>3 DEF RollupsTyped
    <3>2. \A h \in closed : \A s \in FlowsOf(h) : s < job.at
      BY <2>1 DEF ClosedInv
    <3>3. /\ \A h \in closed' : (h \in faded' \/ hourly'[h] = FlowsOf(h)) /\ FlowsOf(h) \subseteq Arrived'
          /\ \A h \in closed' : \A s \in FlowsOf(h) : s < now' /\ s < job.at
      BY <2>1, <3>1, <3>2, RowsKept
    <3>4. job'.pc = "readcursor" /\ job'.at = job.at
      BY <2>3, Stage DEF Stages
    <3>. QED
      BY <3>3, <3>4 DEF ClosedInv
  <2>4. CASE UNCHANGED <<hourly, closed, faded>> /\ EndJob
    <3>1. job'.pc = "rest"
      BY <2>4, Stage
    <3>. QED
      BY <1>0, <2>1, <2>4, <3>1, RowsUntouched
  <2>. QED
    BY <1>4, <2>3, <2>4 DEF Recompute
<1>5. ASSUME SaveFlag \/ ReadCursor \/ AddPeers \/ SaveCursor \/ PruneRollups \/ StampPrune \/ RollupsRestart
      PROVE  ClosedInv'
  <2>1. UNCHANGED <<hourly, closed, faded, Arrived, now>> /\ job.pc # "rest"
    BY <1>5 DEF SaveFlag, ReadCursor, AddPeers, SaveCursor, PruneRollups, StampPrune, RollupsRestart,
       flows, Arrived, tables, settings, history
  <2>2. \/ EndJob \/ \E p \in Stages \ {"rest", "backfill"} : job'.pc = p /\ job'.at = job.at
    <3>1. CASE ReadCursor
      <4>1. cursor \in Int /\ Most(0, job.at - Reach) \in Int
        BY Lengths DEF Most, RollupsTyped
      <4>. QED
        BY <3>1, <4>1, Stage DEF ReadCursor, Stages
    <3>2. CASE AddPeers
      <4>1. Least(job.cur + Chunk, PeersEnd) \in Int
        BY Lengths DEF Least, PeersEnd, RollupsTyped
      <4>. QED
        BY <3>2, <4>1, Stage DEF AddPeers, Stages
    <3>3. CASE SaveFlag \/ SaveCursor \/ PruneRollups \/ StampPrune \/ RollupsRestart
      <4>1. Goto("hours") \/ Goto("peers") \/ Goto("stamp") \/ EndJob
        BY <3>3, Zenon DEF SaveFlag, SaveCursor, PruneRollups, StampPrune, RollupsRestart
      <4>. QED
        BY <4>1, Stage DEF Stages
    <3>. QED
      BY <1>5, <3>1, <3>2, <3>3
  <2>3. job'.pc # "backfill" /\ (job'.pc # "rest" => job'.at = job.at)
    BY <2>2, Stage
  <2>. QED
    BY <1>0, <2>1, <2>3, RowsUntouched
<1>. QED
  BY <1>1, <1>2, <1>3, <1>4, <1>5 DEF RollupsNext, JobStep

(* ClosedHoursExact: what an hour's row says once the hour was recomputed  *)
(* after its last flow is right for good: no later recomputation that      *)
(* begins within an hour, and no second backfill, replaces it by less,     *)
(* unless the retention had reached the hour by then.                      *)
THEOREM ClosedHoursStay == RollupsSpec => []ClosedHoursExact
<1>1. RollupsInit => RollupsTyped /\ ClockInv /\ ClosedInv
  <2>1. RollupsInit => ClosedInv
    BY DEF RollupsInit, ClosedInv, Resting
  <2>. QED
    BY <2>1, InitTyped
<1>2. RollupsTyped /\ ClockInv /\ ClosedInv /\ [RollupsNext]_rollupVars => (RollupsTyped /\ ClockInv /\ ClosedInv)'
  BY StepTyped, StepClock, StepClosed
<1>3. ClosedInv => ClosedHoursExact
  BY DEF ClosedInv, ClosedHoursExact
<1>. QED
  BY <1>1, <1>2, <1>3, PTL DEF RollupsSpec
---------------------------------------------------------------------------
(* What the retention reaches *)

(* A backfill begins within a day of its reach, on a whole hour. *)
ReachInv == job.pc = "backfill" => job.cur > job.at - Reach - DayLen /\ OnBoundary(job.cur, DayLen)

(* A window that begins after what the retention deletes, or on a whole    *)
(* hour no earlier, holds no hour that fades.                              *)
LEMMA NotReached ==
    ASSUME RollupsTyped, NEW from \in Int, NEW to \in Int, NEW h \in HoursIn(from, to),
           \/ now - Keep <= from - (HourLen - 1)
           \/ OnBoundary(from, HourLen) /\ now - Keep <= from
    PROVE  ~Fading(h)
<1>. USE Lengths
<1>1. PICK r \in Int : r = from % HourLen /\ 0 <= r /\ r < HourLen
  BY DivMod
<1>2. PICK b \in Int : b = from - r /\ OnBoundary(b, HourLen)
  BY <1>1, CutDown
<1>3. b >= now - Keep
  <2>1. CASE now - Keep <= from - (HourLen - 1)
    BY <1>1, <1>2, <2>1 DEF RollupsTyped
  <2>2. CASE OnBoundary(from, HourLen) /\ now - Keep <= from
    <3>1. r = 0
      BY <1>1, <2>2, Zenon DEF OnBoundary
    <3>. QED
      BY <1>2, <2>2, <3>1
  <2>. QED
    BY <2>1, <2>2
<1>4. PICK s \in FlowsOf(h) : s >= b
  <2>1. PICK s \in FlowsOf(h) : s >= WindowStart(from)
    BY DEF HoursIn
  <2>2. WindowStart(from) = Most(0, b) /\ s \in Nat
    BY <1>1, <1>2 DEF WindowStart, FlowsOf
  <2>. QED
    BY <1>2, <2>1, <2>2 DEF Most
<1>5. ASSUME NEW u \in FlowsOf(h) PROVE ~(u < now - Keep)
  <2>1. u >= b
    BY <1>2, <1>4, HourIsWhole
  <2>. QED
    BY <1>2, <1>3, <2>1 DEF FlowsOf, RollupsTyped
<1>. QED
  BY <1>5, Zenon DEF Fading

(* Every step keeps where the backfill may be. *)
LEMMA StepReach ==
    ASSUME RollupsTyped, ReachInv, [RollupsNext]_rollupVars
    PROVE  ReachInv'
<1>. USE Lengths
<1>1. ASSUME UNCHANGED job PROVE ReachInv'
  BY <1>1, Zenon DEF ReachInv
<1>2. ASSUME StartJob PROVE ReachInv'
  <2>1. PICK t \in Int : t = now - Reach
    BY DEF RollupsTyped
  <2>2. job'.at = now /\ job'.cur = t - (t % DayLen)
    BY <1>2, <2>1, Started
  <2>3. PICK r \in Int : r = t % DayLen /\ r < DayLen
    BY DivMod
  <2>4. OnBoundary(t - (t % DayLen), DayLen)
    BY CutDown
  <2>5. PICK c \in Int : c = t - (t % DayLen) /\ OnBoundary(c, DayLen) /\ c > t - DayLen
    <3>1. t - r \in Int /\ t - r > t - DayLen
      BY <2>3
    <3>. QED
      BY <2>3, <2>4, <3>1, Zenon
  <2>. QED
    BY <2>1, <2>2, <2>5 DEF ReachInv, RollupsTyped
<1>3. ASSUME Backfill PROVE ReachInv'
  <2>1. job.pc = "backfill" /\ job.cur \in Int /\ job.at \in Nat
    BY <1>3 DEF Backfill, RollupsTyped
  <2>2. CASE job' = [job EXCEPT !.cur = job.cur + DayLen]
    <3>1. PICK c \in Int : c = job.cur + DayLen /\ OnBoundary(c, DayLen)
      BY <2>1, NextBoundary DEF ReachInv
    <3>2. job'.at = job.at /\ job'.cur = c
      BY <2>2, <3>1, Stage
    <3>. QED
      BY <2>1, <3>1, <3>2 DEF ReachInv
  <2>3. CASE EndJob \/ Goto("flag")
    BY <2>3, Stage DEF Stages, ReachInv
  <2>. QED
    BY <1>3, <2>2, <2>3 DEF Backfill
<1>4. ASSUME job'.pc # "backfill" PROVE ReachInv'
  BY <1>4 DEF ReachInv
<1>5. ASSUME SaveFlag \/ Recompute \/ ReadCursor \/ AddPeers \/ SaveCursor \/ PruneRollups \/ StampPrune \/ RollupsRestart
      PROVE  job'.pc # "backfill"
  <2>1. CASE ReadCursor
    <3>1. cursor \in Int /\ Most(0, job.at - Reach) \in Int
      BY DEF Most, RollupsTyped
    <3>. QED
      BY <2>1, <3>1, Stage DEF ReadCursor, Stages
  <2>2. CASE AddPeers
    <3>1. Least(job.cur + Chunk, PeersEnd) \in Int
      BY DEF Least, PeersEnd, RollupsTyped
    <3>. QED
      BY <2>2, <3>1, Stage DEF AddPeers, Stages
  <2>3. CASE SaveFlag \/ Recompute \/ SaveCursor \/ PruneRollups \/ StampPrune \/ RollupsRestart
    <3>1. Goto("hours") \/ Goto("readcursor") \/ Goto("peers") \/ Goto("stamp") \/ EndJob
      BY <2>3, Zenon DEF SaveFlag, Recompute, SaveCursor, PruneRollups, StampPrune, RollupsRestart
    <3>. QED
      BY <3>1, Stage DEF Stages
  <2>. QED
    BY <1>5, <2>1, <2>2, <2>3
<1>6. ASSUME (\E s \in Slots : Arrive(s)) \/ Tick \/ Retention \/ UNCHANGED rollupVars PROVE UNCHANGED job
  BY <1>6 DEF Arrive, Tick, Retention, rollupVars
<1>. QED
  BY <1>1, <1>2, <1>3, <1>4, <1>5, <1>6 DEF RollupsNext, JobStep

(* FadesOnlyBehind: a recomputation of the two hours loses nothing to the  *)
(* retention unless the job is late by what is kept less those two hours   *)
(* and the one they begin in; a backfill, unless it is late by what is     *)
(* kept less its reach and a day: always, where the retention is shorter.  *)
THEOREM PromptJobsFadeNothing == RollupsSpec => FadesOnlyBehind
<1>1. RollupsInit => RollupsTyped /\ ReachInv
  <2>1. RollupsInit => job.pc = "rest"
    BY DEF RollupsInit, Resting
  <2>2. RollupsInit => ReachInv
    BY <2>1 DEF ReachInv
  <2>. QED
    BY <2>2, InitTyped
<1>2. RollupsTyped /\ ReachInv /\ [RollupsNext]_rollupVars => (RollupsTyped /\ ReachInv)'
  BY StepTyped, StepReach
<1>. DEFINE Late == \/ Recompute /\ now - job.at > Keep - (LookBack + HourLen - 1)
                    \/ Backfill /\ now - job.at > Keep - (Reach + DayLen - 1)
<1>3. RollupsTyped /\ ReachInv /\ [RollupsNext]_rollupVars => [faded' # faded => Late]_rollupVars
  <2>. SUFFICES ASSUME RollupsTyped, ReachInv, RollupsNext, faded' # faded PROVE Late
    BY DEF rollupVars, history
  <2>. USE Lengths
  <2>1. Backfill \/ Recompute
    BY DEF RollupsNext, JobStep, Arrive, Tick, Retention, StartJob, SaveFlag, ReadCursor, AddPeers, SaveCursor,
           PruneRollups, StampPrune, RollupsRestart, history
  <2>2. ASSUME NEW from \in Int, NEW to \in Int, RollupHours(from, to) PROVE \E h \in HoursIn(from, to) : Fading(h)
    BY <2>2 DEF RollupHours
  <2>3. now \in Nat /\ job.at \in Nat /\ job.cur \in Int
    BY DEF RollupsTyped
  <2>4. CASE Recompute
    <3>1. PICK from \in Int : from = job.at - LookBack
      BY <2>3
    <3>2. RollupHours(from, job.at)
      BY <2>4, <3>1, Zenon DEF Recompute
    <3>3. PICK h \in HoursIn(from, job.at) : Fading(h)
      BY <2>2, <2>3, <3>2
    <3>4. ~(now - Keep <= from - (HourLen - 1))
      BY <2>3, <3>3, NotReached
    <3>5. now - job.at > Keep - (LookBack + HourLen - 1)
      BY <2>3, <3>1, <3>4
    <3>. QED
      BY <2>4, <3>5
  <2>5. CASE Backfill
    <3>1. PICK to \in Int : to = job.cur + DayLen
      BY <2>3
    <3>2. job.pc = "backfill" /\ RollupHours(job.cur, to)
      BY <2>5, <3>1, Zenon DEF Backfill
    <3>3. PICK h \in HoursIn(job.cur, to) : Fading(h)
      BY <2>2, <2>3, <3>2
    <3>4. OnBoundary(job.cur, HourLen) /\ job.cur > job.at - Reach - DayLen
      BY <2>3, <3>2, DayOnHour DEF ReachInv
    <3>5. ~(now - Keep <= job.cur)
      BY <2>3, <3>3, <3>4, NotReached
    <3>6. now - job.at > Keep - (Reach + DayLen - 1)
      BY <2>3, <3>4, <3>5
    <3>. QED
      BY <2>5, <3>6
  <2>. QED
    BY <2>1, <2>4, <2>5
<1>. QED
  BY <1>1, <1>2, <1>3, PTL DEF RollupsSpec, FadesOnlyBehind
---------------------------------------------------------------------------
(* No gap *)

(* What covers a stretch covers a later beginning of it, and goes on doing *)
(* so as more hours are closed.                                            *)
LEMMA CoverGrows ==
    ASSUME NEW from \in Int, NEW from2 \in Int, NEW to \in Int, NEW to2 \in Int, NEW at \in Int,
           from <= from2, to2 <= to \/ at <= to, Covered(from, to, at), Settled \subseteq Settled'
    PROVE  Covered(from2, to2, at)'
<1>. SUFFICES ASSUME NEW h \in Hours, \E s \in FlowsOf(h) : s >= from2,
                     \A s \in FlowsOf(h) : s < to2 /\ s + Lag < at
              PROVE  h \in Settled
  BY DEF Covered
<1>1. FlowsOf(h) \subseteq Nat /\ Lag \in Nat
  BY Lengths DEF FlowsOf
<1>2. (\E s \in FlowsOf(h) : s >= from) /\ \A s \in FlowsOf(h) : s < to /\ s + Lag < at
  BY <1>1
<1>. QED
  BY <1>2 DEF Covered

(* A recomputation closes every hour in its window that is over by more    *)
(* than the lag, and that the retention has not reached.                   *)
LEMMA WindowCloses ==
    ASSUME RollupsTyped, ClockInv, NEW from \in Int, NEW to \in Int, RollupHours(from, to),
           NEW h \in Hours, \E s \in FlowsOf(h) : s >= from,
           \A s \in FlowsOf(h) : s < to /\ s + Lag < job.at
    PROVE  h \in Settled'
<1>1. FlowsOf(h) \subseteq Nat /\ FlowsOf(h) \subseteq Slots /\ Lag \in Nat /\ job.at \in Nat /\ now \in Nat
  BY Lengths DEF FlowsOf, RollupsTyped
<1>2. h \in HoursIn(from, to)
  <2>1. PICK b \in Int : b = from - (from % HourLen) /\ b <= from
    BY CutDown, Lengths
  <2>2. PICK s \in FlowsOf(h) : s >= from /\ s < to
    OBVIOUS
  <2>3. s >= WindowStart(from)
    BY <1>1, <2>1, <2>2 DEF WindowStart, Most
  <2>. QED
    BY <2>2, <2>3 DEF HoursIn
<1>3. FlowsOf(h) \subseteq Arrived
  <2>. SUFFICES ASSUME NEW s \in FlowsOf(h) PROVE s < now - Lag
    BY <1>1 DEF ClockInv
  <2>. QED
    BY <1>1 DEF ClockInv
<1>4. \A s \in FlowsOf(h) : s < Least(to, job.at)
  BY <1>1 DEF Least
<1>5. CASE FlowsOf(h) \subseteq acct
  BY <1>2, <1>4, <1>5, Zenon DEF RollupHours, Settled
<1>6. CASE \E s \in FlowsOf(h) : s \in gone
  <2>1. Fading(h)
    BY <1>6 DEF Fading, ClockInv
  <2>. QED
    BY <1>2, <2>1, Zenon DEF RollupHours, Settled
<1>. QED
  BY <1>3, <1>5, <1>6 DEF Arrived

(* When the recomputation is done in time, it takes over where the last    *)
(* one ended: an hour that was not yet covered then lies within the        *)
(* window now.                                                             *)
LEMMA TakesOver ==
    ASSUME RollupsTyped, lastHours # Never, ShortPause, NEW at \in Nat, at = job.at, Settled \subseteq Settled',
           Covered(at - LookBack, at, at)', NEW from \in Int, Covered(from, lastHours, lastHours)
    PROVE  Covered(from, at, at)'
<1>. SUFFICES ASSUME NEW h \in Hours, \E s \in FlowsOf(h) : s >= from,
                     \A s \in FlowsOf(h) : s < at /\ s + Lag < at
              PROVE  h \in Settled'
  BY DEF Covered
<1>1. /\ FlowsOf(h) \subseteq Nat /\ Lag \in Nat /\ LookBack \in Nat /\ lastHours \in Nat
      /\ at - lastHours <= LookBack - Lag
  BY Lengths DEF FlowsOf, RollupsTyped, ShortPause
<1>2. CASE \A s \in FlowsOf(h) : s + Lag < lastHours
  <2>1. \A s \in FlowsOf(h) : s < lastHours /\ s + Lag < lastHours
    BY <1>1, <1>2
  <2>. QED
    BY <2>1 DEF Covered
<1>3. CASE \E s \in FlowsOf(h) : s + Lag >= lastHours
  <2>1. PICK u \in FlowsOf(h) : u + Lag >= lastHours
    BY <1>3
  <2>2. u >= at - LookBack
    BY <1>1, <2>1
  <2>. QED
    BY <2>2 DEF Covered
<1>. QED
  BY <1>1, <1>2, <1>3

(* A recomputation or backfill that is done leaves no gap, if none was     *)
(* there and the pause was short.                                          *)
LEMMA HoursDoneCovers ==
    ASSUME RollupsTyped, GapInv, HoursDone, Settled \subseteq Settled', UNCHANGED origin,
           NEW at \in Nat, at = job.at, lastHours <= at,
           Covered(at - LookBack, at, at)',
           lastHours = Never => Covered(at - Reach, at, at)'
    PROVE  /\ lastHours' = at
           /\ regular' => Covered(at - Reach, at, at)'
           /\ regular' /\ origin' # Never => Covered(origin, at, at)'
<1>. USE Lengths
<1>1. lastHours' = at
  BY DEF HoursDone
<1>2. regular' => regular /\ (lastHours = Never \/ ShortPause)
  BY Zenon DEF HoursDone
<1>3. ASSUME lastHours = Never PROVE origin' = Never
  BY <1>3 DEF GapInv
<1>4. ASSUME regular', lastHours # Never
      PROVE  Covered(at - Reach, at, at)' /\ (origin' # Never => Covered(origin, at, at)')
  <2>1. ShortPause /\ regular
    BY <1>2, <1>4, Zenon
  <2>2. lastHours \in Nat
    BY <1>4 DEF RollupsTyped
  <2>3. PICK from \in Int : from = at - Reach
    OBVIOUS
  <2>4. PICK was \in Int : was = lastHours - Reach /\ was <= from
    BY <2>2, <2>3
  <2>5. Covered(was, lastHours, lastHours)
    BY <1>4, <2>1, <2>4, Zenon DEF GapInv
  <2>6. Covered(was, at, at)'
    BY <1>4, <2>1, <2>5, TakesOver
  <2>7. ASSUME NEW h \in Hours, \E s \in FlowsOf(h) : s >= from,
               \A s \in FlowsOf(h) : s < at /\ s + Lag < at
        PROVE  h \in Settled'
    <3>1. FlowsOf(h) \subseteq Nat
      BY DEF FlowsOf
    <3>2. \E s \in FlowsOf(h) : s >= was
      BY <2>4, <2>7, <3>1
    <3>. QED
      BY <2>6, <2>7, <3>2 DEF Covered
  <2>8. Covered(at - Reach, at, at)'
    BY <2>3, <2>7 DEF Covered
  <2>9. ASSUME origin' # Never PROVE Covered(origin, at, at)'
    <3>1. origin # Never /\ origin \in Int
      BY <2>9 DEF RollupsTyped
    <3>2. Covered(origin, lastHours, lastHours)
      BY <1>4, <2>1, <3>1, Zenon DEF GapInv
    <3>3. PICK o \in Int : o = origin
      BY <3>1
    <3>4. Covered(o, at, at)'
      BY <1>4, <2>1, <3>2, <3>3, TakesOver
    <3>. QED
      BY <3>3, <3>4 DEF Covered
  <2>. QED
    BY <2>8, <2>9
<1>. QED
  BY <1>1, <1>3, <1>4, Zenon

(* A step that completes no recomputation or backfill keeps the coverage. *)
LEMMA GapUntouched ==
    ASSUME RollupsTyped, GapInv, UNCHANGED <<lastHours, regular, origin, closed, faded>>,
           now' \in Nat, now <= now',
           backfilled' => backfilled \/ job.pc \notin {"rest", "backfill"},
           job'.pc # "rest" => job.pc # "rest" /\ job'.at = job.at,
           job'.pc = "backfill" => job.pc = "backfill" /\ job'.cur = job.cur,
           job'.pc \notin {"rest", "backfill"} => job.pc \notin {"rest", "backfill"},
           job'.pc = "readcursor" => job.pc = "readcursor"
    PROVE  GapInv'
<1>1. job'.pc = "backfill" => Covered(job.at - Reach, job.cur, job.at)' 
  BY Zenon DEF GapInv, Covered, Settled
<1>2. regular' /\ lastHours' # Never => Covered(lastHours - Reach, lastHours, lastHours)'
  BY Zenon DEF GapInv, Covered, Settled
<1>3. regular' /\ lastHours' # Never /\ origin' # Never => Covered(origin, lastHours, lastHours)'
  BY Zenon DEF GapInv, Covered, Settled
<1>4. lastHours' <= now'
  BY Lengths DEF GapInv, RollupsTyped
<1>5. /\ origin' # Never => lastHours' # Never
      /\ backfilled' \/ job'.pc \notin {"rest", "backfill"} => lastHours' # Never
      /\ job'.pc = "readcursor" => lastHours' = job'.at
      /\ job'.pc # "rest" => lastHours' <= job'.at
  BY "rest" # "readcursor", Zenon DEF GapInv
<1>. QED
  BY <1>1, <1>2, <1>3, <1>4, <1>5, Zenon DEF GapInv

(* A job that starts with the backfill has covered nothing yet, and needs  *)
(* nothing: its first chunk begins before its reach.                       *)
LEMMA GapStartJob ==
    ASSUME RollupsTyped, RollupsTyped', GapInv, StartJob
    PROVE  GapInv'
<1>. USE Lengths
<1>1. /\ job'.pc \in {"hours", "backfill"} /\ job'.at = now /\ (job'.pc = "hours" => backfilled)
      /\ job'.cur = (now - Reach) - ((now - Reach) % DayLen)
  BY Started
<1>2. UNCHANGED <<now, lastHours, regular, origin, closed, faded, backfilled>>
  BY DEF StartJob, tables, settings, history
<1>3. job'.cur <= now - Reach /\ job'.cur \in Int
  <2>1. now - Reach \in Int
    BY DEF RollupsTyped
  <2>2. PICK c \in Int : c = (now - Reach) - ((now - Reach) % DayLen) /\ c <= now - Reach
    BY <2>1, CutDown, Zenon
  <2>. QED
    BY <1>1, <2>2
<1>4. Covered(job.at - Reach, job.cur, job.at)'
  <2>. SUFFICES ASSUME NEW h \in Hours,
                       \E s \in FlowsOf(h) : s >= job'.at - Reach,
                       \A s \in FlowsOf(h) : s < job'.cur /\ s + Lag < job'.at
                PROVE  FALSE
    BY DEF Covered
  <2>1. PICK s \in FlowsOf(h) : s >= job'.at - Reach
    OBVIOUS
  <2>2. s \in Nat /\ s >= job'.at - Reach /\ s < job'.cur
    BY <2>1 DEF FlowsOf
  <2>3. PICK c \in Int : c = job'.cur /\ c <= now - Reach
    BY <1>3
  <2>4. s >= now - Reach /\ s < c
    BY <1>1, <2>2, <2>3, Zenon
  <2>. QED
    BY <2>2, <2>3, <2>4 DEF RollupsTyped
<1>5. regular' /\ lastHours' # Never => Covered(lastHours - Reach, lastHours, lastHours)'
  BY <1>2, Zenon DEF GapInv, Covered, Settled
<1>6. regular' /\ lastHours' # Never /\ origin' # Never => Covered(origin, lastHours, lastHours)'
  BY <1>2, Zenon DEF GapInv, Covered, Settled
<1>7. /\ origin' # Never => lastHours' # Never
      /\ backfilled' => lastHours' # Never
      /\ lastHours' <= now' /\ lastHours' <= job'.at
  BY <1>1, <1>2, Zenon DEF GapInv
<1>8. (job'.pc \notin {"rest", "backfill"} => lastHours' # Never) /\ job'.pc # "readcursor"
  <2>1. job'.pc = "hours" => lastHours' # Never
    BY <1>1, <1>2, Zenon DEF GapInv
  <2>. QED
    BY <1>1, <2>1
<1>. QED
  BY <1>4, <1>5, <1>6, <1>7, <1>8, Zenon DEF GapInv

(* A chunk of the backfill: an hour that ends before it was covered, one   *)
(* that reaches into it or beyond is closed now.                           *)
LEMMA ChunkCovers ==
    ASSUME RollupsTyped, ClockInv, NEW from \in Int, NEW cur \in Int, NEW to \in Int, NEW at \in Nat,
           at = job.at, Covered(from, cur, at), RollupHours(cur, to)
    PROVE  Covered(from, to, at)'
<1>. SUFFICES ASSUME NEW h \in Hours, \E s \in FlowsOf(h) : s >= from,
                     \A s \in FlowsOf(h) : s < to /\ s + Lag < at
              PROVE  h \in Settled'
  BY DEF Covered
<1>1. FlowsOf(h) \subseteq Nat
  BY Lengths DEF FlowsOf
<1>2. CASE \A s \in FlowsOf(h) : s < cur
  BY <1>2, Zenon DEF Covered, Settled, RollupHours
<1>3. CASE \E s \in FlowsOf(h) : s >= cur
  BY <1>3, WindowCloses
<1>. QED
  BY <1>1, <1>2, <1>3

(* The backfill covers chunk by chunk, and when it is done it counts as a  *)
(* recomputation.                                                          *)
LEMMA GapBackfill ==
    ASSUME RollupsTyped, RollupsTyped', ClockInv, GapInv, Backfill
    PROVE  GapInv'
<1>. USE Lengths
<1>1. /\ job.pc = "backfill" /\ UNCHANGED <<now, origin, backfilled>> /\ job.cur \in Int /\ job.at \in Nat
      /\ Covered(job.at - Reach, job.cur, job.at) /\ lastHours <= job.at
  <2>1. job.pc = "backfill" /\ UNCHANGED <<now, origin, backfilled>> /\ job.cur \in Int /\ job.at \in Nat
    BY DEF Backfill, settings, RollupsTyped
  <2>. QED
    BY <2>1 DEF GapInv
<1>2. PICK cur \in Int : cur = job.cur
  BY <1>1
<1>3. PICK at \in Nat : at = job.at
  BY <1>1
<1>4. PICK from \in Int : from = at - Reach
  OBVIOUS
<1>5. Covered(from, cur, at) /\ at <= now
  BY <1>1, <1>2, <1>3, <1>4, Zenon DEF ClockInv
<1>6. now' \in Nat /\ now <= now'
  BY <1>1 DEF RollupsTyped
<1>7. CASE RollupHours(job.cur, job.cur + DayLen) /\ job' = [job EXCEPT !.cur = job.cur + DayLen]
           /\ UNCHANGED <<lastHours, regular>>
  <2>1. PICK to \in Int : to = job.cur + DayLen
    BY <1>1
  <2>2. RollupHours(cur, to) /\ job' = [job EXCEPT !.cur = to]
    BY <1>2, <1>7, <2>1, Zenon
  <2>3. job'.pc = "backfill" /\ job'.at = at /\ job'.cur = to
    BY <1>1, <1>3, <2>2, Stage
  <2>4. Covered(from, to, at)'
    BY <1>3, <1>5, <2>2, ChunkCovers
  <2>5. Covered(job.at - Reach, job.cur, job.at)'
    BY <1>4, <2>3, <2>4, Zenon DEF Covered
  <2>6. Settled \subseteq Settled'
    BY <2>2, Zenon DEF RollupHours, Settled
  <2>7. regular' /\ lastHours' # Never => Covered(lastHours - Reach, lastHours, lastHours)'
    BY <1>7, <2>6, Zenon DEF GapInv, Covered, Settled
  <2>8. regular' /\ lastHours' # Never /\ origin' # Never => Covered(origin, lastHours, lastHours)'
    BY <1>1, <1>7, <2>6, Zenon DEF GapInv, Covered, Settled
  <2>9. /\ origin' # Never => lastHours' # Never
        /\ backfilled' => lastHours' # Never
        /\ lastHours' <= now' /\ lastHours' <= job'.at
    BY <1>1, <1>3, <1>7, <2>3, Zenon DEF GapInv
  <2>10. "backfill" # "readcursor"
    OBVIOUS
  <2>. QED
    BY <2>3, <2>5, <2>7, <2>8, <2>9, <2>10, Zenon DEF GapInv
<1>8. CASE EndJob /\ UNCHANGED <<closed, faded, lastHours, regular>>
  <2>1. job'.pc = "rest"
    BY <1>8, Stage
  <2>. QED
    BY <1>1, <1>6, <1>8, <2>1, GapUntouched
<1>9. CASE job.cur >= job.at /\ HoursDone /\ Goto("flag") /\ UNCHANGED <<closed, faded>>
  <2>1. job'.pc = "flag" /\ job'.at = at
    BY <1>3, <1>9, Stage DEF Stages
  <2>0. Settled \subseteq Settled'
    BY <1>9 DEF Settled
  <2>2. ASSUME NEW f \in Int, from <= f PROVE Covered(f, at, at)'
    BY <1>2, <1>3, <1>5, <1>9, <2>0, <2>2, CoverGrows
  <2>3. Covered(at - Reach, at, at)' /\ Covered(at - LookBack, at, at)'
    <3>1. PICK f \in Int : f = at - LookBack
      OBVIOUS
    <3>2. Covered(f, at, at)' /\ Covered(from, at, at)'
      BY <1>4, <2>2, <3>1
    <3>. QED
      BY <1>4, <3>1, <3>2, Zenon
  <2>4. /\ lastHours' = at
        /\ regular' => Covered(at - Reach, at, at)'
        /\ regular' /\ origin' # Never => Covered(origin, at, at)'
    BY <1>1, <1>3, <1>9, <2>0, <2>3, HoursDoneCovers
  <2>5. regular' => Covered(lastHours - Reach, lastHours, lastHours)'
    BY <2>4, Zenon DEF Covered
  <2>6. regular' /\ origin' # Never => Covered(origin, lastHours, lastHours)'
    BY <2>4, Zenon DEF Covered
  <2>7. lastHours' # Never /\ lastHours' <= now' /\ lastHours' <= job'.at
    BY <1>1, <1>5, <2>1, <2>4 DEF RollupsTyped
  <2>8. "flag" # "readcursor" /\ "flag" # "backfill"
    OBVIOUS
  <2>. QED
    BY <2>1, <2>5, <2>6, <2>7, <2>8, Zenon DEF GapInv
<1>. QED
  BY <1>7, <1>8, <1>9, Zenon DEF Backfill

(* The recomputation of the two hours takes over from the last one. *)
LEMMA GapRecompute ==
    ASSUME RollupsTyped, RollupsTyped', ClockInv, GapInv, Recompute
    PROVE  GapInv'
<1>. USE Lengths
<1>1. /\ job.pc = "hours" /\ UNCHANGED <<now, origin, backfilled>> /\ job.at \in Nat
      /\ lastHours # Never /\ lastHours <= job.at
  BY DEF Recompute, settings, RollupsTyped, GapInv
<1>2. now' \in Nat /\ now <= now'
  BY <1>1 DEF RollupsTyped
<1>3. PICK at \in Nat : at = job.at
  BY <1>1
<1>4. CASE RollupHours(job.at - LookBack, job.at) /\ HoursDone /\ Goto("readcursor")
  <2>1. job'.pc = "readcursor" /\ job'.at = at
    BY <1>3, <1>4, Stage DEF Stages
  <2>2. PICK from \in Int : from = at - LookBack
    OBVIOUS
  <2>3. RollupHours(from, at)
    BY <1>3, <1>4, <2>2, Zenon
  <2>4. Covered(from, at, at)'
    BY <1>3, <2>3, WindowCloses DEF Covered
  <2>5. Settled \subseteq Settled' /\ Covered(at - LookBack, at, at)'
    BY <2>2, <2>3, <2>4, Zenon DEF RollupHours, Settled
  <2>6. /\ lastHours' = at
        /\ regular' => Covered(at - Reach, at, at)'
        /\ regular' /\ origin' # Never => Covered(origin, at, at)'
    BY <1>1, <1>3, <1>4, <2>5, HoursDoneCovers
  <2>7. regular' => Covered(lastHours - Reach, lastHours, lastHours)'
    BY <2>6, Zenon DEF Covered
  <2>8. regular' /\ origin' # Never => Covered(origin, lastHours, lastHours)'
    BY <2>6, Zenon DEF Covered
  <2>9. at <= now
    BY <1>3 DEF ClockInv
  <2>10. lastHours' # Never /\ lastHours' <= now' /\ lastHours' <= job'.at /\ lastHours' = job'.at
    BY <1>1, <2>1, <2>6, <2>9
  <2>11. "readcursor" # "backfill"
    OBVIOUS
  <2>. QED
    BY <2>1, <2>7, <2>8, <2>10, <2>11, Zenon DEF GapInv
<1>5. CASE EndJob /\ UNCHANGED <<closed, faded, lastHours, regular>>
  <2>1. job'.pc = "rest"
    BY <1>5, Stage
  <2>. QED
    BY <1>1, <1>2, <1>5, <2>1, GapUntouched
<1>. QED
  BY <1>4, <1>5, Zenon DEF Recompute

(* The daily rollups begin where the job's own hours reach back to.        *)
LEMMA GapReadCursor ==
    ASSUME RollupsTyped, RollupsTyped', ClockInv, GapInv, ReadCursor
    PROVE  GapInv'
<1>. USE Lengths
<1>1. /\ job.pc = "readcursor" /\ job.at \in Nat /\ lastHours = job.at /\ lastHours # Never
      /\ UNCHANGED <<now, closed, faded, lastHours, regular, backfilled>>
  BY DEF ReadCursor, settings, RollupsTyped, GapInv
<1>2. PICK m \in Nat : m = Most(0, job.at - Reach) /\ m >= job.at - Reach
  BY <1>1 DEF Most
<1>3. job'.pc = "peers" /\ job'.at = job.at
  <2>1. cursor \in Int
    BY DEF RollupsTyped
  <2>2. job' = [job EXCEPT !.pc = "peers", !.cur = cursor] \/ job' = [job EXCEPT !.pc = "peers", !.cur = m]
    BY <1>2, Zenon DEF ReadCursor
  <2>3. PICK c \in Int : job' = [job EXCEPT !.pc = "peers", !.cur = c]
    <3>1. m \in Int
      BY <1>2
    <3>. QED
      BY <2>1, <2>2, <3>1, Zenon
  <2>. QED
    BY <2>3, Stage DEF Stages
<1>4. regular' /\ lastHours' # Never => Covered(lastHours - Reach, lastHours, lastHours)'
  BY <1>1, Zenon DEF GapInv, Covered, Settled
<1>5. regular' /\ lastHours' # Never /\ origin' # Never => Covered(origin, lastHours, lastHours)'
  <2>1. CASE origin' = origin
    BY <1>1, <2>1, Zenon DEF GapInv, Covered, Settled
  <2>2. CASE origin' = Most(0, job.at - Reach)
    <3>. SUFFICES ASSUME regular, NEW h \in Hours,
                         \E s \in FlowsOf(h) : s >= m,
                         \A s \in FlowsOf(h) : s < lastHours /\ s + Lag < lastHours
                  PROVE  h \in Settled
      BY <1>1, <1>2, <2>2, Zenon DEF Covered, Settled
    <3>1. Covered(lastHours - Reach, lastHours, lastHours)
      BY <1>1, Zenon DEF GapInv
    <3>2. FlowsOf(h) \subseteq Nat
      BY DEF FlowsOf
    <3>3. \E s \in FlowsOf(h) : s >= lastHours - Reach
      BY <1>1, <1>2, <3>2
    <3>. QED
      BY <3>1, <3>3, Zenon DEF Covered
  <2>. QED
    BY <2>1, <2>2, Zenon DEF ReadCursor
<1>6. lastHours' <= now' /\ lastHours' <= job'.at /\ lastHours' # Never
  BY <1>1, <1>3, Zenon DEF GapInv
<1>7. "peers" # "readcursor" /\ "peers" # "backfill"
  OBVIOUS
<1>. QED
  BY <1>3, <1>4, <1>5, <1>6, <1>7, Zenon DEF GapInv

(* Every step keeps the coverage. *)
LEMMA StepGap ==
    ASSUME RollupsTyped, RollupsTyped', ClockInv, ClockInv', GapInv, [RollupsNext]_rollupVars
    PROVE  GapInv'
<1>0. now' \in Nat /\ now <= now'
  BY StepClock DEF RollupsTyped
<1>1. ASSUME (\E s \in Slots : Arrive(s)) \/ Tick \/ Retention \/ UNCHANGED rollupVars PROVE GapInv'
  <2>1. UNCHANGED <<lastHours, regular, origin, closed, faded, backfilled, job>>
    BY <1>1 DEF Arrive, Tick, Retention, rollupVars, tables, settings, history
  <2>. QED
    BY <1>0, <2>1, GapUntouched
<1>2. ASSUME SaveFlag PROVE GapInv'
  <2>1. job.pc = "flag" /\ job'.pc = "hours" /\ job'.at = job.at /\ UNCHANGED <<lastHours, regular, origin, closed, faded>>
    BY <1>2, Stage DEF SaveFlag, history, Stages
  <2>. QED
    BY <1>0, <2>1, GapUntouched
<1>3. ASSUME AddPeers \/ SaveCursor \/ PruneRollups \/ StampPrune \/ RollupsRestart PROVE GapInv'
  <2>1. UNCHANGED <<lastHours, regular, origin, closed, faded, backfilled>> /\ job.pc # "rest"
    BY <1>3 DEF AddPeers, SaveCursor, PruneRollups, StampPrune, RollupsRestart, settings, history
  <2>2. EndJob \/ job.pc \in {"peers", "save", "prune"}
    BY <1>3 DEF AddPeers, SaveCursor, PruneRollups, StampPrune, RollupsRestart
  <2>3. \/ EndJob \/ \E p \in {"save", "peers", "prune", "stamp"} : job'.pc = p /\ job'.at = job.at
    <3>1. CASE AddPeers
      <4>1. Least(job.cur + Chunk, PeersEnd) \in Int
        BY Lengths DEF Least, PeersEnd, RollupsTyped
      <4>. QED
        BY <3>1, <4>1, Stage DEF AddPeers, Stages
    <3>2. CASE SaveCursor \/ PruneRollups \/ StampPrune \/ RollupsRestart
      <4>1. Goto("peers") \/ Goto("stamp") \/ EndJob
        BY <3>2, Zenon DEF SaveCursor, PruneRollups, StampPrune, RollupsRestart
      <4>. QED
        BY <4>1, Stage DEF Stages
    <3>. QED
      BY <1>3, <3>1, <3>2
  <2>4. CASE EndJob
    <3>1. job'.pc = "rest"
      BY <2>4, Stage
    <3>. QED
      BY <1>0, <2>1, <3>1, GapUntouched
  <2>5. CASE ~EndJob
    <3>1. job'.at = job.at /\ job'.pc \in {"save", "peers", "prune", "stamp"} /\ job.pc \in {"peers", "save", "prune"}
      BY <2>2, <2>3, <2>5
    <3>. QED
      BY <1>0, <2>1, <3>1, GapUntouched
  <2>. QED
    BY <2>4, <2>5
<1>. QED
  BY <1>1, <1>2, <1>3, GapStartJob, GapBackfill, GapRecompute, GapReadCursor DEF RollupsNext, JobStep

(* NoGapWhileRegular: while completed recomputations and backfills follow  *)
(* each other by no more than the two hours less the lag, every hour that  *)
(* is over, and that the daily rollups have a part of, is closed, whatever *)
(* stage of a job failed between them, unless the retention had reached it *)
(* when a statement went over it.                                          *)
THEOREM NoHourIsLeftOut == RollupsSpec => []NoGapWhileRegular
<1>1. RollupsInit => RollupsTyped /\ ClockInv /\ GapInv
  <2>1. RollupsInit => GapInv
    <3>. SUFFICES ASSUME RollupsInit PROVE GapInv
      OBVIOUS
    <3>1. job.pc = "rest" /\ lastHours = Never /\ origin = Never /\ ~backfilled
      BY DEF RollupsInit, Resting
    <3>2. lastHours <= now /\ "rest" # "backfill" /\ "rest" # "readcursor"
      BY Lengths DEF RollupsInit
    <3>. QED
      BY <3>1, <3>2, Zenon DEF GapInv
  <2>. QED
    BY <2>1, InitTyped
<1>2. RollupsTyped /\ ClockInv /\ GapInv /\ [RollupsNext]_rollupVars
        => (RollupsTyped /\ ClockInv /\ GapInv)'
  BY StepTyped, StepClock, StepGap
<1>3. RollupsTyped /\ GapInv => NoGapWhileRegular
  <2>. SUFFICES ASSUME RollupsTyped, GapInv, regular, lastHours # Never, NEW h \in Hours,
                       \E s \in FlowsOf(h) : s >= origin, origin # Never,
                       \A s \in FlowsOf(h) : s + Lag < lastHours
                PROVE  h \in Settled
    BY Zenon DEF NoGapWhileRegular, Settled
  <2>1. Covered(origin, lastHours, lastHours)
    BY Zenon DEF GapInv
  <2>2. FlowsOf(h) \subseteq Nat /\ lastHours \in Nat /\ origin \in Nat /\ Lag \in Nat
    BY Lengths DEF FlowsOf, RollupsTyped
  <2>3. \A s \in FlowsOf(h) : s < lastHours
    BY <2>2
  <2>. QED
    BY <2>1, <2>3, Zenon DEF Covered
<1>. QED
  BY <1>1, <1>2, <1>3, PTL DEF RollupsSpec
=============================================================================
