------------------------- MODULE LookupQuotaProofs -------------------------
(***************************************************************************)
(* Proofs about LookupQuota: for every set of lanes, sources, records and  *)
(* goroutines and every quota, the lookups that passes have on record stay *)
(* within the quota of the day and of the month; and about FreeLanes: a    *)
(* lane is run by one pass at a time.                                      *)
(***************************************************************************)
EXTENDS LookupQuota, FreeLanes, FiniteSetTheorems, TLAPS

USE QuotaAssumption

\* What a goroutine may be in the middle of: the type of job[g].
Jobs == [stage : {"none", "lock", "usage", "select", "lookup", "store"},
         lane : Lanes \cup {Nobody}, limit : Nat, todo : SUBSET Records,
         item : Records \cup {Nobody}, status : {"none", "ok", "failed"}]

-----------------------------------------------------------------------------
(* Operators of the model *)

\* The smaller of two numbers is one of them and not above the other.
LEMMA MinOfTwo == \A a, b \in Nat : /\ Min({a, b}) \in Nat
                                   /\ Min({a, b}) \in {a, b}
                                   /\ Min({a, b}) <= a
                                   /\ Min({a, b}) \in 0..b
<1> SUFFICES ASSUME NEW a \in Nat, NEW b \in Nat
             PROVE  Min({a, b}) \in {a, b} /\ Min({a, b}) <= a /\ Min({a, b}) <= b
    OBVIOUS
<1>1. \E x \in {a, b} : \A y \in {a, b} : x <= y
    <2>1. a <= b \/ b <= a
        OBVIOUS
    <2> QED
        BY <2>1
<1>2. Min({a, b}) \in {a, b} /\ \A y \in {a, b} : Min({a, b}) <= y
    BY <1>1 DEF Min
<1> QED
    BY <1>2

\* Every set of records is finite, and counting one with less in it gives less.
LEMMA Counting ==
    ASSUME NEW S \in SUBSET Records
    PROVE  /\ IsFiniteSet(S)
           /\ Cardinality(S) \in Nat
           /\ \A T \in SUBSET S : Cardinality(T) <= Cardinality(S)
           /\ \A x : Cardinality(S \cup {x}) <= Cardinality(S) + 1
           /\ \A x \in S : Cardinality(S \ {x}) = Cardinality(S) - 1
<1>1. IsFiniteSet(S)
    BY FS_Subset
<1>2. Cardinality(S) \in Nat
    BY <1>1, FS_CardinalityType
<1>3. \A T \in SUBSET S : Cardinality(T) <= Cardinality(S)
    BY <1>1, FS_Subset
<1>4. \A x : Cardinality(S \cup {x}) <= Cardinality(S) + 1
    <2> TAKE x
    <2>1. Cardinality(S \cup {x}) = IF x \in S THEN Cardinality(S) ELSE Cardinality(S) + 1
        BY <1>1, FS_AddElement, Zenon
    <2> QED
        BY <1>2, <2>1
<1>5. \A x \in S : Cardinality(S \ {x}) = Cardinality(S) - 1
    BY <1>1, FS_RemoveElement
<1> QED
    BY <1>1, <1>2, <1>3, <1>4, <1>5

\* The statement that stores an answer writes a whole record.
LEMMA LookedUpRecord ==
    ASSUME QuotaTypeOK, NEW r \in Records, NEW a \in {"none", "ok", "failed"},
           NEW by \in {"pass", "user"}
    PROVE  LookedUp(r, a, by) \in Record
<1>1. record[r].attempts + 1 \in Nat /\ AttemptCap \in Nat
    BY DEF QuotaTypeOK, Record
<1>2. Min({record[r].attempts + 1, AttemptCap}) \in 0..AttemptCap
    BY <1>1, MinOfTwo, Zenon
<1> QED
    BY <1>2 DEF LookedUp, Record

\* A candidate is a record of the lane, and there are no more than asked for.
LEMMA SelectionsLimited ==
    ASSUME NEW l, NEW seen \in SUBSET Records, NEW n \in Nat,
           NEW S \in Selections(l, seen, n)
    PROVE  /\ S \in SUBSET Records
           /\ \A r \in S : LaneOf[r] = l
           /\ Cardinality(S) <= n
<1> DEFINE due == {r \in seen : LaneOf[r] = l /\ Due(r)}
<1>1. S \in SUBSET due /\ Cardinality(S) = Min({n, Cardinality(due)})
    BY DEF Selections
<1>2. Cardinality(due) \in Nat
    BY Counting
<1>3. Cardinality(S) <= n
    <2>1. Min({n, Cardinality(due)}) <= n
        BY <1>2, MinOfTwo, Zenon
    <2> QED
        BY <1>1, <2>1, Zenon
<1> QED
    BY <1>1, <1>3

\* What is left of a quota is a number, and does not exceed what is not on
\* record yet.
LEMMA BudgetBound ==
    ASSUME QuotaTypeOK, NEW s \in Sources
    PROVE  /\ Budget(s) \in Int
           /\ Cardinality(UsedToday(s)) + Budget(s) <= Daily[s]
           /\ Monthly[s] > 0 => Cardinality(UsedThisMonth(s)) + Budget(s) <= Monthly[s]
<1>1. Cardinality(UsedToday(s)) \in Nat /\ Cardinality(UsedThisMonth(s)) \in Nat
    BY Counting DEF UsedToday, UsedThisMonth, RecordsOf
<1>2. Daily[s] \in Nat /\ Monthly[s] \in Nat
    OBVIOUS
<1> QED
    BY <1>1, <1>2 DEF Budget

-----------------------------------------------------------------------------
(* Passes exclude each other.  A pass holds its lane's flag from its start to   *)
(* its end and, if its source has one, the mutex from Lock on: so no two passes *)
(* of a source are past "lock", and what one of them has read of the quota is   *)
(* not outdated by another.                                                     *)

Begun(w) == job[w].stage # "none"
Past     == {"usage", "select", "lookup", "store"}
Held(w)  == job[w].stage \in Past /\ SourceOf[job[w].lane] \in Mutexed => holder = w

\* A pass is about records of its lane.
OfLane(j) ==
    /\ \A r \in j.todo : LaneOf[r] = j.lane
    /\ j.stage = "store" => j.item \in Records /\ LaneOf[j.item] = j.lane

Ready ==
    /\ \A w \in Workers : /\ Begun(w) => job[w].lane \in running
                          /\ Held(w)
                          /\ OfLane(job[w])
    /\ \A w, v \in Workers :
          Begun(w) /\ Begun(v) /\ job[w].lane = job[v].lane => w = v
    /\ \A c \in Clients : /\ job[c].stage \in {"none", "store"}
                          /\ job[c].stage = "store" => job[c].item \in Records

\* The lookups a pass may still make before it reads the usage again.
Claim(j) == CASE j.stage = "select" -> j.limit
              [] j.stage = "lookup" -> Cardinality(j.todo)
              [] j.stage = "store"  -> Cardinality(j.todo) + 1
              [] OTHER -> 0

\* A pass past "lock" goes on and is now at j.
Moves(w, j) ==
    /\ job[w].stage \in Past
    /\ job' = [job EXCEPT ![w] = j]
    /\ j.stage \in {"select", "lookup", "store"}
    /\ j.lane = job[w].lane
    /\ OfLane(j)
    /\ UNCHANGED <<running, holder, clock>>

\* What a pass that goes on does to the records and to its claim.
Spends(w, j) ==
    \/ /\ UNCHANGED record
       /\ job[w].stage # "usage"
       /\ Claim(j) <= Claim(job[w])
    \/ /\ UNCHANGED record
       /\ job[w].stage = "usage"
       /\ Claim(j) <= Budget(SourceOf[job[w].lane])
    \/ /\ job[w].stage = "store"
       /\ record' = [record EXCEPT ![job[w].item] = LookedUp(job[w].item, job[w].status, "pass")]
       /\ Claim(j) + 1 <= Claim(job[w])

\* A goroutine at rest is in a state of its type.
LEMMA NoJobTyped == NoJob \in Jobs /\ NoJob.stage = "none" /\ NoJob.todo = {}
BY DEF NoJob, Jobs

\* A claim is a number.
LEMMA ClaimNat == ASSUME NEW j \in Jobs PROVE Claim(j) \in Nat
BY Counting DEF Jobs, Claim

\* A tick of the clock leaves every record a record.
LEMMA ElapseTyped ==
    ASSUME QuotaTypeOK, Elapse
    PROVE  QuotaTypeOK'
<1> DEFINE midnight == tick = TicksPerDay - 1
           month    == midnight /\ day = DaysPerMonth - 1
<1>1. ASSUME NEW r \in Records
      PROVE  record'[r] \in Record
    <2>1. record[r] \in Record
        BY DEF QuotaTypeOK
    <2>2. record'[r] = [record[r] EXCEPT
                !.when = IF midnight THEN Turned(@, month) ELSE @,
                !.age  = IF record[r].when = "never" THEN 0 ELSE Min({@ + 1, MaxAge})]
        BY DEF Elapse
    <2>3. (IF midnight THEN Turned(record[r].when, month) ELSE record[r].when)
                \in {"never", "today", "month", "earlier"}
        BY <2>1 DEF Turned, Record
    <2>4. Min({record[r].age + 1, MaxAge}) \in 0..MaxAge
        <3>1. record[r].age + 1 \in Nat /\ MaxAge \in Nat
            BY <2>1 DEF Record
        <3> QED
            BY <3>1, MinOfTwo, Zenon
    <2>5. (IF record[r].when = "never" THEN 0 ELSE Min({record[r].age + 1, MaxAge}))
                \in 0..MaxAge
        BY <2>4
    <2> QED
        BY <2>1, <2>2, <2>3, <2>5 DEF Record
<1>2. record' \in [Records -> Record]
    BY <1>1 DEF Elapse
<1>3. tick' \in 0..(TicksPerDay - 1) /\ day' \in 0..(DaysPerMonth - 1)
    <2>1. /\ tick' = (tick + 1) % TicksPerDay
          /\ day' = (day + 1) % DaysPerMonth \/ day' = day
        BY Zenon DEF Elapse
    <2>2. tick \in 0..(TicksPerDay - 1) /\ day \in 0..(DaysPerMonth - 1)
        BY DEF QuotaTypeOK
    <2> QED
        BY <2>1, <2>2
<1>4. spent' \in [Sources -> 0..MaxSpent]
    <2>1. spent' = [s \in Sources |-> 0] \/ spent' = spent
        BY Zenon DEF Elapse
    <2>2. spent \in [Sources -> 0..MaxSpent]
        BY DEF QuotaTypeOK
    <2> QED
        BY <2>1, <2>2
<1> QED
    BY <1>2, <1>3, <1>4 DEF QuotaTypeOK, Elapse

\* The limit a pass goes on with is within what is left of the quota.
LEMMA ReadUsageMoves ==
    ASSUME QuotaTypeOK, Ready, NEW w \in Workers, ReadUsage(w), ~End(w)
    PROVE  \E j \in Jobs : Moves(w, j) /\ Spends(w, j)
<1> DEFINE l == job[w].lane
           b == Budget(SourceOf[l])
           n == Min({BatchSize[l], b})
           j == [job[w] EXCEPT !.stage = "select", !.limit = n]
<1>0. job[w] \in Jobs /\ job \in [Goroutines -> Jobs] /\ w \in Goroutines
    BY DEF QuotaTypeOK, Jobs, Goroutines
<1>1. /\ job[w].stage = "usage"
      /\ ~(b <= 0)
      /\ job' = [job EXCEPT ![w].stage = "select", ![w].limit = n]
      /\ UNCHANGED <<running, holder, record, clock, spent>>
    BY Zenon DEF ReadUsage
<1>2. l \in Lanes
    BY <1>1 DEF Ready, Begun, QuotaTypeOK
<1>3. b \in Int
    BY <1>2, BudgetBound
<1>4. b \in Nat /\ BatchSize[l] \in Nat
    BY <1>1, <1>2, <1>3
<1>5. n \in Nat /\ n \in 0..b
    BY <1>4, MinOfTwo, Zenon
<1> HIDE DEF n, b
<1>6. j \in Jobs /\ j.stage = "select" /\ j.lane = l /\ j.todo = job[w].todo /\ j.limit = n
    BY <1>0, <1>5 DEF Jobs
<1>7. job' = [job EXCEPT ![w] = j]
    BY <1>0, <1>1
<1>8. OfLane(j)
    BY <1>6 DEF Ready, OfLane
<1>9. Claim(j) <= b
    BY <1>4, <1>5, <1>6 DEF Claim
<1> HIDE DEF j
<1>10. Moves(w, j)
    BY <1>1, <1>6, <1>7, <1>8 DEF Moves, Past
<1>11. Spends(w, j)
    BY <1>1, <1>9 DEF Spends, b
<1> QED
    BY <1>6, <1>10, <1>11

\* What is selected fits the limit.
LEMMA SelectMoves ==
    ASSUME QuotaTypeOK, Ready, NEW w \in Workers, SelectCandidates(w)
    PROVE  \E j \in Jobs : Moves(w, j) /\ Spends(w, j)
<1>0. job[w] \in Jobs /\ job \in [Goroutines -> Jobs] /\ w \in Goroutines
    BY DEF QuotaTypeOK, Jobs, Goroutines
<1>1. PICK seen \in SUBSET Records :
          \E S \in Selections(job[w].lane, seen, job[w].limit) :
              job' = [job EXCEPT ![w].stage = "lookup", ![w].todo = S]
    BY DEF SelectCandidates
<1>S. PICK S \in Selections(job[w].lane, seen, job[w].limit) :
          job' = [job EXCEPT ![w].stage = "lookup", ![w].todo = S]
    BY <1>1
<1>2. job[w].limit \in Nat
    BY <1>0 DEF Jobs
<1>3. /\ S \in SUBSET Records
      /\ \A r \in S : LaneOf[r] = job[w].lane
      /\ Cardinality(S) <= job[w].limit
    BY <1>2, SelectionsLimited
<1> DEFINE j == [job[w] EXCEPT !.stage = "lookup", !.todo = S]
<1>4. j \in Jobs /\ j.stage = "lookup" /\ j.lane = job[w].lane /\ j.todo = S
    BY <1>0, <1>3 DEF Jobs
<1>5. job' = [job EXCEPT ![w] = j]
    BY <1>0, <1>S
<1> HIDE DEF j
<1>6. Moves(w, j)
    BY <1>3, <1>4, <1>5 DEF Moves, OfLane, SelectCandidates, Past
<1>7. Claim(j) <= Claim(job[w])
    BY <1>3, <1>4 DEF Claim, SelectCandidates
<1>8. Spends(w, j)
    BY <1>7 DEF Spends, SelectCandidates
<1> QED
    BY <1>4, <1>6, <1>8

\* A lookup is taken from what is left to do.
LEMMA LookupMoves ==
    ASSUME QuotaTypeOK, Ready, NEW w \in Workers, NEW r \in Records, NEW a \in Answers,
           Lookup(w, r, a)
    PROVE  \E j \in Jobs : Moves(w, j) /\ Spends(w, j)
<1>0. job[w] \in Jobs /\ job \in [Goroutines -> Jobs] /\ w \in Goroutines
    BY DEF QuotaTypeOK, Jobs, Goroutines
<1> DEFINE j == [job[w] EXCEPT !.stage = "store", !.todo = job[w].todo \ {r},
                               !.item = r, !.status = a]
<1>1. j \in Jobs /\ j.stage = "store" /\ j.lane = job[w].lane
                 /\ j.todo = job[w].todo \ {r} /\ j.item = r
    BY <1>0 DEF Jobs, Answers
<1>2. job' = [job EXCEPT ![w] = j]
    BY <1>0 DEF Lookup
<1>3. job[w].stage = "lookup" /\ r \in job[w].todo
    BY DEF Lookup
<1> HIDE DEF j
<1>4. OfLane(j)
    BY <1>1, <1>3 DEF Ready, OfLane
<1>5. Moves(w, j)
    BY <1>1, <1>2, <1>3, <1>4 DEF Moves, Lookup, Past
<1>6. job[w].todo \in SUBSET Records
    BY <1>0 DEF Jobs
<1>7. /\ Cardinality(j.todo) = Cardinality(job[w].todo) - 1
      /\ Cardinality(job[w].todo) \in Nat
    BY <1>1, <1>3, <1>6, Counting
<1>8. Claim(j) = Claim(job[w])
    BY <1>1, <1>3, <1>7 DEF Claim
<1>9. Claim(j) \in Nat
    BY <1>1, ClaimNat
<1>10. Spends(w, j)
    BY <1>3, <1>8, <1>9 DEF Spends, Lookup
<1> QED
    BY <1>1, <1>5, <1>10

\* Storing an answer, or failing to, uses up a claim.
LEMMA StoreMoves ==
    ASSUME QuotaTypeOK, Ready, NEW w \in Workers, Store(w) \/ FailStore(w)
    PROVE  \E j \in Jobs : Moves(w, j) /\ Spends(w, j)
<1>0. job[w] \in Jobs /\ job \in [Goroutines -> Jobs] /\ w \in Goroutines
    BY DEF QuotaTypeOK, Jobs, Goroutines
<1> DEFINE j == [job[w] EXCEPT !.stage = "lookup", !.item = Nobody, !.status = "none"]
<1>1. j \in Jobs /\ j.stage = "lookup" /\ j.lane = job[w].lane /\ j.todo = job[w].todo
    BY <1>0 DEF Jobs
<1>2. job' = [job EXCEPT ![w] = j]
    BY DEF Store, FailStore
<1>3. job[w].stage = "store"
    BY DEF Store, FailStore
<1> HIDE DEF j
<1>4. OfLane(j)
    BY <1>1 DEF Ready, OfLane
<1>5. Moves(w, j)
    BY <1>1, <1>2, <1>3, <1>4 DEF Moves, Store, FailStore, Past
<1>6. Claim(j) + 1 = Claim(job[w]) /\ Claim(j) \in Nat
    BY <1>1, <1>3, ClaimNat DEF Claim
<1>7. CASE Store(w)
    BY <1>1, <1>3, <1>5, <1>6, <1>7 DEF Spends, Store
<1>8. CASE FailStore(w)
    BY <1>1, <1>3, <1>5, <1>6, <1>8 DEF Spends, FailStore
<1> QED
    BY <1>7, <1>8

\* A step of a pass locks the mutex, ends the pass or goes on with it.
LEMMA PassStepKinds ==
    ASSUME QuotaTypeOK, Ready, NEW w \in Workers, PassStep(w)
    PROVE  \/ Lock(w)
           \/ End(w) /\ Begun(w) /\ UNCHANGED <<record, clock>>
           \/ \E j \in Jobs : Moves(w, j) /\ Spends(w, j)
<1>1. CASE ReadUsage(w)
    <2>1. CASE End(w)
        BY <1>1, <2>1 DEF ReadUsage, Begun
    <2>2. CASE ~End(w)
        BY <1>1, <2>2, ReadUsageMoves
    <2> QED
        BY <2>1, <2>2
<1>2. CASE SelectCandidates(w)
    BY <1>2, SelectMoves
<1>3. CASE \E r \in Records, a \in Answers : Lookup(w, r, a)
    BY <1>3, LookupMoves
<1>4. CASE Store(w) \/ FailStore(w)
    BY <1>4, StoreMoves
<1>5. CASE EndPass(w)
    BY <1>5 DEF EndPass, Begun
<1>6. CASE CutShort(w)
    BY <1>6 DEF CutShort, Begun
<1> QED
    BY <1>1, <1>2, <1>3, <1>4, <1>5, <1>6 DEF PassStep

-----------------------------------------------------------------------------
(* Type correctness *)

\* However a pass ends, flag, mutex and goroutine are in their types.
LEMMA EndTyped ==
    ASSUME QuotaTypeOK, NEW w \in Workers, End(w)
    PROVE  /\ job' \in [Goroutines -> Jobs]
           /\ running' \subseteq Lanes
           /\ holder' \in Workers \cup {Nobody}
BY NoJobTyped DEF QuotaTypeOK, End, Jobs

\* Storing an answer leaves every record a record.
LEMMA StoreTyped ==
    ASSUME QuotaTypeOK, NEW r \in Records, NEW g \in Goroutines, NEW by \in {"pass", "user"},
           record' = [record EXCEPT ![r] = LookedUp(r, job[g].status, by)]
    PROVE  record' \in [Records -> Record]
<1>1. job[g].status \in {"none", "ok", "failed"}
    BY DEF QuotaTypeOK
<1>2. LookedUp(r, job[g].status, by) \in Record
    BY <1>1, LookedUpRecord
<1> QED
    BY <1>2 DEF QuotaTypeOK

\* The count of the day's lookups stays within its bound.
LEMMA SpentTyped ==
    ASSUME QuotaTypeOK, NEW w \in Workers, PassStep(w)
    PROVE  spent' \in [Sources -> 0..MaxSpent]
<1>1. CASE \E r \in Records, a \in Answers : Lookup(w, r, a)
    <2> DEFINE s == SourceOf[job[w].lane]
    <2>1. spent' = [spent EXCEPT ![s] = Min({spent[s] + 1, MaxSpent})]
        BY <1>1 DEF Lookup
    <2>2. spent \in [Sources -> 0..MaxSpent] /\ MaxSpent \in Nat
        BY DEF QuotaTypeOK
    <2>3. ASSUME s \in Sources PROVE Min({spent[s] + 1, MaxSpent}) \in 0..MaxSpent
        <3>1. spent[s] + 1 \in Nat
            BY <2>2, <2>3
        <3> QED
            BY <2>2, <3>1, MinOfTwo, Zenon
    <2> QED
        BY <2>1, <2>2, <2>3
<1>2. CASE UNCHANGED spent
    BY <1>2 DEF QuotaTypeOK
<1> QED
    BY <1>1, <1>2 DEF PassStep, Lock, ReadUsage, SelectCandidates, Store, FailStore,
                      EndPass, CutShort

\* Every action keeps the type invariant, of passes that are about their lane.
LEMMA QuotaTypeNext == QuotaTypeOK /\ Ready /\ [Next]_vars => QuotaTypeOK'
<1> SUFFICES ASSUME QuotaTypeOK, Ready, [Next]_vars
             PROVE  QuotaTypeOK'
    OBVIOUS
<1>1. ASSUME NEW w \in Workers, NEW l \in Lanes, BeginPass(w, l)
      PROVE  QuotaTypeOK'
    <2>1. job' \in [Goroutines -> Jobs]
        BY <1>1, NoJobTyped DEF BeginPass, QuotaTypeOK, Jobs, Goroutines
    <2> QED
        BY <1>1, <2>1 DEF BeginPass, QuotaTypeOK, Jobs, clock
<1>2. ASSUME NEW w \in Workers, PassStep(w)
      PROVE  QuotaTypeOK'
    <2>0. job[w] \in Jobs /\ w \in Goroutines /\ job \in [Goroutines -> Jobs]
        BY DEF QuotaTypeOK, Jobs, Goroutines
    <2>1. spent' \in [Sources -> 0..MaxSpent]
        BY <1>2, SpentTyped
    <2>2. CASE Lock(w)
        <3>1. job' \in [Goroutines -> Jobs]
            BY <2>0, <2>2 DEF Lock, Jobs
        <3> QED
            BY <2>2, <3>1 DEF Lock, QuotaTypeOK, Jobs, clock
    <2>3. CASE End(w) /\ UNCHANGED <<record, clock>>
        BY <2>1, <2>3, EndTyped DEF QuotaTypeOK, Jobs, clock
    <2>4. ASSUME NEW j \in Jobs, Moves(w, j), Spends(w, j)
          PROVE  QuotaTypeOK'
        <3>1. job' \in [Goroutines -> Jobs]
            BY <2>0, <2>4 DEF Moves
        <3>2. record' \in [Records -> Record]
            <4>1. CASE UNCHANGED record
                BY <4>1 DEF QuotaTypeOK
            <4>2. CASE job[w].stage = "store"
                BY <2>0, <2>4, <4>2, StoreTyped DEF Spends, Ready, OfLane, QuotaTypeOK
            <4> QED
                BY <2>4, <4>1, <4>2 DEF Spends
        <3> QED
            BY <2>1, <2>4, <3>1, <3>2 DEF Moves, QuotaTypeOK, Jobs, clock
    <2> QED
        BY <1>2, <2>2, <2>3, <2>4, PassStepKinds
<1>3. ASSUME NEW c \in Clients, RefreshStep(c)
      PROVE  QuotaTypeOK'
    <2>0. c \in Goroutines /\ job \in [Goroutines -> Jobs]
        BY DEF QuotaTypeOK, Jobs, Goroutines
    <2>1. CASE \E r \in Records, a \in Answers : Refresh(c, r, a)
        <3>1. job' \in [Goroutines -> Jobs]
            <4>1. PICK r \in Records, a \in Answers : Refresh(c, r, a)
                BY <2>1
            <4> DEFINE j == [NoJob EXCEPT !.stage = "store", !.item = r, !.status = a]
            <4>2. j \in Jobs
                BY DEF Answers, NoJob, Jobs
            <4>3. job' = [job EXCEPT ![c] = j]
                BY <4>1 DEF Refresh
            <4> HIDE DEF j
            <4> QED
                BY <2>0, <4>2, <4>3
        <3> QED
            BY <2>1, <3>1 DEF Refresh, QuotaTypeOK, Jobs, clock
    <2>2. CASE StoreRefresh(c)
        <3>1. record' \in [Records -> Record]
            BY <2>0, <2>2, StoreTyped DEF StoreRefresh, Ready
        <3>2. job' \in [Goroutines -> Jobs]
            BY <2>0, <2>2, NoJobTyped DEF StoreRefresh
        <3> QED
            BY <2>2, <3>1, <3>2 DEF StoreRefresh, QuotaTypeOK, Jobs, clock
    <2>3. CASE FailRefresh(c)
        <3>1. job' \in [Goroutines -> Jobs]
            BY <2>0, <2>3, NoJobTyped DEF FailRefresh
        <3> QED
            BY <2>3, <3>1 DEF FailRefresh, QuotaTypeOK, Jobs, clock
    <2> QED
        BY <1>3, <2>1, <2>2, <2>3 DEF RefreshStep
<1>4. CASE Elapse
    BY <1>4, ElapseTyped
<1>5. CASE Restart
    BY <1>5, NoJobTyped DEF Restart, QuotaTypeOK, Jobs, clock
<1>6. CASE UNCHANGED vars
    BY <1>6 DEF vars, QuotaTypeOK
<1> QED
    BY <1>1, <1>2, <1>3, <1>4, <1>5, <1>6 DEF Next

-----------------------------------------------------------------------------
(* Passes exclude each other, proved *)

\* Every action leaves a lane and the mutex to one pass at a time.
LEMMA ReadyNext == QuotaTypeOK /\ Ready /\ [Next]_vars => Ready'
<1> SUFFICES ASSUME QuotaTypeOK, Ready, [Next]_vars
             PROVE  Ready'
    OBVIOUS
<1>0. /\ job \in [Goroutines -> Jobs]
      /\ \A w \in Workers : w \in Goroutines /\ w \notin Clients
      /\ \A c \in Clients : c \in Goroutines /\ c \notin Workers
    BY DEF QuotaTypeOK, Jobs, Goroutines
<1>1. ASSUME NEW w \in Workers, NEW l \in Lanes, BeginPass(w, l)
      PROVE  Ready'
    <2> DEFINE j == [NoJob EXCEPT
                        !.stage = IF SourceOf[l] \in Mutexed THEN "lock" ELSE "usage", !.lane = l]
    <2>1. /\ j.lane = l /\ j.todo = {}
          /\ j.stage \in {"lock", "usage"}
          /\ j.stage = "usage" => SourceOf[l] \notin Mutexed
        BY NoJobTyped DEF NoJob
    <2>2. job' = [job EXCEPT ![w] = j] /\ running' = running \cup {l} /\ l \notin running
                                     /\ holder' = holder
        BY <1>1 DEF BeginPass
    <2> HIDE DEF j
    <2> QED
        BY <1>0, <2>1, <2>2 DEF Ready, Begun, Held, OfLane, Past
<1>2. ASSUME NEW w \in Workers, PassStep(w)
      PROVE  Ready'
    <2>1. CASE Lock(w)
        <3>1. /\ job'[w].lane = job[w].lane /\ job'[w].todo = job[w].todo
              /\ job'[w].stage = "usage" /\ job[w].stage = "lock"
              /\ \A g \in Goroutines : g # w => job'[g] = job[g]
            BY <1>0, <2>1 DEF Lock, Jobs
        <3>2. running' = running /\ holder' = w /\ holder = Nobody
            BY <2>1 DEF Lock
        <3> QED
            BY <1>0, <3>1, <3>2 DEF Ready, Begun, Held, OfLane, Past
    <2>2. CASE End(w) /\ Begun(w)
        <3>1. /\ job'[w] = NoJob
              /\ \A g \in Goroutines : g # w => job'[g] = job[g]
            BY <1>0, <2>2 DEF End
        <3>2. /\ running' = running \ {job[w].lane}
              /\ \A v \in Workers : v # w /\ holder = v => holder' = v
            BY <2>2 DEF End
        <3> QED
            BY <1>0, <2>2, <3>1, <3>2, NoJobTyped DEF Ready, Begun, Held, OfLane, Past
    <2>3. ASSUME NEW j \in Jobs, Moves(w, j)
          PROVE  Ready'
        <3>1. /\ job'[w] = j
              /\ \A g \in Goroutines : g # w => job'[g] = job[g]
            BY <1>0, <2>3 DEF Moves
        <3> QED
            BY <1>0, <2>3, <3>1 DEF Moves, Ready, Begun, Held, OfLane, Past
    <2> QED
        BY <1>2, <2>1, <2>2, <2>3, PassStepKinds
<1>3. ASSUME NEW c \in Clients, RefreshStep(c)
      PROVE  Ready'
    <2>1. /\ \A g \in Goroutines : g # c => job'[g] = job[g]
          /\ UNCHANGED <<running, holder>>
        BY <1>0, <1>3 DEF RefreshStep, Refresh, StoreRefresh, FailRefresh
    <2>2. /\ job'[c].stage \in {"none", "store"}
          /\ job'[c].stage = "store" => job'[c].item \in Records
        <3>1. CASE job' = [job EXCEPT ![c] = NoJob]
            BY <1>0, <3>1, NoJobTyped
        <3>2. ASSUME NEW r \in Records, NEW status \in Answers, Refresh(c, r, status)
              PROVE  job'[c].stage = "store" /\ job'[c].item = r
            BY <1>0, <3>2 DEF Refresh, NoJob
        <3> QED
            BY <1>3, <3>1, <3>2, NoJobTyped DEF RefreshStep, StoreRefresh, FailRefresh
    <2> QED
        BY <1>0, <2>1, <2>2 DEF Ready, Begun, Held, OfLane
<1>4. CASE Elapse
    BY <1>4 DEF Elapse, Ready, Begun, Held, OfLane
<1>5. CASE Restart
    BY <1>0, <1>5, NoJobTyped DEF Restart, Ready, Begun, Held, OfLane, Past
<1>6. CASE UNCHANGED vars
    BY <1>6 DEF vars, Ready, Begun, Held, OfLane
<1> QED
    BY <1>1, <1>2, <1>3, <1>4, <1>5, <1>6 DEF Next

\* At the start nothing has been looked up and every goroutine is at rest.
LEMMA ReadyInit == Init => QuotaTypeOK /\ Ready
<1> SUFFICES ASSUME Init PROVE QuotaTypeOK /\ Ready
    OBVIOUS
<1>1. QuotaTypeOK
    BY NoJobTyped DEF Init, QuotaTypeOK, Jobs, Record, NoLookup
<1>2. Ready
    BY NoJobTyped DEF Init, Ready, Begun, Held, OfLane, Past, Goroutines
<1> QED
    BY <1>1, <1>2

\* Records, flags, the mutex and what goroutines hold in memory stay in their
\* types whatever the interleaving of passes, refreshes, midnights and restarts;
\* in particular no pass goes on with a limit that is not positive.
THEOREM QuotaTypeCorrect == Spec => []QuotaTypeOK
BY ReadyInit, QuotaTypeNext, ReadyNext, PTL DEF Spec

-----------------------------------------------------------------------------
(* The quota *)

\* What passes have on record for the day and for the month.
OfDay(s)   == {r \in UsedToday(s) : record[r].by = "pass"}
OfMonth(s) == {r \in UsedThisMonth(s) : record[r].by = "pass"}

\* n more lookups fit into the quota of s.
Fits(s, n) == /\ Cardinality(OfDay(s)) + n <= Daily[s]
              /\ Monthly[s] > 0 => Cardinality(OfMonth(s)) + n <= Monthly[s]

\* What a pass still claims fits, besides what is on record.
ClaimsFit ==
    \A w \in Workers, s \in Sources, n \in Nat :
        /\ job[w].stage \in {"select", "lookup", "store"}
        /\ s = SourceOf[job[w].lane]
        /\ n = Claim(job[w])
        => Fits(s, n)

AllFit == \A s \in Sources : Fits(s, 0)

\* What is on record can be counted.
LEMMA OnRecord ==
    ASSUME NEW s
    PROVE  /\ OfDay(s) \in SUBSET Records /\ OfMonth(s) \in SUBSET Records
           /\ Cardinality(OfDay(s)) \in Nat /\ Cardinality(OfMonth(s)) \in Nat
<1>1. OfDay(s) \in SUBSET Records /\ OfMonth(s) \in SUBSET Records
    BY DEF OfDay, OfMonth, UsedToday, UsedThisMonth, RecordsOf
<1> QED
    BY <1>1, Counting

\* The same of the state after a step.
LEMMA RecordedLater ==
    ASSUME NEW s
    PROVE  Cardinality(OfDay(s)') \in Nat /\ Cardinality(OfMonth(s)') \in Nat
<1>1. OfDay(s)' \in SUBSET Records /\ OfMonth(s)' \in SUBSET Records
    BY DEF OfDay, OfMonth, UsedToday, UsedThisMonth, RecordsOf
<1> QED
    BY <1>1, Counting

\* The step puts no lookup of a pass on the record of s.
Shrinks(s) == OfDay(s)' \subseteq OfDay(s) /\ OfMonth(s)' \subseteq OfMonth(s)

\* With less on record, what fitted still fits, and so does less.
LEMMA StillFits ==
    ASSUME NEW s \in Sources, NEW n \in Nat, NEW m \in Nat, m <= n, Fits(s, n), Shrinks(s)
    PROVE  Fits(s, m)'
<1>1. /\ Cardinality(OfDay(s)') <= Cardinality(OfDay(s))
      /\ Cardinality(OfMonth(s)') <= Cardinality(OfMonth(s))
    BY OnRecord, Counting DEF Shrinks
<1>2. /\ Cardinality(OfDay(s)) \in Nat /\ Cardinality(OfMonth(s)) \in Nat
    BY OnRecord
<1>3. Cardinality(OfDay(s)') \in Nat /\ Cardinality(OfMonth(s)') \in Nat
    BY RecordedLater
<1> QED
    BY <1>1, <1>2, <1>3 DEF Fits

\* A step that leaves the records alone.
LEMMA SameShrinks == ASSUME UNCHANGED record, NEW s PROVE Shrinks(s)
BY DEF Shrinks, OfDay, OfMonth, UsedToday, UsedThisMonth

\* A tick of the clock: a midnight takes lookups off the day, the end of the
\* month off the month, and nothing is put on record.
LEMMA ElapseShrinks ==
    ASSUME QuotaTypeOK, Elapse, NEW s
    PROVE  Shrinks(s)
<1> DEFINE midnight == tick = TicksPerDay - 1
           month    == midnight /\ day = DaysPerMonth - 1
           when(r)  == IF midnight THEN Turned(record[r].when, month) ELSE record[r].when
           age(r)   == IF record[r].when = "never" THEN 0 ELSE Min({record[r].age + 1, MaxAge})
<1>1. ASSUME NEW r \in Records
      PROVE  /\ record'[r].by = record[r].by
             /\ record'[r].when = "today" => record[r].when = "today"
             /\ record'[r].when \in {"today", "month"} => record[r].when \in {"today", "month"}
    <2>1. record'[r] = [record[r] EXCEPT !.when = when(r), !.age = age(r)]
        BY Zenon DEF Elapse
    <2>2. record[r] \in Record
        BY DEF QuotaTypeOK
    <2>3. /\ when(r) = "today" => record[r].when = "today"
          /\ when(r) \in {"today", "month"} => record[r].when \in {"today", "month"}
        BY <2>2 DEF Turned, Record
    <2> HIDE DEF when, age
    <2>4. record'[r].when = when(r) /\ record'[r].by = record[r].by
        BY <2>1, <2>2 DEF Record
    <2> QED
        BY <2>3, <2>4
<1> QED
    BY <1>1 DEF Shrinks, OfDay, OfMonth, UsedToday, UsedThisMonth, RecordsOf

\* Storing an answer puts one record on the day and the month of its source: when
\* a user asked, not for a pass.
LEMMA StoreRecords ==
    ASSUME QuotaTypeOK, NEW r \in Records, NEW a, NEW by, NEW s,
           record' = [record EXCEPT ![r] = LookedUp(r, a, by)]
    PROVE  /\ by = "user" \/ SourceOf[LaneOf[r]] # s => Shrinks(s)
           /\ OfDay(s)' \subseteq OfDay(s) \cup {r}
           /\ OfMonth(s)' \subseteq OfMonth(s) \cup {r}
<1>1. record'[r].by = by
    BY DEF QuotaTypeOK, LookedUp
<1>2. \A q \in Records : q # r => record'[q] = record[q]
    BY DEF QuotaTypeOK
<1> QED
    BY <1>1, <1>2 DEF Shrinks, OfDay, OfMonth, UsedToday, UsedThisMonth, RecordsOf

\* Where one more lookup fits besides n, n fit after it.
LEMMA StoreFits ==
    ASSUME QuotaTypeOK, NEW r \in Records, NEW a, NEW by, NEW s \in Sources, NEW n \in Nat,
           record' = [record EXCEPT ![r] = LookedUp(r, a, by)],
           Fits(s, n + 1)
    PROVE  Fits(s, n)'
<1>1. /\ OfDay(s)' \in SUBSET (OfDay(s) \cup {r})
      /\ OfMonth(s)' \in SUBSET (OfMonth(s) \cup {r})
    BY StoreRecords
<1>2. /\ OfDay(s) \in SUBSET Records /\ OfMonth(s) \in SUBSET Records
      /\ Cardinality(OfDay(s)) \in Nat /\ Cardinality(OfMonth(s)) \in Nat
    BY OnRecord
<1>3. /\ OfDay(s) \cup {r} \in SUBSET Records /\ OfMonth(s) \cup {r} \in SUBSET Records
      /\ OfDay(s)' \in SUBSET Records /\ OfMonth(s)' \in SUBSET Records
    BY <1>1, <1>2
<1>4. /\ Cardinality(OfDay(s)') <= Cardinality(OfDay(s) \cup {r})
      /\ Cardinality(OfMonth(s)') <= Cardinality(OfMonth(s) \cup {r})
    BY <1>1, <1>3, Counting
<1>5. /\ Cardinality(OfDay(s) \cup {r}) <= Cardinality(OfDay(s)) + 1
      /\ Cardinality(OfMonth(s) \cup {r}) <= Cardinality(OfMonth(s)) + 1
    BY <1>2, Counting
<1>6. /\ Cardinality(OfDay(s)') \in Nat /\ Cardinality(OfMonth(s)') \in Nat
      /\ Cardinality(OfDay(s) \cup {r}) \in Nat /\ Cardinality(OfMonth(s) \cup {r}) \in Nat
    BY <1>3, Counting
<1> QED
    BY <1>2, <1>4, <1>5, <1>6 DEF Fits

\* What is left of the quota fits: passes have no more on record than there is.
LEMMA BudgetFits ==
    ASSUME QuotaTypeOK, NEW s \in Sources, NEW n \in Nat, n <= Budget(s)
    PROVE  Fits(s, n)
<1>1. /\ OfDay(s) \in SUBSET UsedToday(s) /\ OfMonth(s) \in SUBSET UsedThisMonth(s)
      /\ UsedToday(s) \in SUBSET Records /\ UsedThisMonth(s) \in SUBSET Records
    BY DEF OfDay, OfMonth, UsedToday, UsedThisMonth, RecordsOf
<1>2. /\ Cardinality(OfDay(s)) <= Cardinality(UsedToday(s))
      /\ Cardinality(OfMonth(s)) <= Cardinality(UsedThisMonth(s))
      /\ Cardinality(UsedToday(s)) \in Nat /\ Cardinality(UsedThisMonth(s)) \in Nat
    BY <1>1, Counting
<1>3. Cardinality(OfDay(s)) \in Nat /\ Cardinality(OfMonth(s)) \in Nat
    BY OnRecord
<1>4. Daily[s] \in Nat /\ Monthly[s] \in Nat
    OBVIOUS
<1> QED
    BY <1>2, <1>3, <1>4, BudgetBound DEF Fits

\* Two passes of one source are never both past "lock".
LEMMA Alone ==
    ASSUME QuotaTypeOK, Ready, NEW w \in Workers, NEW v \in Workers,
           job[w].stage \in Past, job[v].stage \in Past,
           SourceOf[job[w].lane] = SourceOf[job[v].lane]
    PROVE  w = v
<1>1. job[w].lane \in Lanes /\ job[v].lane \in Lanes
    BY DEF QuotaTypeOK, Ready, Begun, Past
<1>2. CASE job[w].lane = job[v].lane
    BY <1>2 DEF Ready, Begun, Past
<1>3. CASE job[w].lane # job[v].lane
    BY <1>1, <1>3 DEF Ready, Held
<1> QED
    BY <1>2, <1>3

\* A pass that goes on: what it and all the others claim fits after the step.
LEMMA MovesFit ==
    ASSUME QuotaTypeOK, Ready, ClaimsFit, AllFit, NEW w \in Workers, NEW j \in Jobs,
           Moves(w, j), Spends(w, j)
    PROVE  ClaimsFit' /\ AllFit'
<1>0. /\ job \in [Goroutines -> Jobs]
      /\ \A v \in Workers : v \in Goroutines /\ job[v] \in Jobs
    BY DEF QuotaTypeOK, Jobs, Goroutines
<1>1. /\ job[w].stage \in Past /\ j.lane = job[w].lane
      /\ job'[w] = j
      /\ \A v \in Workers : v # w => job'[v] = job[v]
    BY <1>0 DEF Moves
<1>2. job[w].lane \in Lanes
    BY <1>1 DEF QuotaTypeOK, Ready, Begun, Past
<1>3. PICK s \in Sources : s = SourceOf[job[w].lane]
    BY <1>2
<1>4. PICK m \in Nat : m = Claim(j)
    BY ClaimNat
<1>5. PICK n \in Nat : n = Claim(job[w])
    BY <1>0, ClaimNat
<1>6. Fits(s, m)'
    <2>1. CASE UNCHANGED record /\ job[w].stage # "usage" /\ m <= n
        <3>1. Fits(s, n)
            BY <1>1, <1>3, <1>5, <2>1 DEF ClaimsFit, Past
        <3>2. Shrinks(s)
            BY <2>1, SameShrinks
        <3> QED
            BY <2>1, <3>1, <3>2, StillFits
    <2>2. CASE UNCHANGED record /\ m <= Budget(s)
        <3>1. Fits(s, m)
            BY <2>2, BudgetFits
        <3>2. Shrinks(s)
            BY <2>2, SameShrinks
        <3> QED
            BY <3>1, <3>2, StillFits
    <2>3. CASE /\ job[w].stage = "store"
               /\ record' = [record EXCEPT ![job[w].item] =
                                LookedUp(job[w].item, job[w].status, "pass")]
               /\ m + 1 <= n
        <3>1. Fits(s, n)
            BY <1>3, <1>5, <2>3 DEF ClaimsFit
        <3>2. Fits(s, m + 1)
            <4>1. Cardinality(OfDay(s)) \in Nat /\ Cardinality(OfMonth(s)) \in Nat
                BY OnRecord
            <4>2. Daily[s] \in Nat /\ Monthly[s] \in Nat
                OBVIOUS
            <4> QED
                BY <2>3, <3>1, <4>1, <4>2 DEF Fits
        <3>3. PICK r \in Records, a \in {job[w].status} :
                  record' = [record EXCEPT ![r] = LookedUp(r, a, "pass")]
            BY <2>3 DEF Ready, OfLane
        <3> QED
            BY <3>2, <3>3, StoreFits
    <2> QED
        BY <1>3, <1>4, <1>5, <2>1, <2>2, <2>3 DEF Spends
<1>7. ASSUME NEW t \in Sources, t # s
      PROVE  Shrinks(t)
    <2>1. CASE UNCHANGED record
        BY <2>1, SameShrinks
    <2>2. CASE /\ job[w].stage = "store"
               /\ record' = [record EXCEPT ![job[w].item] =
                                LookedUp(job[w].item, job[w].status, "pass")]
        <3>1. PICK r \in Records, a \in {job[w].status} :
                  /\ record' = [record EXCEPT ![r] = LookedUp(r, a, "pass")]
                  /\ SourceOf[LaneOf[r]] = s
            BY <1>3, <2>2 DEF Ready, OfLane
        <3> QED
            BY <1>7, <3>1, StoreRecords
    <2> QED
        BY <2>1, <2>2 DEF Spends
<1>8. ClaimsFit'
    <2> SUFFICES ASSUME NEW v \in Workers, NEW t \in Sources, NEW k \in Nat,
                        job'[v].stage \in {"select", "lookup", "store"},
                        t = SourceOf[job'[v].lane], k = Claim(job'[v])
                 PROVE  Fits(t, k)'
        BY DEF ClaimsFit
    <2>1. CASE v = w
        BY <1>1, <1>3, <1>4, <1>6, <2>1
    <2>2. CASE v # w
        <3>1. job'[v] = job[v]
            BY <1>1, <2>2
        <3>2. t # s
            BY <1>1, <1>3, <2>2, <3>1, Alone DEF Past
        <3>3. Fits(t, k)
            BY <3>1 DEF ClaimsFit
        <3>4. Shrinks(t)
            BY <1>7, <3>2
        <3> QED
            BY <3>3, <3>4, StillFits
    <2> QED
        BY <2>1, <2>2
<1>9. AllFit'
    <2> SUFFICES ASSUME NEW t \in Sources PROVE Fits(t, 0)'
        BY DEF AllFit
    <2>1. CASE t = s
        <3>1. Cardinality(OfDay(s)') \in Nat /\ Cardinality(OfMonth(s)') \in Nat
            BY RecordedLater
        <3>2. Daily[s] \in Nat /\ Monthly[s] \in Nat
            OBVIOUS
        <3>3. Fits(s, 0)'
            BY <1>6, <3>1, <3>2 DEF Fits
        <3> QED
            BY <2>1, <3>3
    <2>2. CASE t # s
        <3>1. Fits(t, 0)
            BY DEF AllFit
        <3>2. Shrinks(t)
            BY <1>7, <2>2
        <3>3. 0 \in Nat /\ 0 <= 0
            OBVIOUS
        <3> QED
            BY <3>1, <3>2, <3>3, StillFits, Zenon
    <2> QED
        BY <2>1, <2>2
<1> QED
    BY <1>8, <1>9

\* A step after which nobody claims more and nothing is on record more.
LEMMA QuietFit ==
    ASSUME QuotaTypeOK, Ready, ClaimsFit, AllFit,
           \A s \in Sources : Shrinks(s),
           \A w \in Workers : \/ job'[w] = job[w]
                              \/ job'[w].stage \notin {"select", "lookup", "store"}
    PROVE  ClaimsFit' /\ AllFit'
<1>1. ClaimsFit'
    <2> SUFFICES ASSUME NEW v \in Workers, NEW t \in Sources, NEW k \in Nat,
                        job'[v].stage \in {"select", "lookup", "store"},
                        t = SourceOf[job'[v].lane], k = Claim(job'[v])
                 PROVE  Fits(t, k)'
        BY DEF ClaimsFit
    <2>1. job'[v] = job[v]
        OBVIOUS
    <2>2. Fits(t, k)
        BY <2>1 DEF ClaimsFit
    <2> QED
        BY <2>2, StillFits
<1>2. AllFit'
    <2> SUFFICES ASSUME NEW t \in Sources PROVE Fits(t, 0)'
        BY DEF AllFit
    <2>1. Fits(t, 0)
        BY DEF AllFit
    <2> QED
        BY <2>1, StillFits
<1> QED
    BY <1>1, <1>2

\* Every action leaves what is claimed and what is on record within the quota.
LEMMA FitNext ==
    QuotaTypeOK /\ Ready /\ ClaimsFit /\ AllFit /\ [Next]_vars => ClaimsFit' /\ AllFit'
<1> SUFFICES ASSUME QuotaTypeOK, Ready, ClaimsFit, AllFit, [Next]_vars
             PROVE  ClaimsFit' /\ AllFit'
    OBVIOUS
<1>0. /\ job \in [Goroutines -> Jobs]
      /\ \A w \in Workers : w \in Goroutines /\ w \notin Clients
      /\ \A c \in Clients : c \in Goroutines /\ c \notin Workers
    BY DEF QuotaTypeOK, Jobs, Goroutines
<1>1. ASSUME NEW w \in Workers, NEW l \in Lanes, BeginPass(w, l)
      PROVE  ClaimsFit' /\ AllFit'
    <2>1. /\ job'[w].stage \in {"lock", "usage"}
          /\ \A v \in Workers : v # w => job'[v] = job[v]
        BY <1>0, <1>1 DEF BeginPass, NoJob
    <2>2. \A s \in Sources : Shrinks(s)
        BY <1>1, SameShrinks DEF BeginPass
    <2> QED
        BY <2>1, <2>2, QuietFit
<1>2. ASSUME NEW w \in Workers, PassStep(w)
      PROVE  ClaimsFit' /\ AllFit'
    <2>1. CASE Lock(w)
        <3>1. /\ job'[w].stage = "usage"
              /\ \A v \in Workers : v # w => job'[v] = job[v]
            BY <1>0, <2>1 DEF Lock, Jobs
        <3>2. \A s \in Sources : Shrinks(s)
            BY <2>1, SameShrinks DEF Lock
        <3> QED
            BY <3>1, <3>2, QuietFit
    <2>2. CASE End(w) /\ UNCHANGED record
        <3>1. /\ job'[w].stage = "none"
              /\ \A v \in Workers : v # w => job'[v] = job[v]
            BY <1>0, <2>2, NoJobTyped DEF End
        <3>2. \A s \in Sources : Shrinks(s)
            BY <2>2, SameShrinks
        <3> QED
            BY <3>1, <3>2, QuietFit
    <2>3. CASE \E j \in Jobs : Moves(w, j) /\ Spends(w, j)
        BY <2>3, MovesFit
    <2> QED
        BY <1>2, <2>1, <2>2, <2>3, PassStepKinds
<1>3. ASSUME NEW c \in Clients, RefreshStep(c)
      PROVE  ClaimsFit' /\ AllFit'
    <2>1. \A w \in Workers : job'[w] = job[w]
        BY <1>0, <1>3 DEF RefreshStep, Refresh, StoreRefresh, FailRefresh
    <2>2. ASSUME NEW s \in Sources PROVE Shrinks(s)
        <3>1. CASE UNCHANGED record
            BY <3>1, SameShrinks
        <3>2. CASE StoreRefresh(c)
            <4>1. PICK r \in Records, a \in {job[c].status} :
                      record' = [record EXCEPT ![r] = LookedUp(r, a, "user")]
                BY <3>2 DEF StoreRefresh, Ready
            <4> QED
                BY <4>1, StoreRecords
        <3> QED
            BY <1>3, <3>1, <3>2 DEF RefreshStep, Refresh, FailRefresh
    <2> QED
        BY <2>1, <2>2, QuietFit
<1>4. CASE Elapse
    <2>1. \A s \in Sources : Shrinks(s)
        BY <1>4, ElapseShrinks
    <2>2. job' = job
        BY <1>4 DEF Elapse
    <2> QED
        BY <2>1, <2>2, QuietFit
<1>5. CASE Restart
    <2>1. \A w \in Workers : job'[w].stage = "none"
        BY <1>0, <1>5, NoJobTyped DEF Restart
    <2>2. \A s \in Sources : Shrinks(s)
        BY <1>5, SameShrinks DEF Restart
    <2> QED
        BY <2>1, <2>2, QuietFit
<1>6. CASE UNCHANGED vars
    <2>1. \A s \in Sources : Shrinks(s)
        BY <1>6, SameShrinks DEF vars
    <2> QED
        BY <1>6, <2>1, QuietFit DEF vars
<1> QED
    BY <1>1, <1>2, <1>3, <1>4, <1>5, <1>6 DEF Next

\* At the start nothing is on record and no pass claims anything.
LEMMA FitInit == Init => ClaimsFit /\ AllFit
<1> SUFFICES ASSUME Init PROVE ClaimsFit /\ AllFit
    OBVIOUS
<1>1. ClaimsFit
    BY NoJobTyped DEF Init, ClaimsFit, Goroutines
<1>2. ASSUME NEW s \in Sources PROVE Fits(s, 0)
    <2>1. OfDay(s) = {} /\ OfMonth(s) = {}
        BY DEF Init, NoLookup, OfDay, OfMonth, UsedToday, UsedThisMonth, RecordsOf
    <2>2. Cardinality({}) = 0 /\ Daily[s] \in Nat /\ Monthly[s] \in Nat
        BY FS_EmptySet
    <2> QED
        BY <2>1, <2>2 DEF Fits
<1> QED
    BY <1>1, <1>2 DEF AllFit

\* Within the quota, as RecordedWithinQuota says it.
LEMMA FitMeansQuota == AllFit => RecordedWithinQuota
<1> SUFFICES ASSUME AllFit, NEW s \in Sources
             PROVE  /\ Cardinality(OfDay(s)) <= Daily[s]
                    /\ Monthly[s] > 0 => Cardinality(OfMonth(s)) <= Monthly[s]
    BY DEF RecordedWithinQuota, OfDay, OfMonth
<1>1. Fits(s, 0)
    BY DEF AllFit
<1>2. Cardinality(OfDay(s)) \in Nat /\ Cardinality(OfMonth(s)) \in Nat
    BY OnRecord
<1> QED
    BY <1>1, <1>2 DEF Fits

\* For every number of lanes, goroutines and records and every quota: the lookups
\* passes have on record stay within the quota of the day and of the month.  What a
\* pass has read of the records may be outdated by a refresh or a midnight when it
\* spends by it, never by another pass.
THEOREM QuotaKept == Spec => []RecordedWithinQuota
BY ReadyInit, FitInit, QuotaTypeNext, ReadyNext, FitNext, FitMeansQuota, PTL DEF Spec

-----------------------------------------------------------------------------
(* The lanes without a quota *)

Items == IF lane = "geo" THEN Addresses ELSE Hashes

\* What a runner may be in the middle of: the type of pass[g].  What it is about to
\* store has a status.
Passes == {p \in [stage : {"none", "select", "lookup", "store", "refresh", "storeRefresh"},
                  todo : SUBSET LaneItems, item : LaneItems \cup {"none"},
                  status : {"none", "ok", "failed"}] :
            p.stage \in {"store", "storeRefresh"} => p.status # "none"}

\* The type of looked[i].
Rows == [status : {"absent", "pending", "ok", "failed"}, age : 0..OldestAge, attempts : 0..DoublingCap]

FreeLanesTypeOK ==
    /\ lane \in {"geo", "files"}
    /\ looked \in [Items -> Rows]
    /\ digest \subseteq Items
    /\ pass \in [Runners -> Passes]
    /\ busy \in BOOLEAN
    /\ signal \subseteq {"start", "tick", "kick"}

LaneStages == {"select", "lookup", "store"}

\* What holds of a runner, whatever the others do.
AsksOnce(p, items) == p.stage \in {"store", "storeRefresh"} => p.item \in items \ p.todo

LEMMA NoPassTyped == NoPass \in Passes /\ NoPass.stage = "none" /\ NoPass.todo = {}
BY DEF NoPass, Passes

\* One runner goes on, enters the lane when it is free, or leaves it.
LEMMA OneMoves ==
    ASSUME FreeLanesTypeOK, OnePassPerLane, NEW g \in Runners, NEW p \in Passes,
           pass' = [pass EXCEPT ![g] = p], DOMAIN looked' = DOMAIN looked,
           AsksOnce(p, DOMAIN looked),
           \/ busy' = busy /\ (p.stage \in LaneStages <=> InLane(g))
           \/ ~busy /\ busy' = TRUE /\ p.stage \in LaneStages
           \/ InLane(g) /\ busy' = FALSE /\ p.stage \notin LaneStages
    PROVE  pass' \in [Runners -> Passes] /\ busy' \in BOOLEAN /\ OnePassPerLane'
<1>1. pass' \in [Runners -> Passes] /\ busy' \in BOOLEAN
    BY DEF FreeLanesTypeOK
<1>2. \A h \in Runners : pass'[h] = IF h = g THEN p ELSE pass[h]
    BY DEF FreeLanesTypeOK
<1>3. \A h \in Runners : InLane(h)' <=> IF h = g THEN p.stage \in LaneStages ELSE InLane(h)
    BY <1>2 DEF InLane, LaneStages
<1>4. \A h \in Runners :
        pass'[h].stage \in {"store", "storeRefresh"} => pass'[h].item \in DOMAIN looked' \ pass'[h].todo
    BY <1>2 DEF OnePassPerLane, AsksOnce
<1>5. \A h, k \in Runners : InLane(h)' /\ InLane(k)' => h = k
    BY <1>3, Zenon DEF OnePassPerLane
<1>6. busy' <=> \E h \in Runners : InLane(h)'
    <2>1. busy <=> \E h \in Runners : InLane(h)
        BY DEF OnePassPerLane
    <2>2. \A h, k \in Runners : InLane(h) /\ InLane(k) => h = k
        BY DEF OnePassPerLane
    <2>3. CASE busy' = busy /\ (p.stage \in LaneStages <=> InLane(g))
        BY <1>3, <2>1, <2>3, Zenon
    <2>4. CASE busy' = TRUE /\ p.stage \in LaneStages
        BY <1>3, <2>4, Zenon
    <2>5. CASE InLane(g) /\ busy' = FALSE /\ p.stage \notin LaneStages
        BY <1>3, <2>2, <2>5, Zenon
    <2> QED
        BY <2>3, <2>4, <2>5
<1> QED
    BY <1>1, <1>4, <1>5, <1>6 DEF OnePassPerLane

\* Nobody's pass, and not the flag, is touched.
LEMMA NoneMoves ==
    ASSUME FreeLanesTypeOK, OnePassPerLane, UNCHANGED <<pass, busy>>, DOMAIN looked' = DOMAIN looked
    PROVE  pass' \in [Runners -> Passes] /\ busy' \in BOOLEAN /\ OnePassPerLane'
BY DEF FreeLanesTypeOK, OnePassPerLane, InLane

\* The rest of the types, when lane and digest stay.
LEMMA TypedAgain ==
    ASSUME FreeLanesTypeOK, UNCHANGED <<lane, digest>>, looked' \in [Items -> Rows],
           signal' \subseteq {"start", "tick", "kick"},
           pass' \in [Runners -> Passes] /\ busy' \in BOOLEAN /\ OnePassPerLane'
    PROVE  FreeLanesTypeOK' /\ OnePassPerLane'
BY DEF FreeLanesTypeOK, Items

\* An answer makes a row of the row there was.
LEMMA AnsweredTyped ==
    ASSUME FreeLanesTypeOK, NEW i \in Items, NEW status \in {"ok", "failed"}
    PROVE  Answered(i, status) \in Rows
<1>1. looked[i].attempts \in 0..DoublingCap /\ DoublingCap \in Nat /\ OldestAge \in Nat
    BY FreeLanesAssumption DEF FreeLanesTypeOK, Rows
<1>2. LeastOf(looked[i].attempts + 1, DoublingCap) \in 0..DoublingCap
    BY <1>1 DEF LeastOf
<1> QED
    BY <1>1, <1>2 DEF Answered, Rows

\* The next step of a runner that has stored, or has failed to.
LEMMA AfterStoreTyped ==
    ASSUME FreeLanesTypeOK, NEW g \in Runners, pass[g].stage \in {"store", "storeRefresh"}
    PROVE  /\ AfterStore(g) \in Passes
           /\ AfterStore(g).stage \notin {"store", "storeRefresh"}
           /\ AfterStore(g).stage \in LaneStages <=> InLane(g)
<1>1. pass[g].todo \subseteq LaneItems
    BY DEF FreeLanesTypeOK, Passes
<1>2. CASE pass[g].stage = "store"
    BY <1>1, <1>2 DEF AfterStore, NoPass, Passes, LaneStages, InLane
<1>3. CASE pass[g].stage = "storeRefresh"
    BY <1>3, NoPassTyped DEF AfterStore, LaneStages, InLane
<1> QED
    BY <1>2, <1>3

\* What a pass may select is on record.
LEMMA BatchesOnRecord ==
    ASSUME NEW seen \in SUBSET Items, NEW S \in Batches(seen)
    PROVE  S \subseteq LaneItems
BY DEF Batches, Items, LaneItems

LEMMA LaneInit == FreeLanesInit => FreeLanesTypeOK /\ OnePassPerLane
<1> SUFFICES ASSUME FreeLanesInit PROVE FreeLanesTypeOK /\ OnePassPerLane
    OBVIOUS
<1>1. NotLookedUp \in Rows
    BY FreeLanesAssumption DEF NotLookedUp, Rows
<1>2. looked \in [Items -> Rows]
    BY <1>1 DEF FreeLanesInit, Items
<1>3. \A g \in Runners : pass[g] = NoPass
    BY DEF FreeLanesInit
<1>4. OnePassPerLane
    BY <1>3, NoPassTyped DEF FreeLanesInit, OnePassPerLane, InLane
<1> QED
    BY <1>2, <1>4, NoPassTyped DEF FreeLanesInit, FreeLanesTypeOK

\* A step of a runner.
LEMMA LaneRunnerStep ==
    ASSUME FreeLanesTypeOK, OnePassPerLane, NEW g \in Runners,
           RunnerStep(g) \/ FailStoring(g) \/ CutLane(g)
    PROVE  FreeLanesTypeOK' /\ OnePassPerLane'
<1>1. g \in DOMAIN pass /\ pass[g] \in Passes /\ pass \in [Runners -> Passes] /\ Loop \in Runners
    BY DEF FreeLanesTypeOK, Runners
<1>2. DOMAIN looked = Items /\ looked \in [Items -> Rows] /\ signal \subseteq {"start", "tick", "kick"}
    BY DEF FreeLanesTypeOK
<1>3. CASE g = Loop /\ WakeLane
    <2> DEFINE p == [NoPass EXCEPT !.stage = IF busy THEN "none" ELSE "select"]
    <2>1. p \in Passes /\ p.stage = (IF busy THEN "none" ELSE "select")
        BY NoPassTyped DEF NoPass, Passes
    <2>2. pass' = [pass EXCEPT ![g] = p]
        BY <1>1, <1>3 DEF WakeLane
    <2>3. ~InLane(g)
        BY <1>3, NoPassTyped DEF WakeLane, InLane
    <2>4. AsksOnce(p, DOMAIN looked)
        BY <2>1 DEF AsksOnce
    <2>5. looked' = looked /\ UNCHANGED <<lane, digest>> /\ busy' = TRUE /\ signal' \subseteq signal
        BY <1>3 DEF WakeLane
    <2> HIDE DEF p
    <2>6. \/ busy' = busy /\ (p.stage \in LaneStages <=> InLane(g))
          \/ ~busy /\ busy' = TRUE /\ p.stage \in LaneStages
        <3>1. CASE busy
            BY <2>1, <2>3, <2>5, <3>1 DEF LaneStages, FreeLanesTypeOK
        <3>2. CASE ~busy
            BY <2>1, <2>5, <3>2 DEF LaneStages
        <3> QED
            BY <3>1, <3>2
    <2>7. pass' \in [Runners -> Passes] /\ busy' \in BOOLEAN /\ OnePassPerLane'
        BY <2>1, <2>2, <2>4, <2>5, <2>6, OneMoves, Zenon
    <2> QED
        BY <1>2, <2>5, <2>7, TypedAgain, Zenon
<1>4. CASE SelectDue(g)
    <2>1. PICK seen \in {DOMAIN looked, DOMAIN looked \ (Addresses \ SteadyAddresses)} :
             \E S \in Batches(seen) : pass' = [pass EXCEPT ![g].stage = "lookup", ![g].todo = S]
        BY <1>4 DEF SelectDue
    <2>2. PICK S \in Batches(seen) : pass' = [pass EXCEPT ![g].stage = "lookup", ![g].todo = S]
        BY <2>1
    <2>3. S \subseteq LaneItems
        BY <1>2, BatchesOnRecord
    <2>4. pass'[g].stage = "lookup" /\ pass'[g] \in Passes
        BY <1>1, <2>2, <2>3 DEF Passes
    <2>5. pass' = [pass EXCEPT ![g] = pass'[g]]
        BY <1>1, <2>2
    <2>6. looked' = looked /\ signal' = signal /\ UNCHANGED <<lane, digest>> /\ busy' = busy /\ InLane(g)
        BY <1>4 DEF SelectDue, InLane
    <2>7. AsksOnce(pass'[g], DOMAIN looked) /\ pass'[g].stage \in LaneStages
        BY <2>4 DEF AsksOnce, LaneStages
    <2>8. pass' \in [Runners -> Passes] /\ busy' \in BOOLEAN /\ OnePassPerLane'
        BY <2>4, <2>5, <2>6, <2>7, OneMoves, Zenon
    <2> QED
        BY <1>2, <2>6, <2>8, TypedAgain, Zenon
<1>5. ASSUME NEW i \in DOMAIN looked, NEW answer \in GeoAnswers \cup RegistryAnswers, AskProvider(g, i, answer)
      PROVE  FreeLanesTypeOK' /\ OnePassPerLane'
    <2>1. i \in LaneItems /\ StatusOf(answer) \in {"ok", "failed"} /\ pass[g].todo \subseteq LaneItems
        BY <1>1, <1>2 DEF Items, LaneItems, StatusOf, Passes
    <2>2. /\ pass'[g] \in Passes /\ pass'[g].item = i /\ pass'[g].todo = pass[g].todo \ {i}
          /\ pass'[g].stage = IF pass[g].stage = "refresh" THEN "storeRefresh" ELSE "store"
        BY <1>1, <1>5, <2>1 DEF AskProvider, Passes
    <2>3. pass' = [pass EXCEPT ![g] = pass'[g]]
        BY <1>1, <1>5 DEF AskProvider
    <2>4. AsksOnce(pass'[g], DOMAIN looked) /\ (pass'[g].stage \in LaneStages <=> InLane(g))
        <3>1. pass[g].stage \in {"lookup", "refresh"}
            BY <1>5 DEF AskProvider
        <3>2. AsksOnce(pass'[g], DOMAIN looked)
            BY <2>2 DEF AsksOnce
        <3>3. pass'[g].stage \in LaneStages <=> InLane(g)
            BY <2>2, <3>1 DEF LaneStages, InLane
        <3> QED
            BY <3>2, <3>3
    <2>5. looked' = looked /\ signal' = signal /\ UNCHANGED <<lane, digest>> /\ busy' = busy
        BY <1>5 DEF AskProvider
    <2>6. pass' \in [Runners -> Passes] /\ busy' \in BOOLEAN /\ OnePassPerLane'
        BY <2>2, <2>3, <2>4, <2>5, OneMoves, Zenon
    <2> QED
        BY <1>2, <2>5, <2>6, TypedAgain, Zenon
<1>6. ASSUME pass[g].stage \in {"store", "storeRefresh"}, pass' = [pass EXCEPT ![g] = AfterStore(g)],
             UNCHANGED <<lane, digest, busy, signal>>, looked' \in [Items -> Rows]
      PROVE  FreeLanesTypeOK' /\ OnePassPerLane'
    <2>1. AfterStore(g) \in Passes /\ (AfterStore(g).stage \in LaneStages <=> InLane(g))
        BY <1>6, AfterStoreTyped, Zenon
    <2>2. AsksOnce(AfterStore(g), DOMAIN looked)
        BY <1>6, AfterStoreTyped, Zenon DEF AsksOnce
    <2>3. DOMAIN looked' = DOMAIN looked
        BY <1>2, <1>6
    <2>4. pass' \in [Runners -> Passes] /\ busy' \in BOOLEAN /\ OnePassPerLane'
        BY <1>6, <2>1, <2>2, <2>3, OneMoves, Zenon
    <2> QED
        BY <1>2, <1>6, <2>4, TypedAgain, Zenon
<1>7. CASE StoreAnswer(g)
    <2>1. pass[g].stage \in {"store", "storeRefresh"} /\ pass[g].status \in {"ok", "failed"}
        BY <1>1, <1>7 DEF StoreAnswer, Passes
    <2>2. pass[g].item \in Items
        BY <1>2, <2>1 DEF OnePassPerLane
    <2>3. PICK a : a = Answered(pass[g].item, pass[g].status)
        OBVIOUS
    <2>4. a \in Rows
        BY <2>1, <2>2, <2>3, AnsweredTyped, Zenon
    <2>5. looked' = [looked EXCEPT ![pass[g].item] = a]
        BY <1>7, <2>3, Zenon DEF StoreAnswer
    <2>6. looked' \in [Items -> Rows]
        BY <1>2, <2>4, <2>5
    <2>7. pass' = [pass EXCEPT ![g] = AfterStore(g)] /\ UNCHANGED <<lane, digest, busy, signal>>
        BY <1>7 DEF StoreAnswer
    <2> QED
        BY <1>6, <2>1, <2>6, <2>7, Zenon
<1>8. CASE FailStoring(g)
    BY <1>2, <1>6, <1>8 DEF FailStoring
<1>9. ASSUME pass[g].stage \in LaneStages, LeaveLane(g), UNCHANGED <<lane, looked, digest, signal>>
      PROVE  FreeLanesTypeOK' /\ OnePassPerLane'
    <2>1. InLane(g) /\ pass' = [pass EXCEPT ![g] = NoPass] /\ busy' = FALSE /\ DOMAIN looked' = DOMAIN looked
        BY <1>9 DEF LeaveLane, InLane, LaneStages
    <2>2. NoPass \in Passes /\ NoPass.stage \notin LaneStages /\ AsksOnce(NoPass, DOMAIN looked)
        BY NoPassTyped DEF LaneStages, AsksOnce
    <2>3. pass' \in [Runners -> Passes] /\ busy' \in BOOLEAN /\ OnePassPerLane'
        BY <2>1, <2>2, OneMoves, Zenon
    <2> QED
        BY <1>2, <1>9, <2>3, TypedAgain, Zenon
<1>10. CASE EndLane(g)
    BY <1>9, <1>10 DEF EndLane, LaneStages
<1>11. CASE CutLane(g)
    BY <1>9, <1>11 DEF CutLane, LaneStages
<1> QED
    BY <1>3, <1>4, <1>5, <1>7, <1>8, <1>10, <1>11 DEF RunnerStep

\* A step of a user, of the other lanes, of the clock, and a restart.
LEMMA LaneOtherStep ==
    ASSUME FreeLanesTypeOK, OnePassPerLane,
           \/ \E v \in Visitors : RunNow(v) \/ \E a \in DOMAIN looked : RefreshAddress(v, a)
           \/ \E a \in DOMAIN looked : UpsertVTRow(a) \/ ReportDigest(a)
           \/ Kick \/ LaneTick \/ LanesRestart
           \/ UNCHANGED laneVars
    PROVE  FreeLanesTypeOK' /\ OnePassPerLane'
<1>1. DOMAIN looked = Items /\ looked \in [Items -> Rows] /\ signal \subseteq {"start", "tick", "kick"}
    BY DEF FreeLanesTypeOK
<1>2. Visitors \subseteq Runners /\ pass \in [Runners -> Passes]
    BY DEF Runners, FreeLanesTypeOK
<1>3. ASSUME UNCHANGED <<pass, busy, lane, digest>>, looked' \in [Items -> Rows],
             signal' \subseteq {"start", "tick", "kick"}
      PROVE  FreeLanesTypeOK' /\ OnePassPerLane'
    <2>1. DOMAIN looked' = DOMAIN looked
        BY <1>1, <1>3
    <2>2. pass' \in [Runners -> Passes] /\ busy' \in BOOLEAN /\ OnePassPerLane'
        BY <1>3, <2>1, NoneMoves, Zenon
    <2> QED
        BY <1>3, <2>2, TypedAgain, Zenon
<1>4. ASSUME NEW v \in Visitors, RunNow(v)
      PROVE  FreeLanesTypeOK' /\ OnePassPerLane'
    <2>1. /\ pass'[v].stage = "select" /\ pass'[v] \in Passes /\ pass' = [pass EXCEPT ![v] = pass'[v]]
          /\ v \in Runners /\ busy' = TRUE /\ ~busy
          /\ looked' = looked /\ signal' = signal /\ UNCHANGED <<lane, digest>>
        BY <1>2, <1>4 DEF RunNow, Passes
    <2>2. AsksOnce(pass'[v], DOMAIN looked) /\ pass'[v].stage \in LaneStages
        BY <2>1 DEF AsksOnce, LaneStages
    <2>3. pass' \in [Runners -> Passes] /\ busy' \in BOOLEAN /\ OnePassPerLane'
        BY <2>1, <2>2, OneMoves, Zenon
    <2> QED
        BY <1>1, <2>1, <2>3, TypedAgain, Zenon
<1>5. ASSUME NEW v \in Visitors, NEW a \in DOMAIN looked, RefreshAddress(v, a)
      PROVE  FreeLanesTypeOK' /\ OnePassPerLane'
    <2> DEFINE p == [NoPass EXCEPT !.stage = "refresh", !.todo = {a}]
    <2>1. p \in Passes /\ p.stage = "refresh"
        BY <1>1 DEF NoPass, Passes, Items, LaneItems
    <2>2. /\ pass' = [pass EXCEPT ![v] = p] /\ pass[v] = NoPass /\ v \in Runners
          /\ looked' = looked /\ signal' = signal /\ UNCHANGED <<lane, digest, busy>>
        BY <1>2, <1>5 DEF RefreshAddress
    <2> HIDE DEF p
    <2>3. AsksOnce(p, DOMAIN looked) /\ (p.stage \in LaneStages <=> InLane(v))
        BY <2>1, <2>2, NoPassTyped DEF AsksOnce, LaneStages, InLane
    <2>4. pass' \in [Runners -> Passes] /\ busy' \in BOOLEAN /\ OnePassPerLane'
        BY <2>1, <2>2, <2>3, OneMoves, Zenon
    <2> QED
        BY <1>1, <2>2, <2>4, TypedAgain, Zenon
<1>6. ASSUME NEW a \in DOMAIN looked, UpsertVTRow(a)
      PROVE  FreeLanesTypeOK' /\ OnePassPerLane'
    <2>1. looked' \in [Items -> Rows]
        BY <1>1, <1>6 DEF UpsertVTRow, Rows
    <2> QED
        BY <1>1, <1>3, <1>6, <2>1 DEF UpsertVTRow
<1>7. ASSUME NEW a \in DOMAIN looked, ReportDigest(a)
      PROVE  FreeLanesTypeOK' /\ OnePassPerLane'
    <2>1. UNCHANGED <<pass, busy>> /\ DOMAIN looked' = DOMAIN looked
        BY <1>7 DEF ReportDigest
    <2>2. pass' \in [Runners -> Passes] /\ busy' \in BOOLEAN /\ OnePassPerLane'
        BY <2>1, NoneMoves, Zenon
    <2> QED
        BY <1>1, <1>7, <2>2 DEF ReportDigest, FreeLanesTypeOK, Items
<1>8. CASE Kick
    BY <1>1, <1>3, <1>8 DEF Kick
<1>9. CASE LaneTick
    <2>1. looked' \in [Items -> Rows]
        <3>1. \A i \in Items : LeastOf(looked[i].age + 1, OldestAge) \in 0..OldestAge
            BY <1>1, FreeLanesAssumption DEF Rows, LeastOf
        <3> QED
            <4>1. looked' = [i \in Items |-> [looked[i] EXCEPT !.age = LeastOf(@ + 1, OldestAge)]]
                BY <1>1, <1>9 DEF LaneTick
            <4>2. ASSUME NEW i \in Items
                  PROVE  [looked[i] EXCEPT !.age = LeastOf(@ + 1, OldestAge)] \in Rows
                <5>1. looked[i] \in Rows /\ LeastOf(looked[i].age + 1, OldestAge) \in 0..OldestAge
                    BY <1>1, <3>1
                <5>2. \A n \in 0..OldestAge : [looked[i] EXCEPT !.age = n] \in Rows
                    BY <5>1 DEF Rows
                <5> QED
                    BY <5>1, <5>2, Zenon
            <4> QED
                BY <4>1, <4>2, Zenon
    <2> QED
        BY <1>1, <1>3, <1>9, <2>1 DEF LaneTick
<1>10. CASE LanesRestart
    <2>1. \A g \in Runners : pass'[g] = NoPass
        BY <1>10 DEF LanesRestart
    <2>2. OnePassPerLane'
        BY <1>10, <2>1, NoPassTyped DEF LanesRestart, OnePassPerLane, InLane
    <2>3. pass' \in [Runners -> Passes] /\ busy' \in BOOLEAN
        BY <1>10, NoPassTyped DEF LanesRestart
    <2> QED
        BY <1>1, <1>10, <2>2, <2>3, TypedAgain DEF LanesRestart
<1>11. CASE UNCHANGED laneVars
    BY <1>1, <1>3, <1>11 DEF laneVars
<1> QED
    BY <1>4, <1>5, <1>6, <1>7, <1>8, <1>9, <1>10, <1>11

\* For every set of addresses, files and requests: the flag of a lane is set exactly
\* while one pass runs it, whatever order the loop's signals, requests, refreshes,
\* failures and restarts come in, and a pass asks about no item twice.  The types of
\* the rows go with it: that what is about to be stored is on record, and has a
\* status, is what keeps a row a row.
THEOREM OnePassAtATime == FreeLanesSpec => []OnePassPerLane
<1>1. FreeLanesTypeOK /\ OnePassPerLane /\ [FreeLanesNext]_laneVars
        => FreeLanesTypeOK' /\ OnePassPerLane'
    <2> SUFFICES ASSUME FreeLanesTypeOK, OnePassPerLane, [FreeLanesNext]_laneVars
                 PROVE  FreeLanesTypeOK' /\ OnePassPerLane'
        OBVIOUS
    <2>1. CASE \E g \in Runners : RunnerStep(g) \/ FailStoring(g) \/ CutLane(g)
        BY <2>1, LaneRunnerStep, Zenon
    <2> QED
        BY <2>1, LaneOtherStep, Zenon DEF FreeLanesNext
<1> QED
    BY <1>1, LaneInit, PTL DEF FreeLanesSpec
=============================================================================
