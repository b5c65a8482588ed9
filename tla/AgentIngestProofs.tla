------------------------- MODULE AgentIngestProofs -------------------------
(***************************************************************************)
(* Proofs about the agents and the ingest, for every number of machines,   *)
(* tokens, rows and programs, every limit and every order of failures.     *)
(***************************************************************************)
EXTENDS AgentIngest, SequenceTheorems, FiniteSetTheorems, TLAPS

Uploads == [phase : Phases, batch : Batches, spooled : BOOLEAN,
            row : Tokens \cup {NoToken}, auto : BOOLEAN, flushed : Nat, skip : Nat]

(* The database knows the agent a request is about once it has let it in.  *)
RowIsKnown == \A m \in Machines : up[m].phase \in {"auth", "stored", "touched", "ok"} => up[m].row \in Tokens

(* A machine that uploads nothing, or looks for a file to send, has no     *)
(* batch in hand; one that sends from the spool has a file in hand that is *)
(* still there, after those it had to leave.                               *)
FileInHand(u, f) == u.skip + 1 \in DOMAIN f /\ f[u.skip + 1] = u.batch
InHand ==
    /\ \A m \in Machines : up[m].phase \in {"idle", "peek"} => Content(up[m].batch) = {}
    /\ \A m \in Machines : up[m].phase \in {"idle", "peek", "spool"} => ~up[m].spooled
    /\ \A m \in Machines : up[m].spooled => FileInHand(up[m], spool[m])
    /\ \A m \in Machines : up[m].skip > 0 => m \in jammed

(* An aggregator has finitely many rows.                                   *)
AggFinite == \A m \in Machines : IsFiniteSet(agg[m])

(* What the handler has passed it has stored or refused.                   *)
Settled ==
    \A m \in Machines :
        /\ up[m].phase \in {"stored", "touched", "ok"} => up[m].batch.rows \subseteq kept \cup lost
        /\ up[m].phase = "ok" => up[m].batch.progs \subseteq kept \cup lost

TypeInv == IngestTypeOK /\ RowIsKnown /\ InHand /\ AggFinite
LossInv == Settled /\ NoSilentLoss

(* A row is in one place: an aggregator, the batch in hand or one file of  *)
(* one spool (the batch in hand of a machine that drains is one of its     *)
(* files).  None of them comes back once it is gone.                        *)
In(s, r)    == \E i \in DOMAIN s : r \in s[i].rows
Apart(s, r) == \A i, j \in DOMAIN s : r \in s[i].rows /\ r \in s[j].rows => i = j
Has(m, r)   == r \in agg[m] \/ r \in up[m].batch.rows \/ In(spool[m], r)

Once(m, r) ==
    /\ r \in agg[m] => r \notin up[m].batch.rows /\ ~In(spool[m], r)
    /\ r \in up[m].batch.rows /\ ~up[m].spooled => ~In(spool[m], r)
    /\ Apart(spool[m], r)

OnePlace ==
    /\ \A m \in Machines, r \in Rows : Once(m, r) /\ (Has(m, r) => born[r] > 0)
    /\ \A m, n \in Machines, r \in Rows : Has(m, r) /\ Has(n, r) => m = n

(* What a machine still has was never stored, unless the handler is past   *)
(* storing it or failed after it.                                          *)
Answering(m) == up[m].phase \in {"stored", "touched", "ok"}
NotYetStored ==
    \A m \in Machines, r \in Rows :
        Has(m, r) /\ r \in kept => r \in unsure \/ (r \in up[m].batch.rows /\ Answering(m))
StoredIsKept ==
    \A r \in Rows : /\ \A t \in Tokens : stored[t][r] > 0 => r \in kept
                    /\ r \in kept => born[r] > 0

OnceInv == OnePlace /\ NotYetStored /\ StoredIsKept /\ CountedTwiceOnlyAfterFailure

---------------------------------------------------------------------------
(* The parts of the type invariant. *)
Agents == [state : {"none", "active", "revoked"}, seen : Nat, auto : BOOLEAN]
ServerTypes ==
    /\ token \in [Tokens -> {"absent", "fresh", "spent"}]
    /\ agents \in [Tokens -> Agents]
    /\ stored \in [Tokens -> [Items -> Nat]]
    /\ ret \in [conn : Nat, stale : Nat, auto : BOOLEAN]
MachineTypes ==
    /\ cred \in [Machines -> Tokens \cup {NoToken}]
    /\ agg \in [Machines -> SUBSET Rows] /\ ids \in [Machines -> SUBSET Programs]
    /\ up \in [Machines -> Uploads]
    /\ spool \in [Machines -> Seq(Batches)]
    /\ updated \subseteq Machines
HistoryTypes ==
    /\ born \in [Items -> Nat] /\ day \in Nat \ {0} /\ upsets \in Nat
    /\ kept \subseteq Items /\ lost \subseteq Items /\ unsure \subseteq Items
    /\ jammed \subseteq Machines
Bounds == \A m \in Machines : (m \in jammed \/ Len(spool[m]) <= MaxSpool) /\ Cardinality(agg[m]) <= MaxKeys

(* The type invariant is its parts.                                        *)
LEMMA Parts == IngestTypeOK <=> ServerTypes /\ MachineTypes /\ HistoryTypes /\ Bounds
  BY DEF IngestTypeOK, ServerTypes, MachineTypes, HistoryTypes, Bounds, Uploads, Agents

(* The same of the next state.                                             *)
LEMMA PartsAfter ==
    ServerTypes' /\ MachineTypes' /\ HistoryTypes' /\ Bounds' /\ RowIsKnown' /\ InHand' /\ AggFinite'
        => TypeInv'
  BY DEF TypeInv, IngestTypeOK, ServerTypes, MachineTypes, HistoryTypes, Bounds, Uploads, Agents

(* What has no machine in hand is an upload.                               *)
LEMMA IdleTyped ==
    /\ EmptyBatch \in Batches /\ Content(EmptyBatch) = {} /\ EmptyBatch.rows = {}
    /\ Idle \in Uploads /\ Idle.phase = "idle" /\ Idle.spooled = FALSE /\ Idle.batch = EmptyBatch /\ Idle.skip = 0
    /\ \A b \in Batches : [Idle EXCEPT !.phase = "wire", !.batch = b] \in Uploads
    /\ \A b \in Batches : LET u == [Idle EXCEPT !.phase = "spool", !.batch = b]
                          IN  u \in Uploads /\ u.phase = "spool" /\ u.batch = b /\ ~u.spooled /\ u.skip = 0
    /\ \A n \in Nat : LET u == Peeking(n)
                      IN  u \in Uploads /\ u.phase = "peek" /\ u.batch = EmptyBatch /\ ~u.spooled /\ u.skip = 0
  BY DEF EmptyBatch, Batches, Content, Idle, Peeking, Uploads, Phases

(* One upload is replaced.                                                 *)
LEMMA Replaced ==
    ASSUME up \in [Machines -> Uploads], NEW m \in Machines, NEW u \in Uploads,
           up' = [up EXCEPT ![m] = u]
    PROVE  /\ up' \in [Machines -> Uploads]
           /\ up'[m] = u
           /\ \A n \in Machines : n # m => up'[n] = up[n]
  OBVIOUS

(* A handler, or the network, moves one upload on.                         *)
LEMMA Moved ==
    ASSUME up \in [Machines -> Uploads], NEW m \in Machines, NEW p \in Phases, Goto(m, p)
    PROVE  /\ up' \in [Machines -> Uploads]
           /\ up'[m].phase = p /\ up'[m].batch = up[m].batch
           /\ up'[m].spooled = up[m].spooled /\ up'[m].row = up[m].row /\ up'[m].skip = up[m].skip
           /\ \A n \in Machines : n # m => up'[n] = up[n]
  BY DEF Goto, Uploads

---------------------------------------------------------------------------
(* Types *)

(* The type invariant holds before anything is enrolled.                   *)
LEMMA IngestInit == Init => TypeInv
  <1> SUFFICES ASSUME Init PROVE TypeInv
      OBVIOUS
  <1>1. ServerTypes
      BY IngestAssumption DEF Init, ServerTypes, Agents, NoAgent, DefaultAgentRetention
  <1>2. MachineTypes
      BY IdleTyped, EmptySeq DEF Init, MachineTypes
  <1>3. HistoryTypes
      BY DEF Init, HistoryTypes
  <1>4. Bounds /\ AggFinite
      BY IngestAssumption, FS_EmptySet DEF Init, Bounds, AggFinite
  <1>5. RowIsKnown /\ InHand
    <2>1. \A m \in Machines : /\ up[m].phase = "idle" /\ up[m].spooled = FALSE /\ Content(up[m].batch) = {}
                             /\ up[m].skip = 0
        BY IdleTyped DEF Init
    <2>2. ~(0 > 0)
        OBVIOUS
    <2> QED BY <2>1, <2>2, Zenon DEF RowIsKnown, InHand
  <1> QED
      BY <1>1, <1>2, <1>3, <1>4, <1>5, Parts DEF TypeInv

(* The administrator's side: no machine is touched.                        *)
LEMMA ServerSideTypes ==
    ASSUME TypeInv, ServerTypes', HistoryTypes', UNCHANGED <<machine, jammed>>
    PROVE  TypeInv'
  BY Parts, PartsAfter DEF TypeInv, MachineTypes, Bounds, AggFinite, RowIsKnown, InHand, machine

(* The handler's side: one upload moves on, the machine keeps what it has. *)
LEMMA HandlerSideTypes ==
    ASSUME TypeInv, ServerTypes', HistoryTypes', UNCHANGED <<cred, agg, ids, spool, updated, jammed>>,
           NEW m \in Machines, NEW p \in Phases, Goto(m, p),
           p \in {"auth", "stored", "touched", "ok"} => up[m].row \in Tokens,
           p \notin {"idle", "peek", "spool"}
    PROVE  TypeInv'
  <1>1. MachineTypes' /\ Bounds' /\ AggFinite'
      BY Moved, Parts DEF TypeInv, MachineTypes, Bounds, AggFinite
  <1>2. /\ up'[m].phase = p /\ up'[m].batch = up[m].batch
        /\ up'[m].spooled = up[m].spooled /\ up'[m].row = up[m].row /\ up'[m].skip = up[m].skip
        /\ \A n \in Machines : n # m => up'[n] = up[n]
      BY Moved, Parts DEF TypeInv, MachineTypes
  <1>3. RowIsKnown'
      BY <1>2 DEF TypeInv, RowIsKnown
  <1>4. InHand'
      BY <1>2 DEF TypeInv, InHand, FileInHand
  <1> QED
      BY <1>1, <1>3, <1>4, PartsAfter

(* The phases in which no handler works on the batch.                      *)
Away == {"idle", "wire", "peek", "spool"}

(* The agent's side: one upload is replaced by one that is not yet let in. *)
LEMMA AgentSideTypes ==
    ASSUME TypeInv, ServerTypes', HistoryTypes', UNCHANGED cred,
           NEW m \in Machines, NEW u \in Uploads, up' = [up EXCEPT ![m] = u],
           u.phase \in Away, u.phase \in {"idle", "peek"} => Content(u.batch) = {},
           u.phase # "wire" => ~u.spooled, u.spooled => FileInHand(u, spool'[m]),
           jammed \subseteq jammed', u.skip > 0 => m \in jammed',
           NEW a \in SUBSET Rows, agg' = [agg EXCEPT ![m] = a], IsFiniteSet(a), Cardinality(a) <= MaxKeys,
           NEW i \in SUBSET Programs, ids' = [ids EXCEPT ![m] = i],
           NEW f \in Seq(Batches), spool' = [spool EXCEPT ![m] = f],
           m \in jammed' \/ Len(f) <= MaxSpool,
           updated' \subseteq Machines
    PROVE  TypeInv'
  <1>1. MachineTypes'
      BY Replaced, Parts DEF TypeInv, MachineTypes
  <1>2. Bounds' /\ AggFinite'
      BY Parts DEF TypeInv, MachineTypes, Bounds, AggFinite
  <1>3. up' \in [Machines -> Uploads] /\ up'[m] = u /\ \A n \in Machines : n # m => up'[n] = up[n]
      BY Replaced, Parts DEF TypeInv, MachineTypes
  <1>4. \A n \in Machines : n # m => spool'[n] = spool[n]
      BY Parts DEF TypeInv, MachineTypes
  <1>5. RowIsKnown'
      BY <1>3 DEF TypeInv, RowIsKnown, Away
  <1>6. InHand'
      BY <1>3, <1>4 DEF TypeInv, InHand, Away, FileInHand
  <1> QED
      BY <1>1, <1>2, <1>5, <1>6, PartsAfter

(* What the handler adds to an agent's data are numbers.                   *)
LEMMA StoredTyped ==
    ASSUME stored \in [Tokens -> [Items -> Nat]], NEW t \in Tokens, NEW S,
           \/ stored' = [stored EXCEPT ![t] = Bump(@, S)]
           \/ stored' = [stored EXCEPT ![t] = [i \in Items |-> IF i \in S THEN 1 ELSE stored[t][i]]]
    PROVE  stored' \in [Tokens -> [Items -> Nat]]
  <1>1. Bump(stored[t], S) \in [Items -> Nat]
    <2>1. \A i \in Items : stored[t][i] \in Nat
        OBVIOUS
    <2> QED BY <2>1 DEF Bump
  <1>2. [i \in Items |-> IF i \in S THEN 1 ELSE stored[t][i]] \in [Items -> Nat]
      OBVIOUS
  <1> QED BY <1>1, <1>2

(* A file less: those before it stay where they are, those after it move   *)
(* up.                                                                     *)
LEMMA FileGone ==
    ASSUME NEW s \in Seq(Batches), NEW n \in DOMAIN s
    PROVE  LET f == WithoutFile(s, n)
           IN  /\ f \in Seq(Batches) /\ Len(f) < Len(s)
               /\ s[n] \in Batches
               /\ \A i \in DOMAIN f : \E j \in DOMAIN s : j # n /\ f[i] = s[j] /\ j = IF i < n THEN i ELSE i + 1
               /\ \A j \in DOMAIN s : j # n => \E i \in DOMAIN f : f[i] = s[j]
  <1> DEFINE f == WithoutFile(s, n)
  <1>1. Len(s) \in Nat /\ DOMAIN s = 1..Len(s) /\ n \in 1..Len(s) /\ Len(s) - 1 \in Nat
      OBVIOUS
  <1>2. \A i \in 1..Len(s) : s[i] \in Batches
      OBVIOUS
  <1>3. f = [i \in 1..(Len(s) - 1) |-> IF i < n THEN s[i] ELSE s[i + 1]]
      BY DEF WithoutFile
  <1>4. \A i \in 1..(Len(s) - 1) : i \in 1..Len(s) /\ i + 1 \in 1..Len(s)
      BY <1>1
  <1>5. f \in [1..(Len(s) - 1) -> Batches]
      BY <1>2, <1>3, <1>4
  <1>6. f \in Seq(Batches) /\ Len(f) = Len(s) - 1 /\ DOMAIN f = 1..(Len(s) - 1)
    <2> HIDE DEF f
    <2>1. PICK k \in Nat : k = Len(s) - 1
        BY <1>1
    <2>2. f \in [1..k -> Batches]
        BY <1>5, <2>1
    <2>3. f \in Seq(Batches) /\ Len(f) = k /\ DOMAIN f = 1..k
        BY <2>2
    <2> QED BY <2>1, <2>3
  <1>7. \A i \in DOMAIN f : f[i] = IF i < n THEN s[i] ELSE s[i + 1]
      BY <1>3, <1>6
  <1> HIDE DEF f
  <1>8. ASSUME NEW i \in DOMAIN f
        PROVE  \E j \in DOMAIN s : j # n /\ f[i] = s[j] /\ j = IF i < n THEN i ELSE i + 1
    <2>1. CASE i < n
      <3>1. i \in DOMAIN s /\ i # n /\ f[i] = s[i]
          BY <1>1, <1>4, <1>6, <1>7, <2>1
      <3> QED BY <2>1, <3>1
    <2>2. CASE ~(i < n)
      <3>1. i + 1 \in DOMAIN s /\ i + 1 # n /\ f[i] = s[i + 1]
          BY <1>1, <1>4, <1>6, <1>7, <2>2
      <3> QED BY <2>2, <3>1
    <2> QED BY <2>1, <2>2
  <1>9. ASSUME NEW j \in DOMAIN s, j # n PROVE \E i \in DOMAIN f : f[i] = s[j]
    <2>1. CASE j < n
      <3>1. j \in DOMAIN f /\ f[j] = s[j]
          BY <1>1, <1>6, <1>7, <2>1
      <3> QED BY <3>1
    <2>2. CASE ~(j < n)
      <3>1. j - 1 \in DOMAIN f /\ ~(j - 1 < n) /\ (j - 1) + 1 = j
          BY <1>1, <1>6, <1>9, <2>2
      <3> QED BY <1>7, <3>1
    <2> QED BY <2>1, <2>2
  <1>10. Len(f) < Len(s) /\ s[n] \in Batches
      BY <1>1, <1>2, <1>6
  <1> QED
      BY <1>6, <1>8, <1>9, <1>10 DEF f

(* A spool that needs no room has room, if no file of it was passed over.  *)
LEMMA RoomLeft ==
    ASSUME NEW m, spool[m] \in Seq(Batches), up[m].skip \in Nat
    PROVE  /\ NeedsRoom(m) => up[m].skip + 1 \in DOMAIN spool[m]
           /\ ~NeedsRoom(m) /\ up[m].skip = 0 => Len(spool[m]) + 1 <= MaxSpool
  <1> DEFINE s == spool[m]
             k == up[m].skip + 1
             left == SubSeq(s, k, Len(s))
  <1>1. Len(s) \in Nat /\ DOMAIN s = 1..Len(s) /\ k \in Nat /\ k >= 1
      OBVIOUS
  <1>2. ASSUME k > Len(s) PROVE left = <<>>
      BY <1>1, <1>2
  <1>3. ASSUME up[m].skip = 0 PROVE left = s
    <2>1. left = SubSeq(s, 1, Len(s))
        BY <1>3
    <2> HIDE DEF left
    <2>2. SubSeq(s, 1, Len(s)) = s
        BY SubSeqFull
    <2> QED BY <2>1, <2>2
  <1>4. NeedsRoom(m) => left # <<>>
      BY DEF NeedsRoom
  <1>5. NeedsRoom(m) => k \in DOMAIN s
      BY <1>1, <1>2, <1>4
  <1>6. ASSUME ~NeedsRoom(m), up[m].skip = 0 PROVE Len(s) + 1 <= MaxSpool
    <2>1. left = <<>> \/ ~(Len(left) >= MaxSpool)
        BY <1>6 DEF NeedsRoom
    <2>2. s = <<>> \/ ~(Len(s) >= MaxSpool)
        BY <1>3, <1>6, <2>1
    <2> QED BY <1>1, <2>2, IngestAssumption
  <1> QED BY <1>5, <1>6

(* What an agent does with the batch in hand and with its spool, one       *)
(* outcome for each way the batch and a file may go.                       *)
Plain(u)       == u.batch = EmptyBatch /\ ~u.spooled
Working(m)     == ~up[m].spooled /\ ~Answering(m)
LetsGo(m, u, f)   == up[m].phase = "ok" /\ ~up[m].spooled /\ Plain(u) /\ f = spool[m] /\ UNCHANGED <<lost, unsure>>
LeavesIt(m, u, f) == /\ ~Answering(m) /\ (up[m].spooled \/ Content(up[m].batch) = {})
                     /\ u.spooled \/ Plain(u)
                     /\ f = spool[m] /\ UNCHANGED <<lost, unsure>>
GoesOn(m, u, f)   == Working(m) /\ u.batch = up[m].batch /\ ~u.spooled /\ f = spool[m] /\ UNCHANGED <<lost, unsure>>
Drops(m, u, f)    == /\ Working(m) /\ u.batch = up[m].batch /\ ~u.spooled /\ unsure' = unsure
                     /\ \E n \in DOMAIN spool[m] :
                          f = WithoutFile(spool[m], n) /\ lost' = lost \cup Content(spool[m][n])
Clears(m, u, f)   == /\ up[m].phase = "ok" /\ up[m].spooled /\ Plain(u) /\ UNCHANGED <<lost, unsure>>
                     /\ f = WithoutFile(spool[m], up[m].skip + 1)
Doubts(m, u, f)   == /\ up[m].phase = "ok" /\ up[m].spooled /\ Plain(u) /\ f = spool[m]
                     /\ lost' = lost /\ unsure' = unsure \cup Ambiguous(m)
Writes(m, u, f)   == Working(m) /\ Plain(u) /\ f = Append(spool[m], up[m].batch) /\ UNCHANGED <<lost, unsure>>
GivesUp(m, u, f)  == /\ Working(m) /\ Plain(u) /\ f = spool[m] /\ unsure' = unsure
                     /\ lost' = lost \cup Content(up[m].batch)

Outcome(m, u, f) ==
    \/ LetsGo(m, u, f) \/ LeavesIt(m, u, f) \/ GoesOn(m, u, f) \/ Drops(m, u, f)
    \/ Clears(m, u, f) \/ Doubts(m, u, f) \/ Writes(m, u, f) \/ GivesUp(m, u, f)

FileStep(m, u, f) ==
    /\ up' = [up EXCEPT ![m] = u] /\ spool' = [spool EXCEPT ![m] = f]
    /\ UNCHANGED <<server, cred, agg, ids, updated, born, day, kept>>
    /\ upsets' \in Nat /\ jammed' \in {jammed, jammed \cup {m}}
    /\ u.phase \in Away /\ (u.phase \in {"idle", "peek"} => Content(u.batch) = {})
    /\ u.phase # "wire" => ~u.spooled
    /\ u.spooled => FileInHand(u, f)
    /\ u.skip > 0 => m \in jammed'
    /\ m \in jammed' \/ Len(f) <= MaxSpool
    /\ Outcome(m, u, f)

HandlesFiles(m) ==
    \/ Accepted(m) /\ up'[m].phase = "peek"
    \/ Peek(m) \/ SpooledAccepted(m) \/ Refused(m) \/ MakeRoom(m) \/ WriteFile(m) \/ SpoolFails(m)

(* What leaving a file where it is does to the upload.                     *)
LEMMA FileLeft ==
    ASSUME up \in [Machines -> Uploads], NEW m \in Machines, LeaveFile(m)
    PROVE  \E u \in Uploads : /\ up' = [up EXCEPT ![m] = u] /\ jammed' = jammed \cup {m}
                              /\ u.phase = up[m].phase /\ u.batch = up[m].batch /\ u.spooled = up[m].spooled
  <1> DEFINE u == [up[m] EXCEPT !.skip = @ + 1]
  <1>1. u \in Uploads /\ u.phase = up[m].phase /\ u.batch = up[m].batch /\ u.spooled = up[m].spooled
      BY DEF Uploads
  <1>2. up' = [up EXCEPT ![m] = u] /\ jammed' = jammed \cup {m}
      BY DEF LeaveFile
  <1> HIDE DEF u
  <1> QED BY <1>1, <1>2

(* Every step an agent takes with its files is one of these.               *)
LEMMA FileSteps ==
    ASSUME TypeInv, NEW m \in Machines, HandlesFiles(m)
    PROVE  \E u \in Uploads, f \in Seq(Batches) : FileStep(m, u, f)
  <1>0. ServerTypes /\ MachineTypes /\ HistoryTypes /\ Bounds /\ InHand
      BY Parts DEF TypeInv
  <1>a. /\ up \in [Machines -> Uploads] /\ up[m] \in Uploads /\ up[m].batch \in Batches
        /\ up[m].skip \in Nat /\ up[m].flushed \in Nat
        /\ spool[m] \in Seq(Batches) /\ spool = [spool EXCEPT ![m] = spool[m]]
        /\ up = [up EXCEPT ![m] = up[m]]
        /\ m \in jammed \/ Len(spool[m]) <= MaxSpool
        /\ up[m].skip > 0 => m \in jammed
      BY <1>0 DEF MachineTypes, Uploads, Bounds, InHand
  <1>b. up[m].spooled => FileInHand(up[m], spool[m])
      BY <1>0 DEF InHand
  <1>c. up[m].phase \in {"idle", "peek"} => Content(up[m].batch) = {}
      BY <1>0 DEF InHand
  <1>d. up[m].phase \in {"idle", "peek", "spool"} => ~up[m].spooled
      BY <1>0 DEF InHand
  <1>e. upsets \in Nat /\ (Upset => upsets' \in Nat)
      BY <1>0 DEF HistoryTypes, Upset
  <1>f. ~(0 > 0)
      OBVIOUS
  <1>1. CASE Accepted(m) /\ up'[m].phase = "peek"
    <2>1. ~Forget(m, EmptyBatch)
      <3>1. Forget(m, EmptyBatch) => up'[m] = Idle
          BY <1>a DEF Forget
      <3> QED BY <1>1, <3>1, IdleTyped
    <2>2. /\ up[m].phase = "ok" /\ ~up[m].spooled /\ up' = [up EXCEPT ![m] = Peeking(0)]
          /\ UNCHANGED <<agg, ids, born, upsets, lost, updated, server, cred, spool, day, kept, unsure, jammed>>
        BY <1>1, <2>1 DEF Accepted
    <2>3. /\ Peeking(0) \in Uploads /\ Peeking(0).phase = "peek" /\ Peeking(0).batch = EmptyBatch
          /\ ~Peeking(0).spooled /\ Peeking(0).skip = 0 /\ Content(EmptyBatch) = {}
      <3>1. 0 \in Nat
          OBVIOUS
      <3> QED BY <3>1, IdleTyped, Zenon
    <2>4. LetsGo(m, Peeking(0), spool[m])
        BY <2>2, <2>3 DEF LetsGo, Plain
    <2>5. spool' = [spool EXCEPT ![m] = spool[m]] /\ upsets' \in Nat /\ Peeking(0).phase \in Away
        BY <1>a, <1>e, <2>2, <2>3, Zenon DEF Away
    <2>6. FileStep(m, Peeking(0), spool[m])
        BY <1>a, <1>f, <2>2, <2>3, <2>4, <2>5, Zenon DEF FileStep, Outcome
    <2> QED BY <1>a, <2>3, <2>6, Zenon
  <1>2. CASE Peek(m)
    <2> DEFINE n == up[m].skip + 1
               found == n \in DOMAIN spool[m] /\ up[m].flushed < MaxFlush
    <2>1. /\ up[m].phase = "peek" /\ ~up[m].spooled /\ ~Answering(m) /\ Content(up[m].batch) = {}
          /\ UNCHANGED <<updated, server, cred, agg, ids, born, day, kept, unsure>>
          /\ Working(m)
        BY <1>2, <1>c, <1>d DEF Peek, Answering, Working
    <2>2. CASE up' = [up EXCEPT ![m] = Idle] /\ (Upset \/ UNCHANGED upsets) /\ UNCHANGED <<spool, lost, jammed>>
      <3>1. LeavesIt(m, Idle, spool[m])
          BY <2>1, <2>2, IdleTyped DEF LeavesIt, Plain
      <3>2. spool' = [spool EXCEPT ![m] = spool[m]] /\ upsets' \in Nat /\ Idle.phase \in Away
          BY <1>a, <1>e, <2>2, IdleTyped, Zenon DEF Away
      <3>3. FileStep(m, Idle, spool[m])
          BY <1>a, <1>f, <2>1, <2>2, <3>1, <3>2, IdleTyped, Zenon DEF FileStep, Outcome
      <3> QED BY <1>a, <3>3, IdleTyped, Zenon
    <2>3. CASE /\ found
               /\ up' = [up EXCEPT ![m].phase = "wire", ![m].batch = spool[m][n], ![m].spooled = TRUE]
               /\ UNCHANGED <<spool, lost, jammed, upsets>>
      <3> DEFINE u == [up[m] EXCEPT !.phase = "wire", !.batch = spool[m][n], !.spooled = TRUE]
      <3>1. spool[m][n] \in Batches
          BY <1>a, <2>3
      <3>2. /\ u \in Uploads /\ u.phase = "wire" /\ u.spooled /\ u.skip = up[m].skip /\ u.batch = spool[m][n]
          BY <1>a, <3>1 DEF Uploads, Phases
      <3>3. up' = [up EXCEPT ![m] = u]
          BY <2>3
      <3> HIDE DEF u
      <3>4. FileInHand(u, spool[m])
          BY <2>3, <3>2 DEF FileInHand
      <3>5. LeavesIt(m, u, spool[m])
          BY <2>1, <2>3, <3>2 DEF LeavesIt
      <3>6. spool' = [spool EXCEPT ![m] = spool[m]] /\ upsets' \in Nat /\ u.phase \in Away /\ ~(u.phase \in {"idle", "peek"})
          BY <1>a, <1>e, <2>3, <3>2 DEF Away
      <3>7. u.skip > 0 => m \in jammed
          BY <1>a, <3>2
      <3>8. FileStep(m, u, spool[m])
          BY <1>a, <2>1, <2>3, <3>2, <3>3, <3>4, <3>5, <3>6, <3>7, Zenon DEF FileStep, Outcome
      <3> QED BY <1>a, <3>2, <3>8, Zenon
    <2>4. CASE found /\ Upset /\ DropFile(m, n) /\ UNCHANGED <<up, jammed>>
      <3> DEFINE f == WithoutFile(spool[m], n)
      <3>1. f \in Seq(Batches) /\ Len(f) < Len(spool[m])
          BY <1>a, <2>4, FileGone
      <3>2. Drops(m, up[m], f)
          BY <2>1, <2>4 DEF Drops, DropFile, Working
      <3>3. /\ spool' = [spool EXCEPT ![m] = f] /\ upsets' \in Nat /\ up[m].phase \in Away
            /\ up' = [up EXCEPT ![m] = up[m]]
          BY <1>a, <1>e, <2>1, <2>4, Zenon DEF Away, DropFile
      <3>4. m \in jammed \/ Len(f) <= MaxSpool
          BY <1>a, <3>1, IngestAssumption
      <3> HIDE DEF f
      <3>5. FileStep(m, up[m], f)
          BY <1>a, <2>1, <2>4, <3>2, <3>3, <3>4, Zenon DEF FileStep, Outcome
      <3> QED BY <1>a, <3>1, <3>5, Zenon
    <2>5. CASE Upset /\ LeaveFile(m) /\ UNCHANGED <<spool, lost>>
      <3>1. PICK u \in Uploads : /\ up' = [up EXCEPT ![m] = u] /\ jammed' = jammed \cup {m}
                                 /\ u.phase = up[m].phase /\ u.batch = up[m].batch /\ u.spooled = up[m].spooled
          BY <1>a, <2>5, FileLeft
      <3>2. GoesOn(m, u, spool[m])
          BY <2>1, <2>5, <3>1 DEF GoesOn
      <3>3. spool' = [spool EXCEPT ![m] = spool[m]] /\ upsets' \in Nat /\ u.phase \in Away /\ m \in jammed'
          BY <1>a, <1>e, <2>1, <2>5, <3>1, Zenon DEF Away
      <3>4. FileStep(m, u, spool[m])
          BY <1>a, <2>1, <2>5, <3>1, <3>2, <3>3, Zenon DEF FileStep, Outcome
      <3> QED BY <1>a, <3>4, Zenon
    <2> QED BY <1>2, <2>2, <2>3, <2>4, <2>5 DEF Peek
  <1>3. CASE SpooledAccepted(m)
    <2> DEFINE u == Peeking(up[m].flushed + 1)
               f == WithoutFile(spool[m], up[m].skip + 1)
    <2>1. /\ up[m].phase = "ok" /\ up[m].spooled /\ up' = [up EXCEPT ![m] = u]
          /\ UNCHANGED <<updated, server, cred, agg, ids, born, day, kept, lost>>
        BY <1>3 DEF SpooledAccepted
    <2>2. up[m].flushed + 1 \in Nat
        BY <1>a
    <2>3. /\ u \in Uploads /\ u.phase = "peek" /\ u.batch = EmptyBatch /\ ~u.spooled /\ u.skip = 0
          /\ Content(EmptyBatch) = {} /\ Plain(u)
        BY <2>2, IdleTyped DEF Plain
    <2>4. f \in Seq(Batches) /\ Len(f) < Len(spool[m])
        BY <1>a, <1>b, <2>1, FileGone DEF FileInHand
    <2>5. u.phase \in Away /\ ~(u.skip > 0)
        BY <2>3 DEF Away
    <2>6. m \in jammed \/ Len(f) <= MaxSpool
        BY <1>a, <2>4, IngestAssumption
    <2>7. CASE spool' = [spool EXCEPT ![m] = f] /\ UNCHANGED <<unsure, jammed, upsets>>
      <3> HIDE DEF u
      <3>1. Clears(m, u, f)
          BY <2>1, <2>3, <2>7 DEF Clears
      <3> HIDE DEF f
      <3>2. FileStep(m, u, f)
          BY <1>e, <2>1, <2>3, <2>5, <2>6, <2>7, <3>1, Zenon DEF FileStep, Outcome
      <3> QED BY <2>3, <2>4, <3>2, Zenon
    <2>8. CASE Upset /\ unsure' = unsure \cup Ambiguous(m) /\ jammed' = jammed \cup {m} /\ UNCHANGED spool
      <3> HIDE DEF u
      <3>1. Doubts(m, u, spool[m])
          BY <2>1, <2>3, <2>8 DEF Doubts
      <3>2. spool' = [spool EXCEPT ![m] = spool[m]] /\ upsets' \in Nat /\ m \in jammed'
          BY <1>a, <1>e, <2>8, Zenon
      <3>3. FileStep(m, u, spool[m])
          BY <2>1, <2>3, <2>5, <2>8, <3>1, <3>2, Zenon DEF FileStep, Outcome
      <3> QED BY <1>a, <2>3, <3>3, Zenon
    <2> QED BY <1>3, <2>7, <2>8 DEF SpooledAccepted
  <1>4. CASE Refused(m)
    <2>1. /\ up[m].phase = "failed" /\ ~Answering(m)
          /\ UNCHANGED <<updated, server, cred, agg, ids, spool, born, day, upsets, kept, lost, unsure, jammed>>
        BY <1>4 DEF Refused, Answering, ghosts
    <2>2. CASE (up[m].spooled \/ Content(up[m].batch) = {}) /\ up' = [up EXCEPT ![m] = Idle]
      <3>1. LeavesIt(m, Idle, spool[m])
          BY <2>1, <2>2, IdleTyped DEF LeavesIt, Plain
      <3>2. spool' = [spool EXCEPT ![m] = spool[m]] /\ upsets' \in Nat /\ Idle.phase \in Away
          BY <1>a, <1>e, <2>1, IdleTyped, Zenon DEF Away
      <3>3. FileStep(m, Idle, spool[m])
          BY <1>a, <1>f, <2>1, <2>2, <3>1, <3>2, IdleTyped, Zenon DEF FileStep, Outcome
      <3> QED BY <1>a, <3>3, IdleTyped, Zenon
    <2>3. CASE /\ ~(up[m].spooled \/ Content(up[m].batch) = {})
               /\ up' = [up EXCEPT ![m] = [Idle EXCEPT !.phase = "spool", !.batch = up[m].batch]]
      <3> DEFINE u == [Idle EXCEPT !.phase = "spool", !.batch = up[m].batch]
      <3>1. u \in Uploads /\ u.phase = "spool" /\ u.batch = up[m].batch /\ ~u.spooled /\ u.skip = 0
          BY <1>a, IdleTyped
      <3>2. up' = [up EXCEPT ![m] = u]
          BY <2>3
      <3> HIDE DEF u
      <3>3. GoesOn(m, u, spool[m])
          BY <2>1, <2>3, <3>1 DEF GoesOn, Working
      <3>4. /\ spool' = [spool EXCEPT ![m] = spool[m]] /\ upsets' \in Nat /\ u.phase \in Away
            /\ ~(u.phase \in {"idle", "peek"})
          BY <1>a, <1>e, <2>1, <3>1 DEF Away
      <3>5. FileStep(m, u, spool[m])
          BY <1>a, <1>f, <2>1, <3>1, <3>2, <3>3, <3>4, Zenon DEF FileStep, Outcome
      <3> QED BY <1>a, <3>1, <3>5, Zenon
    <2> QED BY <1>4, <2>2, <2>3 DEF Refused
  <1>5. CASE MakeRoom(m)
    <2> DEFINE n == up[m].skip + 1
    <2>1. /\ up[m].phase = "spool" /\ ~up[m].spooled /\ ~Answering(m) /\ NeedsRoom(m) /\ Working(m)
          /\ UNCHANGED <<updated, server, cred, agg, ids, born, day, kept, unsure>>
        BY <1>5, <1>d DEF MakeRoom, Spooling, Answering, Working
    <2>2. CASE DropFile(m, n) /\ UNCHANGED <<up, jammed, upsets>>
      <3> DEFINE f == WithoutFile(spool[m], n)
      <3>1. n \in DOMAIN spool[m]
          BY <1>a, <2>1, RoomLeft
      <3>2. f \in Seq(Batches) /\ Len(f) < Len(spool[m])
          BY <1>a, <3>1, FileGone
      <3>3. Drops(m, up[m], f)
          BY <2>1, <2>2, <3>1 DEF Drops, DropFile
      <3>4. /\ spool' = [spool EXCEPT ![m] = f] /\ upsets' \in Nat /\ up[m].phase \in Away
            /\ up' = [up EXCEPT ![m] = up[m]] /\ ~(up[m].phase \in {"idle", "peek"})
          BY <1>a, <1>e, <2>1, <2>2 DEF Away, DropFile
      <3>5. m \in jammed \/ Len(f) <= MaxSpool
          BY <1>a, <3>2, IngestAssumption
      <3> HIDE DEF f
      <3>6. FileStep(m, up[m], f)
          BY <1>a, <2>1, <2>2, <3>3, <3>4, <3>5, Zenon DEF FileStep, Outcome
      <3> QED BY <1>a, <3>2, <3>6, Zenon
    <2>3. CASE Upset /\ LeaveFile(m) /\ UNCHANGED <<spool, lost>>
      <3>1. PICK u \in Uploads : /\ up' = [up EXCEPT ![m] = u] /\ jammed' = jammed \cup {m}
                                 /\ u.phase = up[m].phase /\ u.batch = up[m].batch /\ u.spooled = up[m].spooled
          BY <1>a, <2>3, FileLeft
      <3>2. GoesOn(m, u, spool[m])
          BY <2>1, <2>3, <3>1 DEF GoesOn
      <3>3. /\ spool' = [spool EXCEPT ![m] = spool[m]] /\ upsets' \in Nat /\ u.phase \in Away /\ m \in jammed'
            /\ ~(u.phase \in {"idle", "peek"})
          BY <1>a, <1>e, <2>1, <2>3, <3>1 DEF Away
      <3>4. FileStep(m, u, spool[m])
          BY <1>a, <2>1, <2>3, <3>1, <3>2, <3>3, Zenon DEF FileStep, Outcome
      <3> QED BY <1>a, <3>4, Zenon
    <2> QED BY <1>5, <2>2, <2>3 DEF MakeRoom
  <1>6. CASE WriteFile(m)
    <2> DEFINE f == Append(spool[m], up[m].batch)
    <2>1. /\ up[m].phase = "spool" /\ ~up[m].spooled /\ ~Answering(m) /\ Working(m)
          /\ spool' = [spool EXCEPT ![m] = f] /\ up' = [up EXCEPT ![m] = Idle]
          /\ UNCHANGED <<updated, server, cred, agg, ids, born, day, kept, lost, unsure>>
        BY <1>6, <1>d DEF WriteFile, Spooling, Answering, Working
    <2>2. f \in Seq(Batches) /\ Len(f) = Len(spool[m]) + 1
        BY <1>a
    <2>3. /\ m \in jammed' \/ Len(f) <= MaxSpool
          /\ jammed' \in {jammed, jammed \cup {m}} /\ upsets' \in Nat
      <3>1. CASE ~NeedsRoom(m) /\ UNCHANGED <<jammed, upsets>>
        <4>1. up[m].skip = 0 \/ m \in jammed
            BY <1>a
        <4> QED BY <1>a, <1>e, <2>2, <3>1, <4>1, RoomLeft
      <3>2. CASE Upset /\ jammed' = jammed \cup {m}
          BY <1>e, <3>2
      <3> QED BY <1>6, <3>1, <3>2 DEF WriteFile
    <2>4. Writes(m, Idle, f)
        BY <2>1, IdleTyped DEF Writes, Plain
    <2>5. Idle.phase \in Away
        BY IdleTyped DEF Away
    <2> HIDE DEF f
    <2>6. FileStep(m, Idle, f)
        BY <1>f, <2>1, <2>3, <2>4, <2>5, IdleTyped, Zenon DEF FileStep, Outcome
    <2> QED BY <2>2, <2>6, IdleTyped, Zenon
  <1>7. CASE SpoolFails(m)
    <2>1. /\ up[m].phase = "spool" /\ ~up[m].spooled /\ ~Answering(m) /\ Working(m)
          /\ up' = [up EXCEPT ![m] = Idle] /\ lost' = lost \cup Content(up[m].batch)
          /\ UNCHANGED <<updated, server, cred, agg, ids, spool, born, day, kept, unsure, jammed>>
          /\ Upset \/ UNCHANGED upsets
        BY <1>7, <1>d DEF SpoolFails, Answering, Working
    <2>2. GivesUp(m, Idle, spool[m])
        BY <2>1, IdleTyped DEF GivesUp, Plain
    <2>3. spool' = [spool EXCEPT ![m] = spool[m]] /\ upsets' \in Nat /\ Idle.phase \in Away
        BY <1>a, <1>e, <2>1, IdleTyped, Zenon DEF Away
    <2>4. FileStep(m, Idle, spool[m])
        BY <1>a, <1>f, <2>1, <2>2, <2>3, IdleTyped, Zenon DEF FileStep, Outcome
    <2> QED BY <1>a, <2>4, IdleTyped, Zenon
  <1> QED BY <1>1, <1>2, <1>3, <1>4, <1>5, <1>6, <1>7, Zenon DEF HandlesFiles

(* An agent either takes the update it is offered or handles its files.    *)
LEMMA AgentDoes ==
    ASSUME TypeInv, NEW m \in Machines, Agent(m)
    PROVE  \/ Send(m) \/ HandlesFiles(m)
           \/ /\ up[m].phase = "ok" /\ ~up[m].spooled /\ Forget(m, EmptyBatch)
              /\ updated' = updated \cup {m} /\ OffersUpdate(m)
              /\ UNCHANGED <<server, cred, spool, day, kept, unsure, jammed>>
  <1>1. ASSUME Accepted(m), up' = [up EXCEPT ![m] = Peeking(0)] PROVE HandlesFiles(m)
    <2>1. up'[m] = Peeking(0)
        BY <1>1, Parts DEF TypeInv, MachineTypes
    <2>2. up'[m].phase = "peek"
        BY <2>1 DEF Peeking, Idle
    <2> QED BY <1>1, <2>2 DEF HandlesFiles
  <1>2. CASE Accepted(m)
      BY <1>1, <1>2, Zenon DEF Accepted
  <1> QED BY <1>2, Zenon DEF Agent, HandlesFiles

(* A row of an agent whose state, date or switch is set is a row.          *)
LEMMA AgentTyped ==
    /\ NoAgent \in Agents
    /\ \A d \in Nat : [state |-> "active", seen |-> d, auto |-> TRUE] \in Agents
    /\ \A a \in Agents : [a EXCEPT !.state = "revoked"] \in Agents
    /\ \A a \in Agents, d \in Nat : [a EXCEPT !.seen = d] \in Agents
    /\ \A a \in Agents, on \in BOOLEAN : [a EXCEPT !.auto = on] \in Agents
  BY DEF NoAgent, Agents

(* Every step keeps the types.                                             *)
LEMMA TypeStep == TypeInv /\ [Next]_vars => TypeInv'
  <1> SUFFICES ASSUME TypeInv, [Next]_vars PROVE TypeInv'
      OBVIOUS
  <1>0. ServerTypes /\ MachineTypes /\ HistoryTypes /\ Bounds /\ RowIsKnown /\ InHand /\ AggFinite
      BY Parts DEF TypeInv
  <1>1. ASSUME NEW t \in Tokens, createEnrollToken(t) \/ TokenExpires(t) PROVE TypeInv'
    <2>1. UNCHANGED <<machine, agents, stored, ret, born, day, ghosts>>
        BY <1>1 DEF createEnrollToken, TokenExpires
    <2>2. token' \in [Tokens -> {"absent", "fresh", "spent"}] /\ upsets' \in Nat
      <3>1. CASE createEnrollToken(t)
          BY <1>0, <3>1 DEF createEnrollToken, CreateEnrollToken, ServerTypes, HistoryTypes
      <3>2. CASE TokenExpires(t)
          BY <1>0, <3>2 DEF TokenExpires, Upset, ServerTypes, HistoryTypes
      <3> QED BY <1>1, <3>1, <3>2
    <2>3. ServerTypes'
        BY <1>0, <2>1, <2>2, Zenon DEF ServerTypes
    <2>4. HistoryTypes'
        BY <1>0, <2>1, <2>2, Zenon DEF HistoryTypes, ghosts
    <2> QED BY <2>1, <2>3, <2>4, ServerSideTypes DEF ghosts
  <1>2. ASSUME NEW t \in Tokens, agentAdminAction(t) \/ deleteAgent(t) PROVE TypeInv'
    <2>1. UNCHANGED <<machine, token, ret, born, day, ghosts>> /\ upsets' \in Nat
        BY <1>0, <1>2 DEF agentAdminAction, deleteAgent, Upset, HistoryTypes
    <2>2. HistoryTypes'
        BY <1>0, <2>1, Zenon DEF HistoryTypes, ghosts
    <2>3. agents' \in [Tokens -> Agents] /\ stored' \in [Tokens -> [Items -> Nat]]
      <3>1. CASE agentAdminAction(t)
        <4>1. stored' = stored
            BY <3>1 DEF agentAdminAction
        <4>2. CASE RevokeAgent(t)
            BY <1>0, <4>1, <4>2, AgentTyped DEF RevokeAgent, ServerTypes
        <4>3. ASSUME NEW on \in BOOLEAN, SetAgentAutoUpdate(t, on) PROVE agents' \in [Tokens -> Agents]
          <5>1. [agents[t] EXCEPT !.auto = on] \in Agents
              BY <1>0, AgentTyped, Zenon DEF ServerTypes
          <5> QED BY <1>0, <4>3, <5>1 DEF SetAgentAutoUpdate, ServerTypes
        <4> QED BY <1>0, <3>1, <4>1, <4>2, <4>3, Zenon DEF agentAdminAction, ServerTypes
      <3>2. CASE deleteAgent(t)
          BY <1>0, <3>2, AgentTyped DEF deleteAgent, DeleteAgent, ServerTypes
      <3> QED BY <1>2, <3>1, <3>2
    <2>4. ServerTypes'
        BY <1>0, <2>1, <2>3, Zenon DEF ServerTypes
    <2> QED BY <2>1, <2>2, <2>4, ServerSideTypes DEF ghosts
  <1>3. ASSUME NEW m \in Machines, NEW t \in Tokens, agentEnroll(m, t) PROVE TypeInv'
    <2>0. /\ UNCHANGED <<stored, ret, agg, ids, up, spool, updated, born, day, ghosts>>
          /\ EnrollAgent(t)
        BY <1>3 DEF agentEnroll
    <2>1. ServerTypes' /\ HistoryTypes'
      <3>1. upsets' \in Nat
          BY <1>0, <1>3 DEF agentEnroll, Upset, HistoryTypes
      <3>2. token' \in [Tokens -> {"absent", "fresh", "spent"}]
          BY <1>0, <2>0 DEF EnrollAgent, ServerTypes
      <3>3. agents' \in [Tokens -> Agents]
          BY <1>0, <2>0, AgentTyped DEF EnrollAgent, ServerTypes, HistoryTypes
      <3> QED BY <1>0, <2>0, <3>1, <3>2, <3>3, Zenon DEF ServerTypes, HistoryTypes, ghosts
    <2>2. MachineTypes'
        BY <1>0, <1>3 DEF agentEnroll, MachineTypes
    <2>3. Bounds' /\ RowIsKnown' /\ InHand' /\ AggFinite'
        BY <1>0, <1>3 DEF agentEnroll, Bounds, RowIsKnown, InHand, FileInHand, AggFinite, ghosts
    <2> QED BY <2>1, <2>2, <2>3, PartsAfter
  <1>4. ASSUME NEW m \in Machines, NEW r \in Rows, Observe(m, r) PROVE TypeInv'
    <2>1. ServerTypes' /\ HistoryTypes'
        BY <1>0, <1>4 DEF Observe, ServerTypes, HistoryTypes, server, Items
    <2>2. MachineTypes'
      <3>1. agg' \in [Machines -> SUBSET Rows] /\ UNCHANGED <<cred, ids, up, spool, updated>>
        <4>1. agg' = [agg EXCEPT ![m] = agg[m] \cup {r}] \/ agg' = agg
            BY <1>4 DEF Observe
        <4>2. agg[m] \cup {r} \in SUBSET Rows
            BY <1>0 DEF MachineTypes
        <4>3. UNCHANGED <<cred, ids, up, spool, updated>>
            BY <1>4 DEF Observe
        <4> QED BY <1>0, <4>1, <4>2, <4>3 DEF MachineTypes
      <3> QED BY <1>0, <3>1, Zenon DEF MachineTypes
    <2>3. Bounds' /\ AggFinite'
      <3>1. CASE Cardinality(agg[m]) < MaxKeys /\ agg' = [agg EXCEPT ![m] = @ \cup {r}] /\ UNCHANGED <<spool, jammed>>
        <4>1. IsFiniteSet(agg[m]) /\ Cardinality(agg[m]) \in Nat
            BY <1>0, FS_CardinalityType DEF AggFinite
        <4>2. IsFiniteSet(agg[m] \cup {r}) /\ Cardinality(agg[m] \cup {r}) <= MaxKeys
          <5>1. /\ IsFiniteSet(agg[m] \cup {r})
                /\ Cardinality(agg[m] \cup {r}) = IF r \in agg[m] THEN Cardinality(agg[m]) ELSE Cardinality(agg[m]) + 1
              BY <4>1, FS_AddElement
          <5> QED BY <3>1, <4>1, <5>1, IngestAssumption
        <4> QED BY <1>0, <3>1, <4>2 DEF Bounds, AggFinite, MachineTypes, ghosts
      <3> QED BY <1>0, <1>4, <3>1 DEF Observe, Bounds, AggFinite
    <2>4. RowIsKnown' /\ InHand'
        BY <1>0, <1>4 DEF Observe, RowIsKnown, InHand
    <2> QED BY <2>1, <2>2, <2>3, <2>4, PartsAfter
  <1>5. ASSUME NEW m \in Machines, NEW p \in Programs, NoteIdentity(m, p) PROVE TypeInv'
    <2>1. ServerTypes' /\ HistoryTypes'
        BY <1>0, <1>5 DEF NoteIdentity, ServerTypes, HistoryTypes, server, ghosts, Items
    <2>2. MachineTypes'
        BY <1>0, <1>5 DEF NoteIdentity, MachineTypes
    <2>3. Bounds' /\ RowIsKnown' /\ InHand' /\ AggFinite'
        BY <1>0, <1>5 DEF NoteIdentity, Bounds, RowIsKnown, InHand, FileInHand, AggFinite, ghosts
    <2> QED BY <2>1, <2>2, <2>3, PartsAfter
  <1>6. ASSUME NEW m \in Machines, agentAuth(m) PROVE TypeInv'
    <2>1. /\ up[m].phase = "wire" /\ ServerTypes' /\ HistoryTypes'
          /\ UNCHANGED <<cred, agg, ids, spool, updated, jammed>>
        BY <1>0, <1>6, Zenon DEF agentAuth, server, ghosts, ServerTypes, HistoryTypes
    <2>2. CASE Goto(m, "failed")
        BY <2>1, <2>2, HandlerSideTypes DEF Phases
    <2>3. CASE AgentByToken(cred[m]) /\ up' = [up EXCEPT ![m].phase = "auth", ![m].row = cred[m], ![m].auto = agents[cred[m]].auto]
      <3>1. cred[m] \in Tokens /\ agents[cred[m]].auto \in BOOLEAN
          BY <1>0, <2>3, Zenon DEF AgentByToken, ServerTypes, Agents
      <3> DEFINE u == [up[m] EXCEPT !.phase = "auth", !.row = cred[m], !.auto = agents[cred[m]].auto]
      <3>2. /\ u \in Uploads /\ u.phase = "auth" /\ u.row \in Tokens
            /\ u.batch = up[m].batch /\ u.spooled = up[m].spooled /\ u.skip = up[m].skip
          BY <1>0, <3>1 DEF MachineTypes, Uploads, Phases
      <3>3. up' = [up EXCEPT ![m] = u]
          BY <2>3
      <3> HIDE DEF u
      <3>4. up' \in [Machines -> Uploads] /\ up'[m] = u /\ \A n \in Machines : n # m => up'[n] = up[n]
          BY <1>0, <3>2, <3>3, Replaced DEF MachineTypes
      <3>5. MachineTypes' /\ Bounds' /\ AggFinite'
          BY <1>0, <2>1, <3>4, Zenon DEF MachineTypes, Bounds, AggFinite
      <3>6. RowIsKnown'
          BY <1>0, <3>2, <3>4 DEF RowIsKnown
      <3>7. InHand'
          BY <1>0, <2>1, <3>2, <3>4 DEF InHand, FileInHand
      <3> QED BY <2>1, <3>5, <3>6, <3>7, PartsAfter
    <2> QED BY <1>6, <2>2, <2>3 DEF agentAuth
  <1>7. ASSUME NEW m \in Machines, InsertEndpointConns(m) PROVE TypeInv'
    <2>1. /\ up[m].phase = "auth" /\ up[m].row \in Tokens
          /\ UNCHANGED <<updated, token, agents, ret, cred, agg, ids, spool, born, day, unsure, jammed>>
        BY <1>0, <1>7 DEF InsertEndpointConns, RowIsKnown
    <2>2. \E p \in Phases : p \in {"stored", "failed"} /\ Goto(m, p)
        BY <1>7 DEF InsertEndpointConns, Phases
    <2>3. stored' \in [Tokens -> [Items -> Nat]]
        BY <1>0, <1>7, <2>1, StoredTyped DEF InsertEndpointConns, ServerTypes
    <2>4. kept' \subseteq Items /\ lost' \subseteq Items
        BY <1>0, <1>7 DEF InsertEndpointConns, Valid, HistoryTypes, MachineTypes, Uploads, Batches, Items
    <2>5. upsets' \in Nat
        BY <1>0, <1>7 DEF InsertEndpointConns, Upset, HistoryTypes
    <2>6. ServerTypes' /\ HistoryTypes'
        BY <1>0, <2>1, <2>3, <2>4, <2>5, Zenon DEF ServerTypes, HistoryTypes
    <2> QED BY <2>1, <2>2, <2>6, HandlerSideTypes
  <1>8. ASSUME NEW m \in Machines, TouchAgent(m) PROVE TypeInv'
    <2>1. /\ up[m].phase = "stored" /\ up[m].row \in Tokens
          /\ UNCHANGED <<updated, token, stored, ret, cred, agg, ids, spool, born, day, kept, lost, jammed>>
        BY <1>0, <1>8 DEF TouchAgent, RowIsKnown
    <2>2. \E p \in Phases : p \in {"ok", "touched", "failed"} /\ Goto(m, p)
        BY <1>8 DEF TouchAgent, Phases
    <2>3. agents' \in [Tokens -> Agents]
        BY <1>0, <1>8, <2>1, AgentTyped DEF TouchAgent, ServerTypes, HistoryTypes
    <2>4. unsure' \subseteq Items
        BY <1>0, <1>8 DEF TouchAgent, Ambiguous, HistoryTypes
    <2>5. upsets' \in Nat
        BY <1>0, <1>8 DEF TouchAgent, Upset, HistoryTypes
    <2>6. ServerTypes' /\ HistoryTypes'
        BY <1>0, <2>1, <2>3, <2>4, <2>5, Zenon DEF ServerTypes, HistoryTypes
    <2> QED BY <2>1, <2>2, <2>6, HandlerSideTypes
  <1>9. ASSUME NEW m \in Machines, UpsertProgramIdentities(m) PROVE TypeInv'
    <2>1. /\ up[m].phase = "touched" /\ up[m].row \in Tokens
          /\ UNCHANGED <<updated, token, agents, ret, cred, agg, ids, spool, born, day, jammed>>
        BY <1>0, <1>9 DEF UpsertProgramIdentities, RowIsKnown
    <2>2. \E p \in Phases : p \in {"ok", "failed"} /\ Goto(m, p)
        BY <1>9 DEF UpsertProgramIdentities, Phases
    <2>3. stored' \in [Tokens -> [Items -> Nat]]
      <3>1. PICK S : stored' = [stored EXCEPT ![up[m].row] = [i \in Items |-> IF i \in S THEN 1 ELSE stored[up[m].row][i]]]
          BY <1>9, Zenon DEF UpsertProgramIdentities
      <3> QED BY <1>0, <2>1, <3>1, StoredTyped DEF ServerTypes
    <2>4. kept' \subseteq Items /\ lost' \subseteq Items /\ unsure' \subseteq Items
        BY <1>0, <1>9 DEF UpsertProgramIdentities, ValidProgs, Ambiguous, HistoryTypes, MachineTypes, Uploads, Batches, Items
    <2>5. upsets' \in Nat
      <3>1. upsets' = upsets \/ Upset
          BY <1>9, Zenon DEF UpsertProgramIdentities
      <3> QED BY <1>0, <3>1 DEF Upset, HistoryTypes
    <2>6. ServerTypes' /\ HistoryTypes'
        BY <1>0, <2>1, <2>3, <2>4, <2>5, Zenon DEF ServerTypes, HistoryTypes
    <2> QED BY <2>1, <2>2, <2>6, HandlerSideTypes
  <1>10. ASSUME NEW m \in Machines, AnswerLost(m) PROVE TypeInv'
    <2>1. /\ Goto(m, "failed") /\ UNCHANGED <<cred, agg, ids, spool, updated, jammed>>
          /\ UNCHANGED <<server, born, day, kept, lost>>
        BY <1>10 DEF AnswerLost
    <2>2. unsure' \subseteq Items /\ upsets' \in Nat
        BY <1>0, <1>10 DEF AnswerLost, Ambiguous, Upset, HistoryTypes
    <2>3. ServerTypes' /\ HistoryTypes'
        BY <1>0, <2>1, <2>2, Zenon DEF server, ServerTypes, HistoryTypes
    <2> QED BY <2>1, <2>3, HandlerSideTypes DEF Phases
  <1>11. ASSUME NEW m \in Machines, Send(m) PROVE TypeInv'
    <2>1. PICK rows \in {{}, agg[m]} :
             /\ up' = [up EXCEPT ![m] = [Idle EXCEPT !.phase = "wire", !.batch = [rows |-> rows, progs |-> ids[m]]]]
             /\ agg' = [agg EXCEPT ![m] = @ \ rows]
        BY <1>11 DEF Send
    <2>2. /\ ids' = [ids EXCEPT ![m] = {}]
          /\ UNCHANGED <<updated, server, cred, spool, born, day, upsets, ghosts>>
        BY <1>11 DEF Send
    <2> DEFINE u == [Idle EXCEPT !.phase = "wire", !.batch = [rows |-> rows, progs |-> ids[m]]]
    <2>3. rows \in SUBSET Rows /\ ids[m] \in SUBSET Programs /\ agg[m] \in SUBSET Rows
        BY <1>0, <2>1 DEF MachineTypes
    <2>4. [rows |-> rows, progs |-> ids[m]] \in Batches
        BY <2>3 DEF Batches
    <2>5. u \in Uploads
        BY <2>4, IdleTyped, Zenon
    <2>6. u.phase = "wire" /\ u.phase \in Away /\ ~u.spooled /\ u.skip = 0
        BY DEF Idle, Away
    <2>7. agg[m] \ rows \in SUBSET Rows /\ IsFiniteSet(agg[m] \ rows) /\ Cardinality(agg[m] \ rows) <= MaxKeys
      <3>1. agg[m] \ rows = {} \/ agg[m] \ rows = agg[m]
          BY <2>1
      <3>2. IsFiniteSet({}) /\ Cardinality({}) <= MaxKeys
          BY FS_EmptySet, IngestAssumption
      <3>3. IsFiniteSet(agg[m]) /\ Cardinality(agg[m]) <= MaxKeys
          BY <1>0 DEF AggFinite, Bounds
      <3> QED BY <2>3, <3>1, <3>2, <3>3
    <2>8. /\ spool[m] \in Seq(Batches) /\ (m \in jammed' \/ Len(spool[m]) <= MaxSpool)
          /\ spool' = [spool EXCEPT ![m] = spool[m]] /\ jammed \subseteq jammed'
        BY <1>0, <2>2 DEF MachineTypes, Bounds, ghosts
    <2>9. ServerTypes' /\ HistoryTypes' /\ updated' \subseteq Machines /\ cred' = cred
        BY <1>0, <2>2, Zenon DEF ServerTypes, HistoryTypes, MachineTypes, server, ghosts
    <2>10. up' = [up EXCEPT ![m] = u] /\ agg' = [agg EXCEPT ![m] = agg[m] \ rows]
        BY <2>1
    <2> HIDE DEF u
    <2>11. {} \in SUBSET Programs
        OBVIOUS
    <2>12. /\ u.phase \in {"idle", "peek"} => Content(u.batch) = {}
           /\ u.phase # "wire" => ~u.spooled
           /\ u.spooled => FileInHand(u, spool'[m])
           /\ u.skip > 0 => m \in jammed'
        BY <2>6
    <2> QED BY <2>2, <2>5, <2>6, <2>7, <2>8, <2>9, <2>10, <2>11, <2>12, AgentSideTypes, Zenon
  <1>12. ASSUME NEW m \in Machines, NEW b, Forget(m, b), b \in Batches, ServerTypes',
                UNCHANGED <<cred, spool, day, jammed>>, kept' \subseteq Items, unsure' \subseteq Items,
                upsets' \in Nat, updated' \subseteq Machines
         PROVE  TypeInv'
    <2>1. lost' \subseteq Items
        BY <1>0, <1>12 DEF Forget, HistoryTypes, MachineTypes, Batches, Items
    <2>2. born' \in [Items -> Nat]
        BY <1>0, <1>12 DEF Forget, HistoryTypes
    <2>3. HistoryTypes'
        BY <1>0, <1>12, <2>1, <2>2, Zenon DEF HistoryTypes
    <2>4. IsFiniteSet({}) /\ Cardinality({}) <= MaxKeys
        BY FS_EmptySet, IngestAssumption
    <2>5. /\ spool[m] \in Seq(Batches) /\ (m \in jammed' \/ Len(spool[m]) <= MaxSpool)
          /\ spool' = [spool EXCEPT ![m] = spool[m]] /\ jammed \subseteq jammed'
        BY <1>0, <1>12 DEF MachineTypes, Bounds
    <2>6. /\ up' = [up EXCEPT ![m] = Idle] /\ agg' = [agg EXCEPT ![m] = {}] /\ ids' = [ids EXCEPT ![m] = {}]
        BY <1>12 DEF Forget
    <2>7. {} \in SUBSET Rows /\ {} \in SUBSET Programs
        OBVIOUS
    <2>8. /\ Idle \in Uploads /\ Idle.phase \in Away /\ Content(Idle.batch) = {} /\ ~Idle.spooled /\ Idle.skip = 0
        BY IdleTyped DEF Away
    <2>9. ~(Idle.skip > 0)
        BY <2>8
    <2> QED BY <1>12, <2>3, <2>4, <2>5, <2>6, <2>7, <2>8, <2>9, AgentSideTypes, Zenon
  <1>13. ASSUME NEW m \in Machines, AgentRestart(m) PROVE TypeInv'
    <2>1. /\ Forget(m, IF up[m].spooled THEN EmptyBatch ELSE up[m].batch)
          /\ UNCHANGED <<updated, server, cred, spool, day, kept, jammed>>
        BY <1>13 DEF AgentRestart
    <2>2. (IF up[m].spooled THEN EmptyBatch ELSE up[m].batch) \in Batches
        BY <1>0, IdleTyped DEF MachineTypes, Uploads
    <2>3. unsure' \subseteq Items /\ upsets' \in Nat
        BY <1>0, <1>13 DEF AgentRestart, Ambiguous, Upset, HistoryTypes
    <2>4. ServerTypes' /\ kept' \subseteq Items /\ updated' \subseteq Machines
          /\ UNCHANGED <<cred, spool, day, jammed>>
        BY <1>0, <2>1, Zenon DEF server, ServerTypes, HistoryTypes, MachineTypes
    <2> QED BY <1>12, <2>1, <2>2, <2>3, <2>4
  <1>14. ASSUME NEW m \in Machines, Agent(m) PROVE TypeInv'
    <2>1. CASE Send(m)
        BY <1>11, <2>1
    <2>2. CASE HandlesFiles(m)
      <3>1. PICK u \in Uploads, f \in Seq(Batches) : FileStep(m, u, f)
          BY <2>2, FileSteps
      <3>2. /\ up' = [up EXCEPT ![m] = u] /\ spool' = [spool EXCEPT ![m] = f]
            /\ UNCHANGED <<server, cred, agg, ids, updated, born, day, kept>>
            /\ upsets' \in Nat /\ jammed' \in {jammed, jammed \cup {m}}
            /\ Outcome(m, u, f)
          BY <3>1 DEF FileStep
      <3>3. spool'[m] = f /\ jammed \subseteq jammed'
          BY <1>0, <3>2 DEF MachineTypes
      <3>4. lost' \subseteq Items /\ unsure' \subseteq Items /\ jammed' \subseteq Machines
        <4>1. \A b \in Batches : Content(b) \subseteq Items
            BY DEF Batches, Content, Items
        <4>2. up[m].batch \in Batches /\ spool[m] \in Seq(Batches) /\ kept \subseteq Items
            BY <1>0 DEF MachineTypes, Uploads, HistoryTypes
        <4>3. Ambiguous(m) \subseteq Items
            BY <4>2 DEF Ambiguous
        <4>4. \A n \in DOMAIN spool[m] : spool[m][n] \in Batches
            BY <4>2
        <4>5. lost' \subseteq Items
            BY <1>0, <3>2, <4>1, <4>2, <4>4
               DEF Outcome, LetsGo, LeavesIt, GoesOn, Drops, Clears, Doubts, Writes, GivesUp, HistoryTypes
        <4>6. unsure' \subseteq Items
            BY <1>0, <3>2, <4>3
               DEF Outcome, LetsGo, LeavesIt, GoesOn, Drops, Clears, Doubts, Writes, GivesUp, HistoryTypes
        <4> QED BY <1>0, <3>2, <4>5, <4>6 DEF HistoryTypes
      <3>5. ServerTypes' /\ HistoryTypes' /\ updated' \subseteq Machines /\ cred' = cred
          BY <1>0, <3>2, <3>4, Zenon DEF server, ServerTypes, HistoryTypes, MachineTypes
      <3>6. /\ agg[m] \in SUBSET Rows /\ IsFiniteSet(agg[m]) /\ Cardinality(agg[m]) <= MaxKeys
            /\ ids[m] \in SUBSET Programs
            /\ agg' = [agg EXCEPT ![m] = agg[m]] /\ ids' = [ids EXCEPT ![m] = ids[m]]
          BY <1>0, <3>2 DEF MachineTypes, AggFinite, Bounds
      <3>7. /\ u.phase \in Away /\ (u.phase \in {"idle", "peek"} => Content(u.batch) = {})
            /\ u.phase # "wire" => ~u.spooled
            /\ u.spooled => FileInHand(u, spool'[m])
            /\ u.skip > 0 => m \in jammed'
            /\ m \in jammed' \/ Len(f) <= MaxSpool
          BY <3>1, <3>3, Zenon DEF FileStep
      <3> QED BY <3>2, <3>3, <3>5, <3>6, <3>7, AgentSideTypes, Zenon
    <2>3. CASE /\ Forget(m, EmptyBatch) /\ updated' = updated \cup {m} /\ OffersUpdate(m)
               /\ UNCHANGED <<server, cred, spool, day, kept, unsure, jammed>>
      <3>1. upsets' \in Nat
          BY <1>0, <2>3 DEF OffersUpdate, GetAgentRetention, Upset, HistoryTypes
      <3>2. updated' \subseteq Machines /\ kept' \subseteq Items /\ unsure' \subseteq Items
          BY <1>0, <2>3 DEF MachineTypes, HistoryTypes
      <3>3. ServerTypes'
          BY <1>0, <2>3, Zenon DEF server, ServerTypes
      <3> QED BY <1>12, <2>3, <3>1, <3>2, <3>3, IdleTyped
    <2> QED BY <1>14, <2>1, <2>2, <2>3, AgentDoes
  <1>18. CASE setAgentSettings \/ Maintenance
    <2>1. PICK r : PruneAgentData(r)
        BY <1>18 DEF setAgentSettings, Maintenance
    <2>2. agents' \in [Tokens -> Agents] /\ stored' \in [Tokens -> [Items -> Nat]]
        BY <1>0, <2>1, AgentTyped DEF PruneAgentData, ServerTypes
    <2>3. UNCHANGED <<token, machine, born, day, ghosts>> /\ UNCHANGED jammed
        BY <1>18 DEF setAgentSettings, Maintenance, ghosts
    <2>4. ret' \in [conn : Nat, stale : Nat, auto : BOOLEAN] /\ upsets' \in Nat
      <3>1. CASE Maintenance
          BY <1>0, <3>1, Zenon DEF Maintenance, ServerTypes, HistoryTypes
      <3>2. CASE setAgentSettings
        <4>1. PICK q \in Retentions : q.conn >= 0 /\ q.stale >= 0 /\ ret' = q /\ Upset
            BY <3>2 DEF setAgentSettings, Validate
        <4>2. q \in [conn : Int, stale : Int, auto : BOOLEAN]
            BY <4>1, IngestAssumption
        <4>3. q.conn \in Nat /\ q.stale \in Nat
            BY <4>1, <4>2
        <4>4. q \in [conn : Nat, stale : Nat, auto : BOOLEAN]
            BY <4>2, <4>3, Zenon
        <4> QED BY <1>0, <4>1, <4>4 DEF Upset, HistoryTypes
      <3> QED BY <1>18, <3>1, <3>2
    <2>5. ServerTypes'
        BY <2>2, <2>3, <2>4, <1>0, Zenon DEF ServerTypes
    <2>6. HistoryTypes'
        BY <2>3, <2>4, <1>0, Zenon DEF HistoryTypes, ghosts
    <2> QED BY <2>3, <2>5, <2>6, ServerSideTypes DEF ghosts
  <1>19. CASE Midnight
    <2>1. UNCHANGED <<server, machine, born, ghosts>> /\ day' \in Nat \ {0} /\ upsets' \in Nat
        BY <1>0, <1>19 DEF Midnight, Upset, HistoryTypes
    <2>2. ServerTypes'
        BY <1>0, <2>1, Zenon DEF ServerTypes, server
    <2>3. HistoryTypes'
        BY <1>0, <2>1, Zenon DEF HistoryTypes, ghosts
    <2> QED BY <2>1, <2>2, <2>3, ServerSideTypes DEF ghosts
  <1>20. CASE UNCHANGED vars
    <2>1. ServerTypes' /\ HistoryTypes' /\ UNCHANGED <<machine, jammed>>
        BY <1>0, <1>20, Zenon DEF vars, server, ghosts, ServerTypes, HistoryTypes
    <2> QED BY <2>1, ServerSideTypes
  <1> QED
      BY <1>1, <1>2, <1>3, <1>4, <1>5, <1>6, <1>7, <1>8, <1>9, <1>10, <1>11, <1>13, <1>14, <1>18,
         <1>19, <1>20
      DEF Next, Handler, Agent
---------------------------------------------------------------------------
(* Nothing is lost silently *)

(* A step on one machine is judged by what it does to that machine.        *)
LEMMA LossFrame ==
    ASSUME LossInv, NEW m \in Machines, kept \subseteq kept', lost \subseteq lost',
           \A n \in Machines : n # m => up'[n] = up[n] /\ agg'[n] = agg[n] /\ ids'[n] = ids[n] /\ spool'[n] = spool[n],
           \A i \in Items : i \in Aboard(m) /\ born'[i] > 0 => i \in Aboard(m)' \cup kept' \cup lost',
           \A i \in Items : born'[i] > 0 => born[i] > 0 \/ i \in Aboard(m)' \cup lost',
           up'[m].phase \in {"stored", "touched", "ok"} => up'[m].batch.rows \subseteq kept' \cup lost',
           up'[m].phase = "ok" => up'[m].batch.progs \subseteq kept' \cup lost'
    PROVE  LossInv'
  <1>1. \A n \in Machines : n # m => Aboard(n)' = Aboard(n)
      BY DEF Aboard, Spooled
  <1>2. NoSilentLoss'
      BY <1>1 DEF LossInv, NoSilentLoss, Observed
  <1>3. Settled'
      BY DEF LossInv, Settled
  <1> QED
      BY <1>2, <1>3 DEF LossInv

(* A step that moves one upload on loses nothing of what is aboard.        *)
LEMMA LossMoved ==
    ASSUME TypeInv, LossInv, NEW m \in Machines, NEW p \in Phases, Goto(m, p),
           UNCHANGED <<agg, ids, spool, born>>, kept \subseteq kept', lost \subseteq lost',
           p \in {"stored", "touched", "ok"} => up[m].batch.rows \subseteq kept' \cup lost',
           p = "ok" => up[m].batch.progs \subseteq kept' \cup lost'
    PROVE  LossInv'
  <1>1. /\ up'[m].phase = p /\ up'[m].batch = up[m].batch
        /\ \A n \in Machines : n # m => up'[n] = up[n]
      BY Moved, Parts DEF TypeInv, MachineTypes
  <1>2. Aboard(m)' = Aboard(m)
      BY <1>1 DEF Aboard, Spooled
  <1> QED
      BY <1>1, <1>2, LossFrame, Zenon

(* A step that touches no machine loses nothing.                           *)
LEMMA LossSame ==
    ASSUME LossInv, UNCHANGED <<agg, ids, up, spool, born, kept, lost>>
    PROVE  LossInv'
  <1>1. \A n \in Machines : Aboard(n)' = Aboard(n)
      BY DEF Aboard, Spooled
  <1> QED
      BY <1>1 DEF LossInv, Settled, NoSilentLoss, Observed

(* Nothing is observed before an agent is enrolled.                        *)
LEMMA LossInit == Init => LossInv
  <1> SUFFICES ASSUME Init PROVE LossInv
      OBVIOUS
  <1>1. Settled
      BY IdleTyped DEF Init, Settled
  <1>2. \A i \in Items : born[i] = 0
      BY DEF Init
  <1>3. NoSilentLoss
      BY <1>2 DEF NoSilentLoss, Observed
  <1> QED
      BY <1>1, <1>3 DEF LossInv

(* What is in the files of a spool.                                        *)
AllOf(s) == UNION {Content(s[i]) : i \in DOMAIN s}

(* A file put into a spool of files is in it, after those it had.           *)
LEMMA AppendedFile ==
    ASSUME NEW s \in Seq(Batches), NEW b \in Batches
    PROVE  AllOf(Append(s, b)) = AllOf(s) \cup Content(b)
  <1>1. /\ Len(s) \in Nat /\ DOMAIN s = 1..Len(s) /\ DOMAIN Append(s, b) = 1..(Len(s) + 1)
        /\ \A i \in 1..Len(s) : Append(s, b)[i] = s[i]
        /\ Append(s, b)[Len(s) + 1] = b
      OBVIOUS
  <1>2. ASSUME NEW x \in AllOf(Append(s, b)) PROVE x \in AllOf(s) \cup Content(b)
    <2>1. PICK i \in DOMAIN Append(s, b) : x \in Content(Append(s, b)[i])
        BY <1>2 DEF AllOf
    <2>2. i \in DOMAIN s \/ i = Len(s) + 1
        BY <1>1
    <2> QED BY <1>1, <2>1, <2>2 DEF AllOf
  <1>3. ASSUME NEW x \in AllOf(s) PROVE x \in AllOf(Append(s, b))
    <2>1. PICK i \in DOMAIN s : x \in Content(s[i])
        BY <1>3 DEF AllOf
    <2>2. i \in DOMAIN Append(s, b) /\ Append(s, b)[i] = s[i]
        BY <1>1
    <2> QED BY <2>1, <2>2 DEF AllOf
  <1>4. Len(s) + 1 \in DOMAIN Append(s, b)
      BY <1>1
  <1>5. Content(b) \subseteq AllOf(Append(s, b))
      BY <1>1, <1>4 DEF AllOf
  <1> QED
      BY <1>2, <1>3, <1>5

(* A file taken out of a spool, and what stays.                            *)
LEMMA RemovedFile ==
    ASSUME NEW s \in Seq(Batches), NEW n \in DOMAIN s
    PROVE  AllOf(s) \subseteq AllOf(WithoutFile(s, n)) \cup Content(s[n])
  <1> DEFINE f == WithoutFile(s, n)
  <1>1. \A j \in DOMAIN s : j # n => \E i \in DOMAIN f : f[i] = s[j]
      BY FileGone
  <1> HIDE DEF f
  <1>2. ASSUME NEW x \in AllOf(s) PROVE x \in AllOf(f) \cup Content(s[n])
    <2>1. PICK j \in DOMAIN s : x \in Content(s[j])
        BY <1>2 DEF AllOf
    <2>2. ASSUME j # n PROVE x \in AllOf(f)
      <3>1. PICK i \in DOMAIN f : f[i] = s[j]
          BY <1>1, <2>2
      <3> QED BY <2>1, <3>1 DEF AllOf
    <2> QED BY <2>1, <2>2
  <1> QED BY <1>2 DEF f

(* Every step keeps what was observed accounted for.                       *)
LEMMA LossStep == TypeInv /\ LossInv /\ [Next]_vars => LossInv'
  <1> SUFFICES ASSUME TypeInv, LossInv, [Next]_vars PROVE LossInv'
      OBVIOUS
  <1>0. /\ MachineTypes /\ HistoryTypes /\ InHand /\ Settled /\ NoSilentLoss
        /\ \A n \in Machines : Spooled(n) = AllOf(spool[n])
        /\ \A n \in Machines : spool[n] \in Seq(Batches)
      BY Parts DEF TypeInv, LossInv, MachineTypes, Spooled, AllOf
  <1>1. ASSUME NEW t \in Tokens, createEnrollToken(t) \/ TokenExpires(t) \/ agentAdminAction(t) \/ deleteAgent(t)
        PROVE  LossInv'
      BY <1>1, LossSame DEF createEnrollToken, TokenExpires, agentAdminAction, deleteAgent, machine, ghosts
  <1>2. ASSUME NEW m \in Machines, NEW t \in Tokens, agentEnroll(m, t) PROVE LossInv'
      BY <1>2, LossSame DEF agentEnroll, ghosts
  <1>3. CASE setAgentSettings \/ Maintenance \/ Midnight \/ UNCHANGED vars
      BY <1>3, LossSame DEF setAgentSettings, Maintenance, Midnight, vars, machine, ghosts
  <1>4. ASSUME NEW m \in Machines, NEW r \in Rows, Observe(m, r) PROVE LossInv'
    <2>1. /\ born' = [born EXCEPT ![r] = day] /\ UNCHANGED <<ids, up, spool, kept>>
          /\ \/ agg' = [agg EXCEPT ![m] = @ \cup {r}] /\ lost' = lost
             \/ lost' = lost \cup {r} /\ agg' = agg
        BY <1>4 DEF Observe
    <2>2. agg[m] \subseteq agg'[m] /\ r \in agg'[m] \cup lost' /\ \A n \in Machines : n # m => agg'[n] = agg[n]
        BY <1>0, <2>1 DEF MachineTypes
    <2>3. \A i \in Items : i # r => born'[i] = born[i]
        BY <1>0, <2>1 DEF HistoryTypes
    <2>4. Aboard(m) \subseteq Aboard(m)' /\ r \in Aboard(m)' \cup lost'
        BY <2>1, <2>2 DEF Aboard, Spooled
    <2>5. \A i \in Items : born'[i] > 0 => born[i] > 0 \/ i \in Aboard(m)' \cup lost'
        BY <2>3, <2>4
    <2>6. kept \subseteq kept' /\ lost \subseteq lost'
        BY <2>1
    <2>7. /\ up'[m].phase \in {"stored", "touched", "ok"} => up'[m].batch.rows \subseteq kept' \cup lost'
          /\ up'[m].phase = "ok" => up'[m].batch.progs \subseteq kept' \cup lost'
        BY <1>0, <2>1, <2>6 DEF Settled
    <2> QED BY <2>1, <2>2, <2>4, <2>5, <2>6, <2>7, LossFrame
  <1>5. ASSUME NEW m \in Machines, NEW p \in Programs, NoteIdentity(m, p) PROVE LossInv'
    <2>1. /\ born' = [born EXCEPT ![p] = day] /\ UNCHANGED <<agg, up, spool, kept, lost>>
          /\ ids' = [ids EXCEPT ![m] = @ \cup {p}]
        BY <1>5 DEF NoteIdentity, ghosts
    <2>2. ids[m] \subseteq ids'[m] /\ p \in ids'[m] /\ \A n \in Machines : n # m => ids'[n] = ids[n]
        BY <1>0, <2>1 DEF MachineTypes
    <2>3. \A i \in Items : i # p => born'[i] = born[i]
        BY <1>0, <2>1 DEF HistoryTypes
    <2>4. Aboard(m) \subseteq Aboard(m)' /\ p \in Aboard(m)'
        BY <2>1, <2>2 DEF Aboard, Spooled
    <2>5. \A i \in Items : born'[i] > 0 => born[i] > 0 \/ i \in Aboard(m)' \cup lost'
        BY <2>3, <2>4
    <2>7. /\ up'[m].phase \in {"stored", "touched", "ok"} => up'[m].batch.rows \subseteq kept' \cup lost'
          /\ up'[m].phase = "ok" => up'[m].batch.progs \subseteq kept' \cup lost'
        BY <1>0, <2>1 DEF Settled
    <2> QED BY <2>1, <2>2, <2>4, <2>5, <2>7, LossFrame
  <1>6. ASSUME NEW m \in Machines, agentAuth(m) PROVE LossInv'
    <2>1. UNCHANGED <<agg, ids, spool, born, kept, lost>>
        BY <1>6 DEF agentAuth, ghosts
    <2>2. CASE Goto(m, "failed")
        BY <2>1, <2>2, LossMoved DEF Phases
    <2>3. CASE up' = [up EXCEPT ![m].phase = "auth", ![m].row = cred[m], ![m].auto = agents[cred[m]].auto]
      <3>1. /\ up'[m].phase = "auth" /\ up'[m].batch = up[m].batch
            /\ \A n \in Machines : n # m => up'[n] = up[n]
          BY <1>0, <2>3 DEF MachineTypes, Uploads
      <3>2. Aboard(m)' = Aboard(m)
          BY <2>1, <3>1 DEF Aboard, Spooled
      <3> QED BY <2>1, <3>1, <3>2, LossFrame
    <2> QED BY <1>6, <2>2, <2>3 DEF agentAuth
  <1>7. ASSUME NEW m \in Machines, InsertEndpointConns(m) PROVE LossInv'
    <2> DEFINE new == Valid(up[m].batch)
    <2>1. UNCHANGED <<agg, ids, spool, born>>
        BY <1>7 DEF InsertEndpointConns
    <2>2. CASE Goto(m, "failed") /\ UNCHANGED <<kept, lost>>
        BY <2>1, <2>2, LossMoved DEF Phases
    <2>3. CASE Goto(m, "stored") /\ kept' = kept \cup new /\ lost' = lost \cup (up[m].batch.rows \ new)
      <3>1. up[m].batch.rows \subseteq kept' \cup lost' /\ kept \subseteq kept' /\ lost \subseteq lost'
          BY <2>3
      <3> QED BY <2>1, <2>3, <3>1, LossMoved DEF Phases
    <2> QED BY <1>7, <2>2, <2>3 DEF InsertEndpointConns
  <1>8. ASSUME NEW m \in Machines, TouchAgent(m) PROVE LossInv'
    <2>1. UNCHANGED <<agg, ids, spool, born, kept, lost>> /\ up[m].batch.rows \subseteq kept' \cup lost'
        BY <1>0, <1>8 DEF TouchAgent, Settled
    <2>2. CASE Goto(m, "failed") \/ Goto(m, "touched")
        BY <2>1, <2>2, LossMoved DEF Phases
    <2>3. CASE Goto(m, "ok") /\ up[m].batch.progs = {}
        BY <2>1, <2>3, LossMoved DEF Phases
    <2> QED BY <1>8, <2>2, <2>3 DEF TouchAgent
  <1>9. ASSUME NEW m \in Machines, UpsertProgramIdentities(m) PROVE LossInv'
    <2> DEFINE progs == ValidProgs(up[m].batch)
    <2>1. UNCHANGED <<agg, ids, spool, born>> /\ up[m].batch.rows \subseteq kept \cup lost
        BY <1>0, <1>9 DEF UpsertProgramIdentities, Settled
    <2>2. CASE Goto(m, "ok") /\ kept' = kept \cup progs /\ lost' = lost \cup (up[m].batch.progs \ progs)
      <3>1. /\ up[m].batch.progs \subseteq kept' \cup lost' /\ kept \subseteq kept' /\ lost \subseteq lost'
            /\ up[m].batch.rows \subseteq kept' \cup lost'
          BY <2>1, <2>2
      <3> QED BY <2>1, <2>2, <3>1, LossMoved DEF Phases
    <2>3. CASE Goto(m, "failed") /\ lost' = lost /\ kept \subseteq kept'
        BY <2>1, <2>3, LossMoved DEF Phases
    <2>4. \/ Goto(m, "ok") /\ kept' = kept \cup progs /\ lost' = lost \cup (up[m].batch.progs \ progs)
          \/ Goto(m, "failed") /\ lost' = lost /\ kept \subseteq kept'
        BY <1>9 DEF UpsertProgramIdentities
    <2> QED BY <2>2, <2>3, <2>4
  <1>10. ASSUME NEW m \in Machines, AnswerLost(m) PROVE LossInv'
      BY <1>10, LossMoved DEF AnswerLost, Phases
  <1>11. ASSUME NEW m \in Machines, Send(m) PROVE LossInv'
    <2>1. PICK rows \in SUBSET Rows :
            /\ up' = [up EXCEPT ![m] = [Idle EXCEPT !.phase = "wire", !.batch = [rows |-> rows, progs |-> ids[m]]]]
            /\ agg' = [agg EXCEPT ![m] = @ \ rows]
        BY <1>0, <1>11 DEF Send, MachineTypes
    <2>2. /\ up[m].phase = "idle" /\ ids' = [ids EXCEPT ![m] = {}]
          /\ UNCHANGED <<spool, born, kept, lost>>
        BY <1>11 DEF Send, ghosts
    <2>3. [rows |-> rows, progs |-> ids[m]] \in Batches
        BY <1>0 DEF MachineTypes, Batches
    <2>4. /\ up'[m].phase = "wire" /\ up'[m].batch = [rows |-> rows, progs |-> ids[m]]
          /\ \A n \in Machines : n # m => up'[n] = up[n]
        BY <1>0, <2>1 DEF MachineTypes, Idle
    <2>5. /\ agg'[m] = agg[m] \ rows /\ ids'[m] = {}
          /\ \A n \in Machines : n # m => agg'[n] = agg[n] /\ ids'[n] = ids[n]
        BY <1>0, <2>1, <2>2 DEF MachineTypes
    <2>6. Aboard(m) \subseteq Aboard(m)'
      <3>1. Content(up[m].batch) = {}
          BY <1>0, <2>2 DEF InHand
      <3>2. Content(up'[m].batch) = rows \cup ids[m]
          BY <2>4 DEF Content
      <3> QED BY <2>2, <2>5, <3>1, <3>2 DEF Aboard, Spooled
    <2> QED BY <2>2, <2>4, <2>5, <2>6, LossFrame
  <1>12. ASSUME NEW m \in Machines, NEW b, Forget(m, b), UNCHANGED <<spool, kept>>,
                Content(up[m].batch) \subseteq Content(b) \cup Spooled(m) \cup kept \cup lost
         PROVE  LossInv'
    <2>1. /\ lost' = lost \cup agg[m] \cup b.rows
          /\ agg'[m] = {} /\ ids'[m] = {} /\ up'[m] = Idle
          /\ \A n \in Machines : n # m => up'[n] = up[n] /\ agg'[n] = agg[n] /\ ids'[n] = ids[n]
        BY <1>0, <1>12, IdleTyped, Replaced DEF Forget, MachineTypes
    <2>2. \A i \in Items : born'[i] > 0 => born[i] > 0 /\ i \notin ids[m] \cup b.progs
        BY <1>0, <1>12 DEF Forget, HistoryTypes
    <2>3. Spooled(m)' = Spooled(m) /\ Spooled(m)' \subseteq Aboard(m)'
        BY <1>12 DEF Spooled, Aboard
    <2>4. ASSUME NEW i \in Items, i \in Aboard(m), born'[i] > 0 PROVE i \in Aboard(m)' \cup kept' \cup lost'
      <3>1. i \in agg[m] \cup b.rows \cup Spooled(m) \cup kept \cup lost
          BY <1>12, <2>2, <2>4 DEF Aboard, Content
      <3> QED BY <1>12, <2>1, <2>3, <3>1
    <2>5. Idle.phase = "idle"
        BY IdleTyped
    <2> QED BY <1>12, <2>1, <2>2, <2>4, <2>5, LossFrame
  <1>13. ASSUME NEW m \in Machines, AgentRestart(m) PROVE LossInv'
    <2>1. UNCHANGED <<spool, kept>>
        BY <1>13 DEF AgentRestart
    <2>2. CASE ~up[m].spooled
        BY <1>12, <1>13, <2>1, <2>2 DEF AgentRestart
    <2>3. CASE up[m].spooled
      <3>1. up[m].skip + 1 \in DOMAIN spool[m] /\ spool[m][up[m].skip + 1] = up[m].batch
          BY <1>0, <2>3 DEF InHand, FileInHand
      <3>2. Content(up[m].batch) \subseteq Spooled(m)
          BY <3>1 DEF Spooled
      <3> QED BY <1>12, <1>13, <2>1, <2>3, <3>2 DEF AgentRestart
    <2> QED BY <2>2, <2>3
  <1>14. ASSUME NEW m \in Machines, up[m].phase = "ok" PROVE Content(up[m].batch) \subseteq kept \cup lost
      BY <1>0, <1>14 DEF Settled, Content
  <1>15. ASSUME NEW m \in Machines, HandlesFiles(m) PROVE LossInv'
    <2>1. PICK u \in Uploads, f \in Seq(Batches) : FileStep(m, u, f)
        BY <1>15, FileSteps
    <2>2. /\ up' = [up EXCEPT ![m] = u] /\ spool' = [spool EXCEPT ![m] = f] /\ u.phase \in Away
          /\ UNCHANGED <<agg, ids, born, kept>> /\ Outcome(m, u, f)
        BY <2>1, Zenon DEF FileStep
    <2>3. /\ up'[m] = u /\ spool'[m] = f /\ \A n \in Machines : n # m => up'[n] = up[n] /\ spool'[n] = spool[n]
        BY <1>0, <2>2 DEF MachineTypes
    <2>4. Spooled(m)' = AllOf(f) /\ Spooled(m) = AllOf(spool[m])
        BY <1>0, <2>3 DEF Spooled, AllOf
    <2>5. /\ lost \subseteq lost'
          /\ Content(up[m].batch) \cup AllOf(spool[m]) \subseteq Content(u.batch) \cup AllOf(f) \cup kept \cup lost'
      <3>1. CASE LetsGo(m, u, f)
          BY <1>14, <3>1 DEF LetsGo
      <3>2. CASE LeavesIt(m, u, f)
        <4>1. f = spool[m] /\ lost' = lost /\ (up[m].spooled \/ Content(up[m].batch) = {})
            BY <3>2 DEF LeavesIt
        <4>2. up[m].spooled => Content(up[m].batch) \subseteq AllOf(spool[m])
            BY <1>0 DEF InHand, FileInHand, AllOf
        <4> QED BY <4>1, <4>2
      <3>3. CASE GoesOn(m, u, f)
          BY <3>3 DEF GoesOn
      <3>4. CASE Drops(m, u, f)
        <4>1. PICK n \in DOMAIN spool[m] : f = WithoutFile(spool[m], n) /\ lost' = lost \cup Content(spool[m][n])
            BY <3>4 DEF Drops
        <4>2. AllOf(spool[m]) \subseteq AllOf(f) \cup Content(spool[m][n])
            BY <1>0, <4>1, RemovedFile
        <4>3. u.batch = up[m].batch
            BY <3>4 DEF Drops
        <4> QED BY <4>1, <4>2, <4>3
      <3>5. CASE Clears(m, u, f)
        <4>1. /\ up[m].phase = "ok" /\ up[m].spooled /\ f = WithoutFile(spool[m], up[m].skip + 1) /\ lost' = lost
            BY <3>5 DEF Clears
        <4>2. up[m].skip + 1 \in DOMAIN spool[m] /\ spool[m][up[m].skip + 1] = up[m].batch
            BY <1>0, <4>1 DEF InHand, FileInHand
        <4>3. AllOf(spool[m]) \subseteq AllOf(f) \cup Content(up[m].batch)
            BY <1>0, <4>1, <4>2, RemovedFile
        <4> QED BY <1>14, <4>1, <4>3
      <3>6. CASE Doubts(m, u, f)
          BY <1>14, <3>6 DEF Doubts
      <3>7. CASE Writes(m, u, f)
        <4>1. up[m].batch \in Batches /\ f = Append(spool[m], up[m].batch) /\ lost' = lost
            BY <1>0, <3>7 DEF Writes, MachineTypes, Uploads
        <4>2. AllOf(f) = AllOf(spool[m]) \cup Content(up[m].batch)
            BY <1>0, <4>1, AppendedFile
        <4> QED BY <4>1, <4>2
      <3>8. CASE GivesUp(m, u, f)
          BY <3>8 DEF GivesUp
      <3> QED BY <2>2, <3>1, <3>2, <3>3, <3>4, <3>5, <3>6, <3>7, <3>8, Zenon DEF Outcome
    <2>6. Aboard(m) \subseteq Aboard(m)' \cup kept' \cup lost'
        BY <2>2, <2>3, <2>4, <2>5 DEF Aboard
    <2>7. up'[m].phase \notin {"stored", "touched", "ok"}
        BY <2>2, <2>3 DEF Away
    <2> QED BY <2>2, <2>3, <2>5, <2>6, <2>7, LossFrame
  <1>16. ASSUME NEW m \in Machines, Agent(m) PROVE LossInv'
    <2>1. CASE up[m].phase = "ok" /\ Forget(m, EmptyBatch) /\ UNCHANGED <<spool, kept>>
        BY <1>12, <1>14, <2>1
    <2> QED BY <1>11, <1>15, <1>16, <2>1, AgentDoes, Zenon
  <1> QED
      BY <1>1, <1>2, <1>3, <1>4, <1>5, <1>6, <1>7, <1>8, <1>9, <1>10, <1>13, <1>16
      DEF Next, Handler
---------------------------------------------------------------------------
(* A deleted agent leaves nothing *)

(* Every step keeps the data of an agent that is gone empty.               *)
LEMMA DeletedStep == TypeInv /\ DeletedLeavesNothing /\ [Next]_vars => DeletedLeavesNothing'
  <1> SUFFICES ASSUME TypeInv, DeletedLeavesNothing, [Next]_vars PROVE DeletedLeavesNothing'
      OBVIOUS
  <1>0. ServerTypes /\ MachineTypes /\ HistoryTypes /\ RowIsKnown
      BY Parts DEF TypeInv
  <1>1. ASSUME \A t \in Tokens : agents'[t].state = "none" => agents[t].state = "none" /\ stored'[t] = stored[t]
        PROVE  DeletedLeavesNothing'
      BY <1>1 DEF DeletedLeavesNothing
  <1>2. CASE UNCHANGED <<agents, stored>>
      BY <1>1, <1>2
  <1>3. ASSUME NEW t \in Tokens, createEnrollToken(t) \/ TokenExpires(t) PROVE UNCHANGED <<agents, stored>>
      BY <1>3 DEF createEnrollToken, TokenExpires
  <1>4. ASSUME NEW t \in Tokens, agentAdminAction(t) PROVE DeletedLeavesNothing'
    <2>1. stored' = stored /\ (RevokeAgent(t) \/ \E on \in BOOLEAN : SetAgentAutoUpdate(t, on))
        BY <1>4 DEF agentAdminAction
    <2>2. CASE RevokeAgent(t)
        BY <1>0, <1>1, <2>1, <2>2 DEF RevokeAgent, ServerTypes, Agents
    <2>3. ASSUME NEW on \in BOOLEAN, SetAgentAutoUpdate(t, on) PROVE DeletedLeavesNothing'
        BY <1>0, <1>1, <2>1, <2>3 DEF SetAgentAutoUpdate, ServerTypes, Agents
    <2> QED BY <2>1, <2>2, <2>3
  <1>5. ASSUME NEW t \in Tokens, deleteAgent(t) PROVE DeletedLeavesNothing'
      BY <1>5 DEF deleteAgent, DeleteAgent, DeletedLeavesNothing
  <1>6. ASSUME NEW m \in Machines, NEW t \in Tokens, agentEnroll(m, t) PROVE DeletedLeavesNothing'
      BY <1>0, <1>1, <1>6 DEF agentEnroll, EnrollAgent, ServerTypes
  <1>7. ASSUME NEW m \in Machines,
               \/ \E r \in Rows : Observe(m, r)
               \/ \E p \in Programs : NoteIdentity(m, p)
               \/ agentAuth(m) \/ Agent(m) \/ AnswerLost(m) \/ AgentRestart(m)
        PROVE  UNCHANGED <<agents, stored>>
      BY <1>7 DEF Observe, NoteIdentity, agentAuth, Agent, Send, Accepted, Peek, SpooledAccepted, Refused, MakeRoom,
                  WriteFile, SpoolFails, AnswerLost, AgentRestart, server
  <1>8. ASSUME NEW m \in Machines, InsertEndpointConns(m) PROVE DeletedLeavesNothing'
    <2>1. up[m].row \in Tokens /\ agents' = agents
        BY <1>0, <1>8 DEF InsertEndpointConns, RowIsKnown
    <2>2. CASE /\ agents[up[m].row].state # "none" \/ Valid(up[m].batch) = {}
               /\ stored' = [stored EXCEPT ![up[m].row] = Bump(@, Valid(up[m].batch))]
      <3>1. \A t \in Tokens : t # up[m].row => stored'[t] = stored[t]
          BY <1>0, <2>2 DEF ServerTypes
      <3>2. Valid(up[m].batch) = {} => stored'[up[m].row] = stored[up[m].row]
          BY <1>0, <2>1, <2>2 DEF Bump, ServerTypes
      <3> QED BY <1>1, <2>1, <2>2, <3>1, <3>2
    <2>3. CASE stored' = stored
        BY <1>2, <2>1, <2>3
    <2> QED BY <1>8, <2>2, <2>3 DEF InsertEndpointConns
  <1>9. ASSUME NEW m \in Machines, TouchAgent(m) PROVE DeletedLeavesNothing'
      BY <1>0, <1>1, <1>9 DEF TouchAgent, ServerTypes, Agents
  <1>10. ASSUME NEW m \in Machines, UpsertProgramIdentities(m) PROVE DeletedLeavesNothing'
    <2>1. up[m].row \in Tokens /\ agents' = agents
        BY <1>0, <1>10 DEF UpsertProgramIdentities, RowIsKnown
    <2>2. PICK S : /\ agents[up[m].row].state # "none" \/ S = {}
                   /\ stored' = [stored EXCEPT ![up[m].row] = [i \in Items |-> IF i \in S THEN 1 ELSE stored[up[m].row][i]]]
        BY <1>10 DEF UpsertProgramIdentities
    <2>3. \A t \in Tokens : t # up[m].row => stored'[t] = stored[t]
        BY <1>0, <2>2 DEF ServerTypes
    <2>4. S = {} => stored'[up[m].row] = stored[up[m].row]
        BY <1>0, <2>1, <2>2 DEF ServerTypes
    <2> QED BY <1>1, <2>1, <2>2, <2>3, <2>4
  <1>11. CASE setAgentSettings \/ Maintenance
    <2>1. PICK r : PruneAgentData(r)
        BY <1>11 DEF setAgentSettings, Maintenance
    <2> QED BY <2>1 DEF PruneAgentData, DeletedLeavesNothing
  <1>12. CASE Midnight \/ UNCHANGED vars
      BY <1>2, <1>12 DEF Midnight, vars, server
  <1> QED
      BY <1>2, <1>3, <1>4, <1>5, <1>6, <1>7, <1>8, <1>9, <1>10, <1>11, <1>12 DEF Next, Handler
---------------------------------------------------------------------------
(* A row is counted once *)

(* A file more: its rows are in it and nowhere else.                       *)
LEMMA AppendedRow ==
    ASSUME NEW s \in Seq(Batches), NEW b \in Batches, NEW r, Apart(s, r), In(s, r) => r \notin b.rows
    PROVE  Apart(Append(s, b), r) /\ (In(Append(s, b), r) => In(s, r) \/ r \in b.rows)
  <1>1. /\ Len(s) \in Nat /\ DOMAIN s = 1..Len(s) /\ DOMAIN Append(s, b) = 1..(Len(s) + 1)
        /\ \A i \in 1..Len(s) : Append(s, b)[i] = s[i]
        /\ Append(s, b)[Len(s) + 1] = b
      OBVIOUS
  <1>2. \A i \in DOMAIN Append(s, b) : i = Len(s) + 1 \/ (i \in DOMAIN s /\ Append(s, b)[i] = s[i])
      BY <1>1
  <1> QED
      BY <1>1, <1>2 DEF Apart, In

(* A file less: its rows are in no other.                                  *)
LEMMA RemovedRow ==
    ASSUME NEW s \in Seq(Batches), NEW n \in DOMAIN s, NEW r, Apart(s, r)
    PROVE  /\ Apart(WithoutFile(s, n), r)
           /\ In(WithoutFile(s, n), r) <=> In(s, r) /\ r \notin s[n].rows
  <1> DEFINE f == WithoutFile(s, n)
  <1>1. /\ f \in Seq(Batches)
        /\ \A i \in DOMAIN f : \E j \in DOMAIN s : j # n /\ f[i] = s[j] /\ j = IF i < n THEN i ELSE i + 1
        /\ \A j \in DOMAIN s : j # n => \E i \in DOMAIN f : f[i] = s[j]
      BY FileGone
  <1> HIDE DEF f
  <1>2. DOMAIN f \subseteq Nat /\ n \in Nat
      BY <1>1
  <1>3. ASSUME NEW i \in DOMAIN f, NEW k \in DOMAIN f, r \in f[i].rows, r \in f[k].rows PROVE i = k
    <2>1. PICK j \in DOMAIN s : f[i] = s[j] /\ j = IF i < n THEN i ELSE i + 1
        BY <1>1
    <2>2. PICK l \in DOMAIN s : f[k] = s[l] /\ l = IF k < n THEN k ELSE k + 1
        BY <1>1
    <2>3. j = l
        BY <1>3, <2>1, <2>2 DEF Apart
    <2> QED BY <1>2, <2>1, <2>2, <2>3
  <1>4. ASSUME In(f, r) PROVE In(s, r) /\ r \notin s[n].rows
    <2>1. PICK i \in DOMAIN f : r \in f[i].rows
        BY <1>4 DEF In
    <2>2. PICK j \in DOMAIN s : j # n /\ f[i] = s[j]
        BY <1>1
    <2> QED BY <2>1, <2>2 DEF In, Apart
  <1>5. ASSUME In(s, r), r \notin s[n].rows PROVE In(f, r)
    <2>1. PICK j \in DOMAIN s : r \in s[j].rows
        BY <1>5 DEF In
    <2>2. PICK i \in DOMAIN f : f[i] = s[j]
        BY <1>1, <1>5, <2>1
    <2> QED BY <2>1, <2>2 DEF In
  <1>6. Apart(f, r)
      BY <1>3 DEF Apart
  <1> QED BY <1>4, <1>5, <1>6 DEF f

(* A step on one machine is judged by what that machine has afterwards.    *)
LEMMA OnceFrame ==
    ASSUME OnceInv, NEW m \in Machines, unsure \subseteq unsure',
           \A n \in Machines : n # m => up'[n] = up[n] /\ agg'[n] = agg[n] /\ spool'[n] = spool[n],
           \A r \in Rows : born[r] > 0 => born'[r] > 0,
           \A r \in Rows : r \in kept' => r \in kept \/ Has(m, r),
           \A r \in Rows : Once(m, r)',
           \A r \in Rows : Has(m, r)' => Has(m, r) \/ (born[r] = 0 /\ born'[r] > 0),
           \A r \in Rows : Has(m, r)' /\ r \in kept' => r \in unsure' \/ (r \in up'[m].batch.rows /\ Answering(m)')
    PROVE  OnePlace' /\ NotYetStored'
  <1>0. OnePlace /\ NotYetStored
      BY DEF OnceInv
  <1>1. \A n \in Machines, r \in Rows : n # m => (Once(n, r)' <=> Once(n, r)) /\ (Has(n, r)' <=> Has(n, r))
      BY DEF Once, Has
  <1>2. \A n \in Machines, r \in Rows : Once(n, r)'
      BY <1>0, <1>1 DEF OnePlace
  <1>3. \A n \in Machines, r \in Rows : Has(n, r)' => born'[r] > 0
      BY <1>0, <1>1 DEF OnePlace
  <1>4. ASSUME NEW n \in Machines, NEW q \in Machines, NEW r \in Rows, Has(n, r)', Has(q, r)' PROVE n = q
    <2>1. born[r] = 0 => n = m /\ q = m
        BY <1>0, <1>1, <1>4 DEF OnePlace
    <2>2. born[r] # 0 => Has(n, r) /\ Has(q, r)
        BY <1>1, <1>4
    <2> QED BY <1>0, <2>1, <2>2 DEF OnePlace
  <1>5. ASSUME NEW n \in Machines, NEW r \in Rows, n # m, Has(n, r)', r \in kept'
        PROVE  r \in unsure' \/ (r \in up'[n].batch.rows /\ Answering(n)')
    <2>1. Has(n, r) /\ ~Has(m, r)
        BY <1>0, <1>1, <1>5 DEF OnePlace
    <2>2. r \in unsure \/ (r \in up[n].batch.rows /\ Answering(n))
        BY <1>0, <1>5, <2>1 DEF NotYetStored
    <2> QED BY <1>5, <2>2 DEF Answering
  <1>6. OnePlace'
      BY <1>2, <1>3, <1>4 DEF OnePlace
  <1>7. NotYetStored'
      BY <1>5 DEF NotYetStored
  <1> QED
      BY <1>6, <1>7

(* What the database counts: a step that adds no row to it.                *)
LEMMA CountedFrame ==
    ASSUME OnceInv, unsure \subseteq unsure', \A r \in Rows : born[r] > 0 => born'[r] > 0,
           \A r \in Rows : r \in kept' <=> r \in kept,
           \A t \in Tokens, r \in Rows : stored'[t][r] = stored[t][r] \/ stored'[t][r] = 0
    PROVE  StoredIsKept' /\ CountedTwiceOnlyAfterFailure'
  <1>1. StoredIsKept'
      BY DEF OnceInv, StoredIsKept
  <1>2. CountedTwiceOnlyAfterFailure'
    <2> SUFFICES ASSUME NEW r \in Rows, NEW t \in Tokens, NEW u \in Tokens,
                        stored'[t][r] > 1 \/ (t # u /\ stored'[t][r] > 0 /\ stored'[u][r] > 0)
                 PROVE  r \in unsure'
        BY DEF CountedTwiceOnlyAfterFailure
    <2> QED BY DEF OnceInv, CountedTwiceOnlyAfterFailure
  <1> QED
      BY <1>1, <1>2

(* A step that touches no machine.                                         *)
LEMMA OnceSame ==
    ASSUME OnceInv, UNCHANGED <<up, agg, spool, born, kept, unsure>>,
           \A t \in Tokens, r \in Rows : stored'[t][r] = stored[t][r] \/ stored'[t][r] = 0
    PROVE  OnceInv'
  <1>1. OnePlace' /\ NotYetStored'
      BY DEF OnceInv, OnePlace, NotYetStored, Once, Has, Answering
  <1> QED
      BY <1>1, CountedFrame DEF OnceInv

(* A handler, or the network, moves an upload on and stores no row.        *)
LEMMA OnceMoved ==
    ASSUME TypeInv, OnceInv, NEW m \in Machines, UNCHANGED <<agg, spool, born>>,
           up'[m].batch = up[m].batch, up'[m].spooled = up[m].spooled,
           \A n \in Machines : n # m => up'[n] = up[n],
           unsure \subseteq unsure', \A r \in Rows : r \in kept' <=> r \in kept,
           \A t \in Tokens, r \in Rows : stored'[t][r] = stored[t][r],
           Answering(m) => Answering(m)' \/ Ambiguous(m) \subseteq unsure'
    PROVE  OnceInv'
  <1>0. OnePlace /\ NotYetStored
      BY DEF OnceInv
  <1>1. \A r \in Rows : Once(m, r)' /\ (Has(m, r)' <=> Has(m, r))
      BY <1>0 DEF OnePlace, Once, Has
  <1>2. ASSUME NEW r \in Rows, Has(m, r)', r \in kept'
        PROVE  r \in unsure' \/ (r \in up'[m].batch.rows /\ Answering(m)')
      BY <1>0, <1>1, <1>2 DEF NotYetStored, Ambiguous, Answering
  <1>3. OnePlace' /\ NotYetStored'
      BY <1>1, <1>2, OnceFrame
  <1>4. StoredIsKept' /\ CountedTwiceOnlyAfterFailure'
      BY CountedFrame
  <1> QED
      BY <1>3, <1>4 DEF OnceInv

(* An agent's own step: nothing reaches the database.                      *)
LEMMA OnceAgent ==
    ASSUME OnceInv, NEW m \in Machines, UNCHANGED <<server, kept>>, unsure \subseteq unsure',
           \A n \in Machines : n # m => up'[n] = up[n] /\ agg'[n] = agg[n] /\ spool'[n] = spool[n],
           \A r \in Rows : born[r] > 0 => born'[r] > 0,
           \A r \in Rows : Once(m, r)',
           \A r \in Rows : Has(m, r)' => Has(m, r) \/ (born[r] = 0 /\ born'[r] > 0),
           \A r \in Rows : Has(m, r)' /\ r \in kept => r \in unsure'
    PROVE  OnceInv'
  <1>1. OnePlace' /\ NotYetStored'
      BY OnceFrame
  <1>2. StoredIsKept' /\ CountedTwiceOnlyAfterFailure'
      BY CountedFrame DEF server
  <1> QED
      BY <1>1, <1>2 DEF OnceInv

(* Nothing is stored before an agent is enrolled.                          *)
LEMMA OnceInit == Init => OnceInv
  <1> SUFFICES ASSUME Init PROVE OnceInv
      OBVIOUS
  <1>1. ASSUME NEW m \in Machines, NEW r \in Rows
        PROVE  r \notin agg[m] /\ r \notin up[m].batch.rows /\ spool[m] = <<>> /\ ~In(spool[m], r)
    <2>1. agg[m] = {} /\ up[m] = Idle /\ spool[m] = <<>>
        BY DEF Init
    <2>2. up[m].batch.rows = {}
        BY <2>1 DEF Idle, EmptyBatch
    <2>3. ~In(<<>>, r)
        BY DEF In
    <2> QED BY <2>1, <2>2, <2>3
  <1>2. \A m \in Machines, r \in Rows : ~Has(m, r) /\ Once(m, r)
      BY <1>1 DEF Has, Once, Apart, In
  <1>3. \A t \in Tokens, r \in Rows : stored[t][r] = 0
      BY DEF Init, Items
  <1>4. OnePlace /\ NotYetStored
      BY <1>2 DEF OnePlace, NotYetStored
  <1>5. StoredIsKept /\ CountedTwiceOnlyAfterFailure
      BY <1>3 DEF StoredIsKept, CountedTwiceOnlyAfterFailure, Init
  <1> QED
      BY <1>4, <1>5 DEF OnceInv

(* What a step with files does to the places of a row.                     *)
LEMMA FileRows ==
    ASSUME TypeInv, OnePlace, NEW m \in Machines, NEW u \in Uploads, NEW f \in Seq(Batches), FileStep(m, u, f),
           NEW r \in Rows
    PROVE  /\ Once(m, r)' /\ (Has(m, r)' => Has(m, r))
           /\ Has(m, r)' /\ r \in up[m].batch.rows /\ Answering(m) /\ r \in kept => r \in unsure'
  <1>1. MachineTypes /\ InHand /\ Once(m, r)
      BY Parts DEF TypeInv, OnePlace
  <1>2. /\ up' = [up EXCEPT ![m] = u] /\ spool' = [spool EXCEPT ![m] = f] /\ agg' = agg
        /\ (u.spooled => FileInHand(u, f)) /\ Outcome(m, u, f)
      BY Zenon DEF FileStep
  <1>3. up'[m] = u /\ spool'[m] = f /\ agg'[m] = agg[m]
      BY <1>1, <1>2 DEF MachineTypes
  <1>4. spool[m] \in Seq(Batches) /\ up[m].batch \in Batches
      BY <1>1 DEF MachineTypes, Uploads
  <1>5. u.spooled /\ r \in u.batch.rows => In(f, r)
      BY <1>2 DEF FileInHand, In
  <1>6. up[m].spooled /\ r \in up[m].batch.rows => In(spool[m], r)
      BY <1>1 DEF InHand, FileInHand, In
  <1>7. \A w \in Uploads : Plain(w) => r \notin w.batch.rows /\ ~w.spooled
      BY IdleTyped DEF Plain
  <1> DEFINE HasNow == r \in agg[m] \/ r \in u.batch.rows \/ In(f, r)
             OnceNow == /\ r \in agg[m] => r \notin u.batch.rows /\ ~In(f, r)
                        /\ r \in u.batch.rows /\ ~u.spooled => ~In(f, r)
                        /\ Apart(f, r)
  <1>8. OnceNow /\ (HasNow => Has(m, r)) /\ (HasNow /\ r \in up[m].batch.rows /\ Answering(m) /\ r \in kept => r \in unsure')
    <2>1. CASE LetsGo(m, u, f)
        BY <1>1, <1>7, <2>1 DEF LetsGo, Once, Has
    <2>2. CASE LeavesIt(m, u, f)
        BY <1>1, <1>5, <1>7, <2>2 DEF LeavesIt, Once, Has
    <2>3. CASE GoesOn(m, u, f)
        BY <1>1, <2>3 DEF GoesOn, Working, Once, Has
    <2>4. CASE Drops(m, u, f)
      <3>1. PICK n \in DOMAIN spool[m] : f = WithoutFile(spool[m], n)
          BY <2>4 DEF Drops
      <3>2. Apart(f, r) /\ (In(f, r) => In(spool[m], r))
          BY <1>1, <1>4, <3>1, RemovedRow DEF Once
      <3>3. u.batch = up[m].batch /\ ~u.spooled /\ ~up[m].spooled /\ ~Answering(m)
          BY <2>4 DEF Drops, Working
      <3> QED BY <1>1, <3>2, <3>3 DEF Once, Has
    <2>5. CASE Clears(m, u, f)
      <3>1. /\ up[m].spooled /\ Plain(u) /\ f = WithoutFile(spool[m], up[m].skip + 1)
          BY <2>5 DEF Clears
      <3>2. up[m].skip + 1 \in DOMAIN spool[m] /\ spool[m][up[m].skip + 1] = up[m].batch
          BY <1>1, <3>1 DEF InHand, FileInHand
      <3>3. Apart(f, r) /\ (In(f, r) => In(spool[m], r) /\ r \notin up[m].batch.rows)
          BY <1>1, <1>4, <3>1, <3>2, RemovedRow DEF Once
      <3> QED BY <1>1, <1>7, <3>1, <3>3 DEF Once, Has
    <2>6. CASE Doubts(m, u, f)
      <3>1. f = spool[m] /\ unsure' = unsure \cup Ambiguous(m) /\ up[m].phase = "ok" /\ Plain(u)
          BY <2>6 DEF Doubts
      <3>2. r \in up[m].batch.rows /\ r \in kept => r \in unsure'
          BY <3>1 DEF Ambiguous
      <3> QED BY <1>1, <1>7, <3>1, <3>2 DEF Once, Has
    <2>7. CASE Writes(m, u, f)
      <3>1. Plain(u) /\ f = Append(spool[m], up[m].batch) /\ ~up[m].spooled /\ ~Answering(m)
          BY <2>7 DEF Writes, Working
      <3>2. Apart(f, r) /\ (In(f, r) => In(spool[m], r) \/ r \in up[m].batch.rows)
          BY <1>1, <1>4, <3>1, AppendedRow DEF Once
      <3> QED BY <1>1, <1>7, <3>1, <3>2 DEF Once, Has
    <2>8. CASE GivesUp(m, u, f)
        BY <1>1, <1>7, <2>8 DEF GivesUp, Working, Once, Has
    <2> QED BY <1>2, <2>1, <2>2, <2>3, <2>4, <2>5, <2>6, <2>7, <2>8, Zenon DEF Outcome
  <1>9. (Once(m, r)' <=> OnceNow) /\ (Has(m, r)' <=> HasNow)
      BY <1>3 DEF Once, Has
  <1> QED BY <1>8, <1>9

(* Every step keeps a row in one place and counts it once.                 *)
LEMMA OnceStep == TypeInv /\ OnceInv /\ [Next]_vars => OnceInv'
  <1> SUFFICES ASSUME TypeInv, OnceInv, [Next]_vars PROVE OnceInv'
      OBVIOUS
  <1>0. /\ ServerTypes /\ MachineTypes /\ HistoryTypes /\ InHand /\ RowIsKnown
        /\ OnePlace /\ NotYetStored /\ StoredIsKept /\ CountedTwiceOnlyAfterFailure
      BY Parts DEF TypeInv, OnceInv
  <1>a. Rows \subseteq Items /\ \A p \in Programs : p \notin Rows
      BY IngestAssumption DEF Items
  <1>b. ASSUME NEW m \in Machines, NEW r \in Rows, Has(m, r), r \in kept, ~Answering(m) PROVE r \in unsure
      BY <1>0, <1>b DEF NotYetStored
  <1>1. ASSUME NEW t \in Tokens, createEnrollToken(t) \/ TokenExpires(t) \/ agentAdminAction(t) PROVE OnceInv'
      BY <1>1, OnceSame DEF createEnrollToken, TokenExpires, agentAdminAction, machine, ghosts
  <1>2. ASSUME NEW t \in Tokens, deleteAgent(t) PROVE OnceInv'
    <2>1. \A u \in Tokens, r \in Rows : stored'[u][r] = stored[u][r] \/ stored'[u][r] = 0
        BY <1>a, <1>2 DEF deleteAgent, DeleteAgent
    <2> QED BY <1>2, <2>1, OnceSame DEF deleteAgent, machine, ghosts
  <1>3. ASSUME NEW m \in Machines, NEW t \in Tokens, agentEnroll(m, t) PROVE OnceInv'
      BY <1>3, OnceSame DEF agentEnroll, ghosts
  <1>4. CASE setAgentSettings \/ Maintenance
    <2>1. PICK q : PruneAgentData(q)
        BY <1>4 DEF setAgentSettings, Maintenance
    <2>2. \A u \in Tokens, r \in Rows : stored'[u][r] = stored[u][r] \/ stored'[u][r] = 0
        BY <1>a, <2>1 DEF PruneAgentData
    <2>3. UNCHANGED <<up, agg, spool, born, kept, unsure>>
        BY <1>4 DEF setAgentSettings, Maintenance, machine, ghosts
    <2> QED BY <2>2, <2>3, OnceSame
  <1>5. CASE Midnight \/ UNCHANGED vars
      BY <1>5, OnceSame DEF Midnight, vars, server, machine, ghosts
  <1>6. ASSUME NEW m \in Machines, NEW q \in Rows, Observe(m, q) PROVE OnceInv'
    <2>1. /\ born' = [born EXCEPT ![q] = day] /\ UNCHANGED <<server, up, spool, kept, unsure>>
          /\ agg' = [agg EXCEPT ![m] = @ \cup {q}] \/ agg' = agg
          /\ born[q] = 0
      <3>1. born[q] \in Nat /\ ~(born[q] > 0)
          BY <1>0, <1>6, <1>a DEF Observe, Observed, HistoryTypes
      <3> QED BY <1>6, <3>1 DEF Observe
    <2>2. CASE agg' = agg
      <3>1. OnePlace' /\ NotYetStored'
        <4>1. \A r \in Rows : born[r] > 0 => born'[r] > 0
            BY <1>0, <1>a, <2>1 DEF HistoryTypes
        <4>2. \A n \in Machines, r \in Rows : (Once(n, r)' <=> Once(n, r)) /\ (Has(n, r)' <=> Has(n, r))
            BY <2>1, <2>2 DEF Once, Has
        <4> QED BY <1>0, <2>1, <4>1, <4>2 DEF OnePlace, NotYetStored, Answering
      <3>2. \A r \in Rows : born[r] > 0 => born'[r] > 0
          BY <1>0, <1>a, <2>1 DEF HistoryTypes
      <3> QED BY <2>1, <3>1, <3>2, CountedFrame DEF server, OnceInv
    <2>3. CASE agg' = [agg EXCEPT ![m] = @ \cup {q}]
      <3>1. agg'[m] = agg[m] \cup {q} /\ \A n \in Machines : n # m => agg'[n] = agg[n]
          BY <1>0, <2>3 DEF MachineTypes
      <3>2. ~Has(m, q)
          BY <1>0, <2>1 DEF OnePlace
      <3>3. born'[q] > 0 /\ \A r \in Rows : born[r] > 0 => born'[r] > 0
          BY <1>0, <1>a, <2>1 DEF HistoryTypes
      <3>4. \A r \in Rows : Has(m, r)' => Has(m, r) \/ r = q
          BY <2>1, <3>1 DEF Has
      <3>5. \A r \in Rows : Once(m, r)'
          BY <1>0, <2>1, <3>1, <3>2 DEF OnePlace, Once, Has
      <3>6. q \notin kept
          BY <1>0, <2>1 DEF StoredIsKept
      <3>7. Answering(m)' = Answering(m) /\ up' = up
          BY <2>1 DEF Answering
      <3>8. \A r \in Rows : Has(m, r)' /\ r \in kept' => r \in unsure' \/ (r \in up'[m].batch.rows /\ Answering(m)')
          BY <1>0, <2>1, <3>4, <3>6, <3>7 DEF NotYetStored
      <3>9. OnePlace' /\ NotYetStored'
          BY <2>1, <3>1, <3>3, <3>4, <3>5, <3>8, OnceFrame
      <3> QED BY <2>1, <3>3, <3>9, CountedFrame DEF server, OnceInv
    <2> QED BY <2>1, <2>2, <2>3
  <1>7. ASSUME NEW m \in Machines, NEW p \in Programs, NoteIdentity(m, p) PROVE OnceInv'
    <2>1. UNCHANGED <<server, agg, up, spool, kept, unsure>> /\ born' = [born EXCEPT ![p] = day]
        BY <1>7 DEF NoteIdentity, ghosts
    <2>2. \A r \in Rows : born'[r] = born[r]
        BY <1>0, <1>a, <2>1 DEF HistoryTypes
    <2>3. \A n \in Machines, r \in Rows : (Once(n, r)' <=> Once(n, r)) /\ (Has(n, r)' <=> Has(n, r))
        BY <2>1 DEF Once, Has
    <2>4. OnePlace' /\ NotYetStored'
        BY <1>0, <2>1, <2>2, <2>3 DEF OnePlace, NotYetStored, Answering
    <2> QED BY <2>1, <2>2, <2>4, CountedFrame DEF server, OnceInv
  <1>8. ASSUME NEW m \in Machines, NEW p \in Phases, Goto(m, p),
               UNCHANGED <<agg, spool, born>>, unsure \subseteq unsure',
               \A r \in Rows : r \in kept' <=> r \in kept,
               \A t \in Tokens, r \in Rows : stored'[t][r] = stored[t][r],
               Answering(m) => p \in {"stored", "touched", "ok"} \/ Ambiguous(m) \subseteq unsure'
        PROVE  OnceInv'
    <2>1. /\ up'[m].phase = p /\ up'[m].batch = up[m].batch /\ up'[m].spooled = up[m].spooled
          /\ \A n \in Machines : n # m => up'[n] = up[n]
        BY <1>0, <1>8, Moved DEF MachineTypes
    <2>2. Answering(m)' <=> p \in {"stored", "touched", "ok"}
        BY <2>1 DEF Answering
    <2> QED BY <1>8, <2>1, <2>2, OnceMoved
  <1>9. ASSUME NEW m \in Machines, agentAuth(m) PROVE OnceInv'
    <2>1. UNCHANGED <<server, agg, spool, born, kept, unsure>> /\ ~Answering(m)
        BY <1>9 DEF agentAuth, ghosts, Answering
    <2>2. CASE Goto(m, "failed")
        BY <1>8, <2>1, <2>2 DEF Phases, server
    <2>3. CASE up' = [up EXCEPT ![m].phase = "auth", ![m].row = cred[m], ![m].auto = agents[cred[m]].auto]
      <3>1. /\ up'[m].batch = up[m].batch /\ up'[m].spooled = up[m].spooled
            /\ \A n \in Machines : n # m => up'[n] = up[n]
          BY <1>0, <2>3 DEF MachineTypes, Uploads
      <3> QED BY <2>1, <3>1, OnceMoved DEF server
    <2> QED BY <1>9, <2>2, <2>3 DEF agentAuth
  <1>10. ASSUME NEW m \in Machines, TouchAgent(m) PROVE OnceInv'
    <2>1. UNCHANGED <<stored, agg, spool, born, kept>>
        BY <1>10 DEF TouchAgent
    <2>2. CASE (Goto(m, "ok") \/ Goto(m, "touched")) /\ unsure' = unsure
        BY <1>8, <2>1, <2>2 DEF Phases
    <2>3. CASE Goto(m, "failed") /\ unsure' = unsure \cup Ambiguous(m)
        BY <1>8, <2>1, <2>3 DEF Phases
    <2> QED BY <1>10, <2>2, <2>3 DEF TouchAgent
  <1>11. ASSUME NEW m \in Machines, UpsertProgramIdentities(m) PROVE OnceInv'
    <2>1. UNCHANGED <<agg, spool, born>>
        BY <1>11 DEF UpsertProgramIdentities
    <2>2. PICK S \in SUBSET ValidProgs(up[m].batch) :
            /\ stored' = [stored EXCEPT ![up[m].row] = [i \in Items |-> IF i \in S THEN 1 ELSE stored[up[m].row][i]]]
            /\ kept' = kept \cup S
            /\ \/ Goto(m, "ok") /\ unsure' = unsure
               \/ Goto(m, "failed") /\ unsure' = unsure \cup Ambiguous(m)
        BY <1>11 DEF UpsertProgramIdentities
    <2>3. \A r \in Rows : r \notin S
        BY <1>0, <1>a, <2>2 DEF ValidProgs, MachineTypes, Uploads, Batches
    <2>4. \A t \in Tokens, r \in Rows : stored'[t][r] = stored[t][r]
        BY <1>0, <1>a, <2>2, <2>3 DEF ServerTypes
    <2>5. \A r \in Rows : r \in kept' <=> r \in kept
        BY <2>2, <2>3
    <2>6. CASE Goto(m, "ok") /\ unsure' = unsure
        BY <1>8, <2>1, <2>4, <2>5, <2>6 DEF Phases
    <2>7. CASE Goto(m, "failed") /\ unsure' = unsure \cup Ambiguous(m)
        BY <1>8, <2>1, <2>4, <2>5, <2>7 DEF Phases
    <2> QED BY <2>2, <2>6, <2>7
  <1>12. ASSUME NEW m \in Machines, AnswerLost(m) PROVE OnceInv'
      BY <1>8, <1>12 DEF AnswerLost, server, Phases
  <1>13. ASSUME NEW m \in Machines, InsertEndpointConns(m) PROVE OnceInv'
    <2>1. /\ UNCHANGED <<agg, spool, born, unsure>> /\ ~Answering(m)
          /\ up[m].row \in Tokens
        BY <1>0, <1>13 DEF InsertEndpointConns, Answering, RowIsKnown
    <2>2. CASE Goto(m, "failed") /\ UNCHANGED <<stored, kept>>
        BY <1>8, <2>1, <2>2 DEF Phases
    <2>3. ASSUME NEW t \in Tokens, t = up[m].row, NEW S, S = Valid(up[m].batch),
                 stored' = [stored EXCEPT ![t] = Bump(@, S)], kept' = kept \cup S, Goto(m, "stored")
          PROVE  OnceInv'
      <3>1. /\ up'[m].phase = "stored" /\ up'[m].batch = up[m].batch /\ up'[m].spooled = up[m].spooled
            /\ \A n \in Machines : n # m => up'[n] = up[n]
          BY <1>0, <2>3, Moved DEF MachineTypes, Phases
      <3>2. S \subseteq up[m].batch.rows /\ \A r \in S : Has(m, r)
          BY <2>3 DEF Valid, Has
      <3>3. \A r \in Rows : Once(m, r)' /\ (Has(m, r)' <=> Has(m, r))
          BY <1>0, <2>1, <3>1 DEF OnePlace, Once, Has
      <3>4. ASSUME NEW r \in Rows, Has(m, r)', r \in kept'
            PROVE  r \in unsure' \/ (r \in up'[m].batch.rows /\ Answering(m)')
        <4>1. CASE r \in kept
            BY <1>b, <2>1, <3>3, <3>4, <4>1
        <4>2. CASE r \in S
            BY <3>1, <3>2, <4>2 DEF Answering
        <4> QED BY <2>3, <3>4, <4>1, <4>2
      <3>5. \A r \in Rows : r \in kept' => r \in kept \/ Has(m, r)
          BY <2>3, <3>2
      <3>6. OnePlace' /\ NotYetStored'
          BY <2>1, <3>1, <3>3, <3>4, <3>5, OnceFrame
      <3>7. \A u \in Tokens, r \in Rows :
              stored'[u][r] = IF u = t /\ r \in S /\ stored[u][r] < MaxCount THEN stored[u][r] + 1 ELSE stored[u][r]
          BY <1>0, <1>a, <2>3 DEF ServerTypes, Bump
      <3>8. StoredIsKept'
          BY <1>0, <2>1, <2>3, <3>2, <3>7 DEF StoredIsKept, OnePlace
      <3>9. CountedTwiceOnlyAfterFailure'
        <4> SUFFICES ASSUME NEW r \in Rows, NEW u \in Tokens, NEW v \in Tokens,
                            stored'[u][r] > 1 \/ (u # v /\ stored'[u][r] > 0 /\ stored'[v][r] > 0)
                     PROVE  r \in unsure'
            BY DEF CountedTwiceOnlyAfterFailure
        <4>1. CASE r \notin S
            BY <1>0, <2>1, <3>7, <4>1 DEF CountedTwiceOnlyAfterFailure
        <4>2. CASE r \in S /\ r \in kept
            BY <1>b, <2>1, <3>2, <4>2
        <4>3. CASE r \in S /\ r \notin kept
          <5>1. \A w \in Tokens : stored[w][r] = 0
            <6> TAKE w \in Tokens
            <6>1. stored[w][r] \in Nat /\ ~(stored[w][r] > 0)
                BY <1>0, <1>a, <4>3 DEF ServerTypes, StoredIsKept
            <6> QED BY <6>1
          <5> QED BY <3>7, <5>1
        <4> QED BY <4>1, <4>2, <4>3
      <3> QED BY <3>6, <3>8, <3>9 DEF OnceInv
    <2> QED BY <1>13, <2>1, <2>2, <2>3 DEF InsertEndpointConns
  <1>14. ASSUME NEW m \in Machines, Send(m) PROVE OnceInv'
    <2>1. PICK rows \in SUBSET agg[m] :
            /\ up' = [up EXCEPT ![m] = [Idle EXCEPT !.phase = "wire", !.batch = [rows |-> rows, progs |-> ids[m]]]]
            /\ agg' = [agg EXCEPT ![m] = @ \ rows]
        BY <1>0, <1>14 DEF Send, MachineTypes
    <2>2. /\ up[m].phase = "idle" /\ ~Answering(m)
          /\ UNCHANGED <<server, spool, born, kept, unsure>>
        BY <1>14 DEF Send, ghosts, Answering
    <2>3. up'[m].batch.rows = rows /\ \A n \in Machines : n # m => up'[n] = up[n]
        BY <1>0, <2>1 DEF MachineTypes, Idle
    <2>4. agg'[m] = agg[m] \ rows /\ \A n \in Machines : n # m => agg'[n] = agg[n]
        BY <1>0, <2>1 DEF MachineTypes
    <2>5. \A r \in Rows : Has(m, r)' => Has(m, r)
        BY <2>1, <2>2, <2>3, <2>4 DEF Has
    <2>6. \A r \in Rows : Once(m, r)'
        BY <1>0, <2>1, <2>2, <2>3, <2>4 DEF OnePlace, Once
    <2> QED BY <1>b, <2>2, <2>3, <2>4, <2>5, <2>6, OnceAgent
  <1>15. ASSUME NEW m \in Machines, NEW b \in Batches, Forget(m, b),
                b.progs \subseteq Programs, UNCHANGED <<server, spool, kept>>, unsure \subseteq unsure',
                up[m].spooled => Ambiguous(m) \subseteq unsure'
         PROVE  OnceInv'
    <2>1. /\ agg'[m] = {} /\ up'[m] = Idle
          /\ \A n \in Machines : n # m => up'[n] = up[n] /\ agg'[n] = agg[n]
        BY <1>0, <1>15, IdleTyped, Replaced DEF Forget, MachineTypes
    <2>2. \A r \in Rows : born'[r] = born[r]
        BY <1>0, <1>15, <1>a DEF Forget, MachineTypes
    <2>3. up'[m].batch.rows = {}
        BY <2>1 DEF Idle, EmptyBatch
    <2>4. \A r \in Rows : Has(m, r)' => In(spool[m], r) /\ Has(m, r)
        BY <1>15, <2>1, <2>3 DEF Has
    <2>5. \A r \in Rows : Once(m, r)'
        BY <1>0, <1>15, <2>1, <2>3 DEF OnePlace, Once
    <2>6. ASSUME NEW r \in Rows, Has(m, r)', r \in kept PROVE r \in unsure'
      <3>1. r \in unsure \/ (r \in up[m].batch.rows /\ Answering(m))
          BY <1>0, <2>4, <2>6 DEF NotYetStored
      <3>2. ~up[m].spooled => r \notin up[m].batch.rows
          BY <1>0, <2>4, <2>6 DEF OnePlace, Once
      <3>3. r \in up[m].batch.rows /\ Answering(m) => r \in Ambiguous(m)
          BY <2>6 DEF Ambiguous, Answering
      <3> QED BY <1>15, <3>1, <3>2, <3>3
    <2> QED BY <1>15, <2>1, <2>2, <2>4, <2>5, <2>6, OnceAgent
  <1>16. ASSUME NEW m \in Machines, AgentRestart(m) PROVE OnceInv'
    <2>1. UNCHANGED <<server, spool, kept>> /\ unsure \subseteq unsure' /\ (up[m].spooled => Ambiguous(m) \subseteq unsure')
        BY <1>16 DEF AgentRestart
    <2>2. PICK b \in Batches : Forget(m, b)
        BY <1>0, <1>16, IdleTyped DEF AgentRestart, MachineTypes, Uploads
    <2>3. b.progs \subseteq Programs
        BY <2>2 DEF Batches
    <2> QED BY <1>15, <2>1, <2>2, <2>3
  <1>17. ASSUME NEW m \in Machines, HandlesFiles(m) PROVE OnceInv'
    <2>1. PICK u \in Uploads, f \in Seq(Batches) : FileStep(m, u, f)
        BY <1>17, FileSteps
    <2>2. /\ up' = [up EXCEPT ![m] = u] /\ spool' = [spool EXCEPT ![m] = f]
          /\ UNCHANGED <<server, agg, born, kept>> /\ Outcome(m, u, f)
        BY <2>1, Zenon DEF FileStep
    <2>3. \A n \in Machines : n # m => up'[n] = up[n] /\ agg'[n] = agg[n] /\ spool'[n] = spool[n]
        BY <1>0, <2>2 DEF MachineTypes
    <2>4. unsure \subseteq unsure'
        BY <2>2 DEF Outcome, LetsGo, LeavesIt, GoesOn, Drops, Clears, Doubts, Writes, GivesUp
    <2>5. ASSUME NEW r \in Rows
          PROVE  /\ Once(m, r)' /\ (Has(m, r)' => Has(m, r))
                 /\ Has(m, r)' /\ r \in up[m].batch.rows /\ Answering(m) /\ r \in kept => r \in unsure'
        BY <1>0, <2>1, <2>5, FileRows
    <2>6. \A r \in Rows : Has(m, r)' /\ r \in kept => r \in unsure'
        BY <1>0, <2>4, <2>5 DEF NotYetStored
    <2> QED BY <2>2, <2>3, <2>4, <2>5, <2>6, OnceAgent
  <1>18. ASSUME NEW m \in Machines, Agent(m) PROVE OnceInv'
    <2>1. CASE ~up[m].spooled /\ Forget(m, EmptyBatch) /\ UNCHANGED <<server, spool, kept, unsure>>
        BY <1>15, <2>1, IdleTyped DEF Batches
    <2> QED BY <1>14, <1>17, <1>18, <2>1, AgentDoes, Zenon
  <1> QED
      BY <1>1, <1>2, <1>3, <1>4, <1>5, <1>6, <1>7, <1>9, <1>10, <1>11, <1>12, <1>13, <1>16, <1>18
      DEF Next, Handler
---------------------------------------------------------------------------
(* The custody of rows *)

(* The three views of a row the abstract specification has.                *)
LEMMA RowViews ==
    ASSUME NEW r \in Rows
    PROVE  /\ at[r] = {m \in Machines : Has(m, r)} /\ at'[r] = {m \in Machines : Has(m, r)'}
           /\ marks[r] = RowMarks(r) /\ marks'[r] = RowMarks(r)'
           /\ times[r] = Times(r) /\ times'[r] = Times(r)'
  <1>1. \A m : (Holds(m, r) <=> Has(m, r)) /\ (Holds(m, r)' <=> Has(m, r)')
      BY DEF Holds, Has, In
  <1>2. at[r] = {m \in Machines : Holds(m, r)} /\ at'[r] = {m \in Machines : Holds(m, r)'}
      BY DEF at
  <1> QED BY <1>1, <1>2, Zenon DEF marks, times

(* Which marks a row has.                                                  *)
LEMMA MarksRead ==
    ASSUME NEW r \in Rows
    PROVE  /\ "seen" \in marks[r] <=> born[r] > 0
           /\ "kept" \in marks[r] <=> r \in kept
           /\ "lost" \in marks[r] <=> r \in lost
           /\ "unsure" \in marks[r] <=> r \in unsure
  BY DEF marks, RowMarks

(* The marks a row has after a step are those it had and the new ones.     *)
LEMMA MarksGrow ==
    ASSUME NEW r \in Rows, NEW new \in SUBSET {"seen", "kept", "lost", "unsure"},
           born'[r] > 0 <=> born[r] > 0 \/ "seen" \in new,
           r \in kept' <=> r \in kept \/ "kept" \in new,
           r \in lost' <=> r \in lost \/ "lost" \in new,
           r \in unsure' <=> r \in unsure \/ "unsure" \in new
    PROVE  marks'[r] = marks[r] \cup new
  <1>1. marks[r] \subseteq Custody!Marks /\ marks'[r] \subseteq Custody!Marks
      BY DEF marks, RowMarks, Custody!Marks
  <1>2. /\ "seen" \in marks'[r] <=> born'[r] > 0
        /\ "kept" \in marks'[r] <=> r \in kept'
        /\ "lost" \in marks'[r] <=> r \in lost'
        /\ "unsure" \in marks'[r] <=> r \in unsure'
      BY DEF marks, RowMarks
  <1>3. ASSUME NEW k \in Custody!Marks PROVE k \in marks'[r] <=> k \in marks[r] \cup new
      BY <1>2, MarksRead DEF Custody!Marks
  <1> QED BY <1>1, <1>3 DEF Custody!Marks

(* Deleting never counts a row more often.                                 *)
LEMMA TimesFall ==
    ASSUME stored \in [Tokens -> [Items -> Nat]], NEW r \in Items,
           \A t \in Tokens : stored'[t][r] = stored[t][r] \/ stored'[t][r] = 0
    PROVE  Times(r)' <= Times(r)
  <1>1. CASE \A t \in Tokens : stored[t][r] = 0
      BY <1>1 DEF Times
  <1>2. ASSUME NEW t \in Tokens, stored[t][r] = 1, \A u \in Tokens : u # t => stored[u][r] = 0
        PROVE  Times(r)' <= Times(r)
    <2>1. \A u \in Tokens : u # t => stored'[u][r] = 0
        BY <1>2
    <2>2. Times(r) = 1
        BY <1>2 DEF Times
    <2>3. Times(r)' \in {0, 1}
      <3>1. CASE stored'[t][r] = 0
          BY <2>1, <3>1 DEF Times
      <3>2. CASE stored'[t][r] = 1
          BY <2>1, <3>2 DEF Times
      <3> QED BY <1>2, <3>1, <3>2
    <2> QED BY <2>2, <2>3
  <1>3. Times(r)' \in {0, 1, 2}
      BY DEF Times
  <1>4. CASE Times(r) = 2
      BY <1>3, <1>4
  <1> QED BY <1>1, <1>2, <1>4 DEF Times

(* Storing a row once more counts it once or more than once.               *)
LEMMA TimesRise ==
    ASSUME stored \in [Tokens -> [Items -> Nat]], NEW r \in Items, NEW t \in Tokens,
           \A u \in Tokens :
             stored'[u][r] = IF u = t /\ stored[u][r] < MaxCount THEN stored[u][r] + 1 ELSE stored[u][r]
    PROVE  Times(r)' = IF Times(r) = 0 THEN 1 ELSE 2
  <1>0. (\A u \in Tokens : stored[u][r] \in Nat) /\ MaxCount \in Nat /\ MaxCount > 1
      BY IngestAssumption
  <1>1. CASE \A u \in Tokens : stored[u][r] = 0
    <2>1. stored'[t][r] = 1 /\ \A u \in Tokens : u # t => stored'[u][r] = 0
        BY <1>0, <1>1
    <2> QED BY <1>1, <2>1 DEF Times
  <1>2. CASE ~\A u \in Tokens : stored[u][r] = 0
    <2>1. PICK v \in Tokens : stored[v][r] > 0
        BY <1>0, <1>2
    <2>2. stored'[t][r] > 0 /\ stored'[v][r] > 0 /\ (v = t => stored'[t][r] > 1)
        BY <1>0, <2>1
    <2>3. ~\E w \in Tokens : stored'[w][r] = 1 /\ \A u \in Tokens : u # w => stored'[u][r] = 0
        BY <2>2
    <2>4. ~\A u \in Tokens : stored'[u][r] = 0
        BY <2>2
    <2>5. Times(r)' = 2
        BY <2>3, <2>4 DEF Times
    <2>6. Times(r) # 0
        BY <1>2 DEF Times
    <2> QED BY <2>5, <2>6
  <1> QED BY <1>1, <1>2

(* What the database has of a row it has as often.                         *)
LEMMA TimesStay ==
    ASSUME NEW r, \A t \in Tokens : stored'[t][r] = stored[t][r]
    PROVE  Times(r)' = Times(r)
  <1>1. (\A t \in Tokens : stored'[t][r] = 0) <=> (\A t \in Tokens : stored[t][r] = 0)
      OBVIOUS
  <1>2. (\E t \in Tokens : stored'[t][r] = 1 /\ \A u \in Tokens : u # t => stored'[u][r] = 0)
            <=> (\E t \in Tokens : stored[t][r] = 1 /\ \A u \in Tokens : u # t => stored[u][r] = 0)
      OBVIOUS
  <1> QED BY <1>1, <1>2, Zenon DEF Times

(* The views are of the types the abstract specification gives them.       *)
LEMMA CustodyTyped ==
    /\ at' \in [Rows -> SUBSET Machines] /\ marks' \in [Rows -> SUBSET Custody!Marks] /\ times' \in [Rows -> 0..2]
  BY DEF at, marks, times, RowMarks, Times, Custody!Marks

(* A step on one machine: who has a row is told by that machine.           *)
LEMMA WhoHas ==
    ASSUME OnceInv, NEW m \in Machines,
           \A n \in Machines : n # m => up'[n] = up[n] /\ agg'[n] = agg[n] /\ spool'[n] = spool[n],
           NEW r \in Rows
    PROVE  /\ Has(m, r) => at[r] = {m}
           /\ born[r] = 0 => at[r] = {} /\ ~Has(m, r)
           /\ Has(m, r) /\ ~Has(m, r)' => at'[r] = {}
           /\ born[r] = 0 /\ Has(m, r)' => at'[r] = {m}
           /\ (Has(m, r)' <=> Has(m, r)) => at'[r] = at[r]
  <1>1. \A n \in Machines : n # m => (Has(n, r)' <=> Has(n, r))
      BY DEF Has
  <1>2. at[r] = {n \in Machines : Has(n, r)} /\ at'[r] = {n \in Machines : Has(n, r)'}
      BY RowViews
  <1>3. \A n \in Machines : Has(n, r) /\ Has(m, r) => n = m
      BY DEF OnceInv, OnePlace
  <1>4. \A n \in Machines : Has(n, r) => born[r] > 0
      BY DEF OnceInv, OnePlace
  <1>5. born[r] = 0 => ~(born[r] > 0)
      OBVIOUS
  <1> HIDE DEF Has
  <1>6. Has(m, r) => at[r] = {m}
      BY <1>2, <1>3
  <1>7. born[r] = 0 => \A n \in Machines : ~Has(n, r)
      BY <1>4, <1>5
  <1>8. Has(m, r) /\ ~Has(m, r)' => at'[r] = {}
      BY <1>1, <1>2, <1>3
  <1>9. born[r] = 0 /\ Has(m, r)' => at'[r] = {m}
      BY <1>1, <1>2, <1>7
  <1>10. (Has(m, r)' <=> Has(m, r)) => at'[r] = at[r]
      BY <1>1, <1>2
  <1> QED BY <1>2, <1>6, <1>7, <1>8, <1>9, <1>10

(* The server deletes, or does nothing for rows: a pruning step.           *)
LEMMA Prunes ==
    ASSUME TypeInv, UNCHANGED <<up, agg, spool, kept, lost, unsure>>,
           \A r \in Rows : born'[r] > 0 <=> born[r] > 0,
           \A t \in Tokens, r \in Rows : stored'[t][r] = stored[t][r] \/ stored'[t][r] = 0
    PROVE  Custody!Next
  <1> SUFFICES ASSUME NEW r \in Rows
               PROVE  at'[r] = at[r] /\ marks'[r] = marks[r] /\ times'[r] <= times[r]
      BY CustodyTyped, Zenon DEF Custody!Next, Custody!Prune
  <1>1. \A m : Has(m, r)' <=> Has(m, r)
      BY DEF Has
  <1>2. at'[r] = at[r]
      BY <1>1, RowViews, Zenon
  <1>3. marks'[r] = marks[r] \cup {}
      BY MarksGrow
  <1>4. r \in Items /\ stored \in [Tokens -> [Items -> Nat]]
      BY Parts DEF TypeInv, ServerTypes, Items
  <1>5. Times(r)' <= Times(r)
      BY <1>4, TimesFall
  <1> QED BY <1>2, <1>3, <1>5, RowViews

(* What a step may do to a row of machine m, in terms of the machine.      *)
MarksBy(r, new) ==
    /\ born'[r] > 0 <=> born[r] > 0 \/ "seen" \in new
    /\ r \in kept' <=> r \in kept \/ "kept" \in new
    /\ r \in lost' <=> r \in lost \/ "lost" \in new
    /\ r \in unsure' <=> r \in unsure \/ "unsure" \in new
StaysWith(m, r) == Has(m, r)' <=> Has(m, r)
GoesFrom(m, r)  == Has(m, r) /\ ~Has(m, r)'

(* The steps of a machine that leave the database alone.                   *)
Fate(m, r) ==
    \/ StaysWith(m, r) /\ MarksBy(r, {})
    \/ born[r] = 0 /\ Has(m, r)' /\ MarksBy(r, {"seen"})
    \/ born[r] = 0 /\ ~Has(m, r)' /\ MarksBy(r, {"seen", "lost"})
    \/ StaysWith(m, r) /\ Has(m, r) /\ MarksBy(r, {"lost"})
    \/ StaysWith(m, r) /\ Has(m, r) /\ r \in kept /\ MarksBy(r, {"unsure"})
    \/ GoesFrom(m, r) /\ r \in kept \cup lost /\ MarksBy(r, {})
    \/ GoesFrom(m, r) /\ MarksBy(r, {"lost"})

LEMMA Fated ==
    ASSUME OnceInv, NEW m \in Machines,
           \A n \in Machines : n # m => up'[n] = up[n] /\ agg'[n] = agg[n] /\ spool'[n] = spool[n],
           NEW r \in Rows, Times(r)' = Times(r), Fate(m, r)
    PROVE  \/ Custody!Stays(r) \/ Custody!Appears(m, r) \/ Custody!IsRefused(m, r) \/ Custody!IsDoubted(m, r)
           \/ Custody!IsReleased(m, r) \/ Custody!IsGivenUp(m, r)
  <1>1. times'[r] = times[r]
      BY RowViews
  <1>2. ASSUME NEW new \in SUBSET {"seen", "kept", "lost", "unsure"}, MarksBy(r, new) PROVE marks'[r] = marks[r] \cup new
      BY <1>2, MarksGrow DEF MarksBy
  <1>3. CASE StaysWith(m, r) /\ MarksBy(r, {})
    <2>1. at'[r] = at[r] /\ marks'[r] = marks[r] \cup {}
        BY <1>2, <1>3, WhoHas DEF StaysWith
    <2> QED BY <1>1, <2>1, Zenon DEF Custody!Stays, Custody!Marked
  <1>4. CASE born[r] = 0 /\ Has(m, r)' /\ MarksBy(r, {"seen"})
    <2>1. at'[r] = {m} /\ marks'[r] = marks[r] \cup {"seen"}
        BY <1>2, <1>4, WhoHas
    <2>2. "seen" \notin marks[r]
        BY <1>4, MarksRead
    <2> QED BY <1>1, <2>1, <2>2, Zenon DEF Custody!Appears
  <1>5. CASE born[r] = 0 /\ ~Has(m, r)' /\ MarksBy(r, {"seen", "lost"})
    <2>1. at'[r] = {} /\ marks'[r] = marks[r] \cup {"seen", "lost"}
        BY <1>2, <1>5, WhoHas
    <2>2. "seen" \notin marks[r]
        BY <1>5, MarksRead
    <2> QED BY <1>1, <2>1, <2>2, Zenon DEF Custody!Appears, Custody!Leaves
  <1>6. CASE StaysWith(m, r) /\ Has(m, r) /\ MarksBy(r, {"lost"})
    <2>1. at[r] = {m} /\ at'[r] = at[r] /\ marks'[r] = marks[r] \cup {"lost"}
        BY <1>2, <1>6, WhoHas DEF StaysWith
    <2> QED BY <1>1, <2>1, Zenon DEF Custody!IsRefused, Custody!Marked
  <1>7. CASE StaysWith(m, r) /\ Has(m, r) /\ r \in kept /\ MarksBy(r, {"unsure"})
    <2>1. at[r] = {m} /\ at'[r] = at[r] /\ marks'[r] = marks[r] \cup {"unsure"}
        BY <1>2, <1>7, WhoHas DEF StaysWith
    <2>2. "kept" \in marks[r]
        BY <1>7, MarksRead
    <2> QED BY <1>1, <2>1, <2>2, Zenon DEF Custody!IsDoubted, Custody!Marked
  <1>8. CASE GoesFrom(m, r) /\ r \in kept \cup lost /\ MarksBy(r, {})
    <2>1. at[r] = {m} /\ at'[r] = {} /\ marks'[r] = marks[r] \cup {}
        BY <1>2, <1>8, WhoHas DEF GoesFrom
    <2>2. marks[r] \cap {"kept", "lost"} # {}
        BY <1>8, MarksRead
    <2> QED BY <1>1, <2>1, <2>2, Zenon DEF Custody!IsReleased, Custody!Leaves
  <1>9. CASE GoesFrom(m, r) /\ MarksBy(r, {"lost"})
    <2>1. at[r] = {m} /\ at'[r] = {} /\ marks'[r] = marks[r] \cup {"lost"}
        BY <1>2, <1>9, WhoHas DEF GoesFrom
    <2> QED BY <1>1, <2>1, Zenon DEF Custody!IsGivenUp, Custody!Leaves
  <1> QED BY <1>3, <1>4, <1>5, <1>6, <1>7, <1>8, <1>9 DEF Fate

(* A step of a machine that leaves the rows in the database alone.         *)
LEMMA Carries ==
    ASSUME OnceInv, NEW m \in Machines,
           \A n \in Machines : n # m => up'[n] = up[n] /\ agg'[n] = agg[n] /\ spool'[n] = spool[n],
           \A t \in Tokens, r \in Rows : stored'[t][r] = stored[t][r],
           \A r \in Rows : Fate(m, r)
    PROVE  Custody!Next
  <1>1. \A r \in Rows : Times(r)' = Times(r)
      BY TimesStay
  <1>2. Custody!Carry(m)
      BY <1>1, Fated, Zenon DEF Custody!Carry
  <1> QED BY <1>2, CustodyTyped, Zenon DEF Custody!Next

(* Which files a row is in when a file is added.                           *)
LEMMA FilesOf ==
    ASSUME NEW s \in Seq(Batches), NEW b \in Batches, NEW r
    PROVE  In(Append(s, b), r) <=> In(s, r) \/ r \in b.rows
  <1>1. /\ Len(s) \in Nat /\ DOMAIN s = 1..Len(s) /\ DOMAIN Append(s, b) = 1..(Len(s) + 1)
        /\ \A i \in 1..Len(s) : Append(s, b)[i] = s[i]
        /\ Append(s, b)[Len(s) + 1] = b
      OBVIOUS
  <1>2. \A i \in DOMAIN Append(s, b) : i = Len(s) + 1 \/ (i \in DOMAIN s /\ Append(s, b)[i] = s[i])
      BY <1>1
  <1>3. \A i \in DOMAIN s : i \in DOMAIN Append(s, b) /\ Append(s, b)[i] = s[i]
      BY <1>1
  <1>4. Len(s) + 1 \in DOMAIN Append(s, b)
      BY <1>1
  <1> QED BY <1>1, <1>2, <1>3, <1>4, Zenon DEF In

(* What a step with files does to a row.                                   *)
LEMMA FileFate ==
    ASSUME TypeInv, Settled, OnePlace, NEW m \in Machines, NEW u \in Uploads, NEW f \in Seq(Batches),
           FileStep(m, u, f), NEW r \in Rows
    PROVE  Fate(m, r)
  <1>1. MachineTypes /\ InHand /\ Once(m, r)
      BY Parts DEF TypeInv, OnePlace
  <1>2. /\ up' = [up EXCEPT ![m] = u] /\ spool' = [spool EXCEPT ![m] = f] /\ UNCHANGED <<agg, born, kept>>
        /\ (u.spooled => FileInHand(u, f)) /\ Outcome(m, u, f)
      BY Zenon DEF FileStep
  <1>3. up'[m] = u /\ spool'[m] = f /\ agg'[m] = agg[m]
      BY <1>1, <1>2 DEF MachineTypes
  <1>4. spool[m] \in Seq(Batches) /\ up[m].batch \in Batches
      BY <1>1 DEF MachineTypes, Uploads
  <1>5. u.spooled /\ r \in u.batch.rows => In(f, r)
      BY <1>2 DEF FileInHand, In
  <1>6. up[m].spooled /\ r \in up[m].batch.rows => In(spool[m], r)
      BY <1>1 DEF InHand, FileInHand, In
  <1>7. \A w \in Uploads : Plain(w) => r \notin w.batch.rows /\ ~w.spooled
      BY IdleTyped DEF Plain
  <1>8. \A b \in Batches : r \in Content(b) <=> r \in b.rows
      BY IngestAssumption DEF Content, Batches
  <1>9. Has(m, r)' <=> r \in agg[m] \/ r \in u.batch.rows \/ In(f, r)
      BY <1>3 DEF Has
  <1>10. up[m].phase = "ok" /\ r \in up[m].batch.rows => r \in kept \cup lost
      BY DEF Settled
  <1>11. ASSUME Has(m, r)' <=> Has(m, r), r \in lost' <=> r \in lost, r \in unsure' <=> r \in unsure PROVE Fate(m, r)
      BY <1>2, <1>11 DEF Fate, StaysWith, MarksBy
  <1>12. ASSUME Has(m, r), ~Has(m, r)', r \in kept \cup lost \/ r \in lost',
                r \in lost' <=> r \in lost \/ r \notin kept \cup lost, r \in unsure' <=> r \in unsure
         PROVE  Fate(m, r)
      BY <1>2, <1>12 DEF Fate, GoesFrom, MarksBy
  <1>13. ASSUME Has(m, r), ~Has(m, r)', r \in lost', r \in unsure' <=> r \in unsure PROVE Fate(m, r)
      BY <1>2, <1>13 DEF Fate, GoesFrom, MarksBy
  <1>14. CASE LetsGo(m, u, f)
    <2>1. up[m].phase = "ok" /\ ~up[m].spooled /\ Plain(u) /\ f = spool[m] /\ UNCHANGED <<lost, unsure>>
        BY <1>14 DEF LetsGo
    <2>2. CASE r \in up[m].batch.rows
      <3>1. Has(m, r) /\ ~Has(m, r)'
          BY <1>1, <1>7, <1>9, <2>1, <2>2 DEF Once, Has
      <3> QED BY <1>10, <1>12, <2>1, <2>2, <3>1
    <2>3. CASE r \notin up[m].batch.rows
      <3>1. Has(m, r)' <=> Has(m, r)
          BY <1>7, <1>9, <2>1, <2>3 DEF Has
      <3> QED BY <1>11, <2>1, <3>1
    <2> QED BY <2>2, <2>3
  <1>15. CASE LeavesIt(m, u, f)
    <2>1. /\ up[m].spooled \/ Content(up[m].batch) = {}
          /\ u.spooled \/ Plain(u)
          /\ f = spool[m] /\ UNCHANGED <<lost, unsure>>
        BY <1>15 DEF LeavesIt
    <2>2. Has(m, r)' <=> Has(m, r)
        BY <1>4, <1>5, <1>6, <1>7, <1>8, <1>9, <1>15 DEF Has, LeavesIt
    <2> QED BY <1>11, <1>15, <2>2 DEF LeavesIt
  <1>16. CASE GoesOn(m, u, f)
    <2>1. Has(m, r)' <=> Has(m, r)
        BY <1>9, <1>16 DEF GoesOn, Has
    <2> QED BY <1>11, <1>16, <2>1 DEF GoesOn
  <1>17. CASE Drops(m, u, f)
    <2>1. PICK n \in DOMAIN spool[m] : f = WithoutFile(spool[m], n) /\ lost' = lost \cup Content(spool[m][n])
        BY <1>17 DEF Drops
    <2>2. u.batch = up[m].batch /\ ~up[m].spooled /\ unsure' = unsure
        BY <1>17 DEF Drops, Working
    <2>3. spool[m][n] \in Batches
        BY <1>4, <2>1
    <2>4. In(f, r) <=> In(spool[m], r) /\ r \notin spool[m][n].rows
        BY <1>1, <1>4, <2>1, RemovedRow DEF Once
    <2>5. CASE r \in spool[m][n].rows
      <3>1. In(spool[m], r)
          BY <2>5 DEF In
      <3>2. Has(m, r) /\ ~Has(m, r)'
          BY <1>1, <1>9, <2>2, <2>4, <2>5, <3>1 DEF Once, Has
      <3> QED BY <1>8, <1>13, <2>1, <2>2, <2>3, <2>5, <3>2
    <2>6. CASE r \notin spool[m][n].rows
      <3>1. Has(m, r)' <=> Has(m, r)
          BY <1>9, <2>2, <2>4, <2>6 DEF Has
      <3> QED BY <1>8, <1>11, <2>1, <2>2, <2>3, <2>6, <3>1
    <2> QED BY <2>5, <2>6
  <1>18. CASE Clears(m, u, f)
    <2>1. /\ up[m].phase = "ok" /\ up[m].spooled /\ Plain(u) /\ UNCHANGED <<lost, unsure>>
          /\ f = WithoutFile(spool[m], up[m].skip + 1)
        BY <1>18 DEF Clears
    <2>2. up[m].skip + 1 \in DOMAIN spool[m] /\ spool[m][up[m].skip + 1] = up[m].batch
        BY <1>1, <2>1 DEF InHand, FileInHand
    <2>3. In(f, r) <=> In(spool[m], r) /\ r \notin up[m].batch.rows
        BY <1>1, <1>4, <2>1, <2>2, RemovedRow DEF Once
    <2>4. CASE r \in up[m].batch.rows
      <3>1. Has(m, r) /\ ~Has(m, r)'
          BY <1>1, <1>7, <1>9, <2>1, <2>3, <2>4 DEF Once, Has
      <3> QED BY <1>10, <1>12, <2>1, <2>4, <3>1
    <2>5. CASE r \notin up[m].batch.rows
      <3>1. Has(m, r)' <=> Has(m, r)
          BY <1>7, <1>9, <2>1, <2>3, <2>5 DEF Has
      <3> QED BY <1>11, <2>1, <3>1
    <2> QED BY <2>4, <2>5
  <1>19. CASE Doubts(m, u, f)
    <2>1. /\ up[m].phase = "ok" /\ up[m].spooled /\ Plain(u) /\ f = spool[m]
          /\ lost' = lost /\ unsure' = unsure \cup Ambiguous(m)
        BY <1>19 DEF Doubts
    <2>2. Has(m, r)' <=> Has(m, r)
        BY <1>6, <1>7, <1>9, <2>1 DEF Has
    <2>3. CASE r \in Ambiguous(m)
      <3>1. Has(m, r) /\ r \in kept
          BY <2>3 DEF Ambiguous, Has
      <3>2. MarksBy(r, {"unsure"})
          BY <1>2, <2>1, <2>3 DEF MarksBy
      <3> QED BY <2>2, <3>1, <3>2 DEF Fate, StaysWith
    <2>4. CASE r \notin Ambiguous(m)
        BY <1>11, <2>1, <2>2, <2>4
    <2> QED BY <2>3, <2>4
  <1>20. CASE Writes(m, u, f)
    <2>1. Plain(u) /\ f = Append(spool[m], up[m].batch) /\ UNCHANGED <<lost, unsure>>
        BY <1>20 DEF Writes
    <2>2. In(f, r) <=> In(spool[m], r) \/ r \in up[m].batch.rows
        BY <1>4, <2>1, FilesOf
    <2>3. Has(m, r)' <=> Has(m, r)
        BY <1>7, <1>9, <2>1, <2>2 DEF Has
    <2> QED BY <1>11, <2>1, <2>3
  <1>21. CASE GivesUp(m, u, f)
    <2>1. ~up[m].spooled /\ Plain(u) /\ f = spool[m] /\ unsure' = unsure /\ lost' = lost \cup Content(up[m].batch)
        BY <1>21 DEF GivesUp, Working
    <2>2. CASE r \in up[m].batch.rows
      <3>1. Has(m, r) /\ ~Has(m, r)'
          BY <1>1, <1>7, <1>9, <2>1, <2>2 DEF Once, Has
      <3> QED BY <1>4, <1>8, <1>13, <2>1, <2>2, <3>1
    <2>3. CASE r \notin up[m].batch.rows
      <3>1. Has(m, r)' <=> Has(m, r)
          BY <1>7, <1>9, <2>1, <2>3 DEF Has
      <3> QED BY <1>4, <1>8, <1>11, <2>1, <2>3, <3>1
    <2> QED BY <2>2, <2>3
  <1> QED BY <1>2, <1>14, <1>15, <1>16, <1>17, <1>18, <1>19, <1>20, <1>21, Zenon DEF Outcome

(* Before anything is observed every view is empty.                        *)
LEMMA CustodyInitially == Init => Custody!Init
  <1> SUFFICES ASSUME Init PROVE Custody!Init
      OBVIOUS
  <1>1. ASSUME NEW r \in Rows PROVE at[r] = {} /\ marks[r] = {} /\ times[r] = 0
    <2>0. born[r] = 0 /\ kept = {} /\ lost = {} /\ unsure = {} /\ \A t \in Tokens : stored[t][r] = 0
        BY DEF Init, Items
    <2>1. at[r] = {}
      <3>1. \A m \in Machines : agg[m] = {} /\ up[m] = Idle /\ spool[m] = <<>>
          BY DEF Init
      <3>2. Idle.batch.rows = {}
          BY IdleTyped
      <3>3. ~In(<<>>, r)
          BY DEF In
      <3>4. \A m \in Machines : ~Has(m, r)
          BY <3>1, <3>2, <3>3, Zenon DEF Has
      <3> QED BY <3>4, RowViews
    <2>2. marks[r] = {}
      <3>1. marks[r] \subseteq {"seen", "kept", "lost", "unsure"}
          BY DEF marks, RowMarks
      <3> QED BY <2>0, <3>1, MarksRead
    <2>3. times[r] = 0
        BY <2>0, RowViews DEF Times
    <2> QED BY <2>1, <2>2, <2>3
  <1>2. /\ at = [r \in Rows |-> at[r]] /\ marks = [r \in Rows |-> marks[r]] /\ times = [r \in Rows |-> times[r]]
      BY DEF at, marks, times
  <1> QED BY <1>1, <1>2 DEF Custody!Init

(* Every step is one of the abstract life of the rows, all of them at the  *)
(* same time.                                                              *)
LEMMA CustodyStep == TypeInv /\ LossInv /\ OnceInv /\ [Next]_vars => Custody!Next
  <1> SUFFICES ASSUME TypeInv, LossInv, OnceInv, [Next]_vars PROVE Custody!Next
      OBVIOUS
  <1>0. /\ ServerTypes /\ MachineTypes /\ HistoryTypes /\ InHand /\ RowIsKnown /\ Settled
        /\ OnePlace /\ NotYetStored /\ StoredIsKept
      BY Parts DEF TypeInv, OnceInv, LossInv
  <1>a. Rows \subseteq Items /\ \A p \in Programs : p \notin Rows
      BY IngestAssumption DEF Items
  <1>b. ASSUME NEW m \in Machines, NEW r \in Rows, Has(m, r), r \in kept, ~Answering(m) PROVE r \in unsure
      BY <1>0, <1>b DEF NotYetStored
  <1>c. \A m \in Machines : agg[m] \subseteq Rows /\ up[m] \in Uploads /\ spool[m] \in Seq(Batches)
      BY <1>0 DEF MachineTypes
  <1>d. \A m \in Machines : up[m].batch \in Batches /\ up[m].batch.rows \subseteq Rows /\ up[m].batch.progs \subseteq Programs
      BY <1>c DEF Uploads, Batches
  <1>1. ASSUME NEW t \in Tokens,
               createEnrollToken(t) \/ TokenExpires(t) \/ agentAdminAction(t) \/ (\E m \in Machines : agentEnroll(m, t))
        PROVE  Custody!Next
    <2>1. UNCHANGED <<up, agg, spool, kept, lost, unsure, born, stored>>
        BY <1>1 DEF createEnrollToken, TokenExpires, agentAdminAction, agentEnroll, machine, ghosts
    <2> QED BY <2>1, Prunes
  <1>2. ASSUME NEW t \in Tokens, deleteAgent(t) PROVE Custody!Next
    <2>1. \A u \in Tokens, r \in Rows : stored'[u][r] = stored[u][r] \/ stored'[u][r] = 0
        BY <1>a, <1>2 DEF deleteAgent, DeleteAgent
    <2> QED BY <1>2, <2>1, Prunes DEF deleteAgent, machine, ghosts
  <1>3. CASE setAgentSettings \/ Maintenance
    <2>1. PICK q : PruneAgentData(q)
        BY <1>3 DEF setAgentSettings, Maintenance
    <2>2. \A u \in Tokens, r \in Rows : stored'[u][r] = stored[u][r] \/ stored'[u][r] = 0
        BY <1>a, <2>1 DEF PruneAgentData
    <2>3. UNCHANGED <<up, agg, spool, born, kept, lost, unsure>>
        BY <1>3 DEF setAgentSettings, Maintenance, machine, ghosts
    <2> QED BY <2>2, <2>3, Prunes
  <1>4. CASE Midnight \/ UNCHANGED vars
      BY <1>4, Prunes DEF Midnight, vars, server, machine, ghosts
  <1>5. ASSUME NEW m \in Machines, NEW p \in Programs, NoteIdentity(m, p) PROVE Custody!Next
    <2>1. UNCHANGED <<server, agg, up, spool, kept, lost, unsure>> /\ born' = [born EXCEPT ![p] = day]
        BY <1>5 DEF NoteIdentity, ghosts
    <2>2. \A r \in Rows : born'[r] = born[r]
        BY <1>0, <1>a, <2>1 DEF HistoryTypes
    <2> QED BY <2>1, <2>2, Prunes DEF server
  <1>6. ASSUME NEW m \in Machines, NEW q \in Rows, Observe(m, q) PROVE Custody!Next
    <2>1. /\ born' = [born EXCEPT ![q] = day] /\ UNCHANGED <<stored, up, spool, kept, unsure>>
          /\ born[q] = 0 /\ ~Has(m, q)
      <3>1. born[q] \in Nat /\ ~(born[q] > 0)
          BY <1>0, <1>6, <1>a DEF Observe, Observed, HistoryTypes
      <3> QED BY <1>0, <1>6, <3>1 DEF Observe, server, OnePlace
    <2>2. born'[q] > 0 /\ \A r \in Rows : r # q => born'[r] = born[r]
        BY <1>0, <1>a, <2>1 DEF HistoryTypes
    <2>3. \A n \in Machines : n # m => up'[n] = up[n] /\ agg'[n] = agg[n] /\ spool'[n] = spool[n]
      <3>1. agg' = [agg EXCEPT ![m] = agg[m] \cup {q}] \/ agg' = agg
          BY <1>6 DEF Observe
      <3> QED BY <1>0, <2>1, <3>1 DEF MachineTypes
    <2>4. ASSUME NEW r \in Rows PROVE Fate(m, r)
      <3>1. CASE agg' = [agg EXCEPT ![m] = agg[m] \cup {q}] /\ lost' = lost
        <4>1. agg'[m] = agg[m] \cup {q}
            BY <1>0, <3>1 DEF MachineTypes
        <4>2. Has(m, q)' /\ (r # q => (Has(m, r)' <=> Has(m, r)))
            BY <2>1, <4>1 DEF Has
        <4>3. MarksBy(r, IF r = q THEN {"seen"} ELSE {})
            BY <2>1, <2>2, <3>1 DEF MarksBy
        <4>4. CASE r = q BY <2>1, <4>2, <4>3, <4>4 DEF Fate
        <4>5. CASE r # q BY <4>2, <4>3, <4>5 DEF Fate, StaysWith
        <4> QED BY <4>4, <4>5
      <3>2. CASE lost' = lost \cup {q} /\ agg' = agg
        <4>1. Has(m, r)' <=> Has(m, r)
            BY <2>1, <3>2 DEF Has
        <4>2. MarksBy(r, IF r = q THEN {"seen", "lost"} ELSE {})
            BY <2>1, <2>2, <3>2 DEF MarksBy
        <4>3. CASE r = q BY <2>1, <4>1, <4>2, <4>3 DEF Fate
        <4>4. CASE r # q BY <4>1, <4>2, <4>4 DEF Fate, StaysWith
        <4> QED BY <4>3, <4>4
      <3> QED BY <1>6, <3>1, <3>2 DEF Observe
    <2> QED BY <2>1, <2>3, <2>4, Carries
  <1>7. ASSUME NEW m \in Machines, UNCHANGED <<agg, spool, born>>,
               up'[m].batch = up[m].batch, \A n \in Machines : n # m => up'[n] = up[n],
               \A r \in Rows : (r \in kept' <=> r \in kept) /\ (r \in lost' <=> r \in lost),
               \A t \in Tokens, r \in Rows : stored'[t][r] = stored[t][r],
               unsure' = unsure \/ unsure' = unsure \cup Ambiguous(m)
        PROVE  Custody!Next
    <2>1. ASSUME NEW r \in Rows PROVE Fate(m, r)
      <3>1. StaysWith(m, r)
          BY <1>7 DEF StaysWith, Has
      <3>2. r \in Ambiguous(m) => Has(m, r) /\ r \in kept
          BY DEF Ambiguous, Has
      <3>3. CASE r \in Ambiguous(m) /\ unsure' = unsure \cup Ambiguous(m)
        <4>1. MarksBy(r, {"unsure"})
            BY <1>7, <3>3 DEF MarksBy
        <4> QED BY <3>1, <3>2, <3>3, <4>1 DEF Fate
      <3>4. CASE r \notin Ambiguous(m) \/ unsure' = unsure
        <4>1. MarksBy(r, {})
            BY <1>7, <3>4 DEF MarksBy
        <4> QED BY <3>1, <4>1 DEF Fate
      <3> QED BY <1>7, <3>3, <3>4
    <2>2. \A n \in Machines : n # m => up'[n] = up[n] /\ agg'[n] = agg[n] /\ spool'[n] = spool[n]
        BY <1>7
    <2> QED BY <1>7, <2>1, <2>2, Carries
  <1>8. ASSUME NEW m \in Machines, NEW p \in Phases, Goto(m, p), UNCHANGED <<agg, spool, born>>,
               \A r \in Rows : (r \in kept' <=> r \in kept) /\ (r \in lost' <=> r \in lost),
               \A t \in Tokens, r \in Rows : stored'[t][r] = stored[t][r],
               unsure' = unsure \/ unsure' = unsure \cup Ambiguous(m)
        PROVE  Custody!Next
    <2>1. up'[m].batch = up[m].batch /\ \A n \in Machines : n # m => up'[n] = up[n]
        BY <1>0, <1>8, Moved DEF MachineTypes
    <2> QED BY <1>7, <1>8, <2>1
  <1>9. ASSUME NEW m \in Machines, agentAuth(m) PROVE Custody!Next
    <2>1. UNCHANGED <<stored, agg, spool, born, kept, lost, unsure>>
        BY <1>9 DEF agentAuth, ghosts, server
    <2>2. CASE Goto(m, "failed")
        BY <1>8, <2>1, <2>2 DEF Phases
    <2>3. CASE up' = [up EXCEPT ![m].phase = "auth", ![m].row = cred[m], ![m].auto = agents[cred[m]].auto]
      <3>1. up'[m].batch = up[m].batch /\ \A n \in Machines : n # m => up'[n] = up[n]
          BY <1>0, <2>3 DEF MachineTypes, Uploads
      <3> QED BY <1>7, <2>1, <3>1
    <2> QED BY <1>9, <2>2, <2>3 DEF agentAuth
  <1>10. ASSUME NEW m \in Machines, TouchAgent(m) PROVE Custody!Next
    <2>1. UNCHANGED <<stored, agg, spool, born, kept, lost>>
        BY <1>10 DEF TouchAgent
    <2>2. PICK p \in Phases : Goto(m, p) /\ (unsure' = unsure \/ unsure' = unsure \cup Ambiguous(m))
        BY <1>10 DEF TouchAgent, Phases
    <2> QED BY <1>8, <2>1, <2>2
  <1>11. ASSUME NEW m \in Machines, UpsertProgramIdentities(m) PROVE Custody!Next
    <2>1. UNCHANGED <<agg, spool, born>>
        BY <1>11 DEF UpsertProgramIdentities
    <2>2. PICK S \in SUBSET ValidProgs(up[m].batch) :
            /\ stored' = [stored EXCEPT ![up[m].row] = [i \in Items |-> IF i \in S THEN 1 ELSE stored[up[m].row][i]]]
            /\ kept' = kept \cup S
            /\ lost' = lost \/ lost' = lost \cup (up[m].batch.progs \ S)
            /\ \/ Goto(m, "ok") /\ unsure' = unsure
               \/ Goto(m, "failed") /\ unsure' = unsure \cup Ambiguous(m)
        BY <1>11 DEF UpsertProgramIdentities
    <2>3. \A r \in Rows : r \notin S /\ r \notin up[m].batch.progs
        BY <1>a, <1>d, <2>2 DEF ValidProgs
    <2>4. \A t \in Tokens, r \in Rows : stored'[t][r] = stored[t][r]
        BY <1>0, <1>a, <2>2, <2>3 DEF ServerTypes
    <2>5. \A r \in Rows : (r \in kept' <=> r \in kept) /\ (r \in lost' <=> r \in lost)
        BY <2>2, <2>3
    <2>6. PICK p \in Phases : Goto(m, p) /\ (unsure' = unsure \/ unsure' = unsure \cup Ambiguous(m))
        BY <2>2 DEF Phases
    <2> QED BY <1>8, <2>1, <2>4, <2>5, <2>6
  <1>12. ASSUME NEW m \in Machines, AnswerLost(m) PROVE Custody!Next
      BY <1>8, <1>12 DEF AnswerLost, server, Phases
  <1>13. ASSUME NEW m \in Machines, InsertEndpointConns(m) PROVE Custody!Next
    <2>1. UNCHANGED <<agg, spool, born, unsure>> /\ ~Answering(m) /\ up[m].row \in Tokens
        BY <1>0, <1>13 DEF InsertEndpointConns, Answering, RowIsKnown
    <2>2. CASE Goto(m, "failed") /\ UNCHANGED <<stored, kept, lost>>
        BY <1>8, <2>1, <2>2 DEF Phases
    <2>3. ASSUME NEW t \in Tokens, t = up[m].row, NEW S, S = Valid(up[m].batch),
                 stored' = [stored EXCEPT ![t] = Bump(@, S)], kept' = kept \cup S,
                 lost' = lost \cup (up[m].batch.rows \ S), Goto(m, "stored")
          PROVE  Custody!Next
      <3>1. up'[m].batch = up[m].batch /\ \A n \in Machines : n # m => up'[n] = up[n]
          BY <1>0, <2>3, Moved DEF MachineTypes, Phases
      <3>2. \A n \in Machines : n # m => up'[n] = up[n] /\ agg'[n] = agg[n] /\ spool'[n] = spool[n]
          BY <2>1, <3>1
      <3>3. S \subseteq up[m].batch.rows /\ \A r \in up[m].batch.rows : Has(m, r)
          BY <2>3 DEF Valid, Has
      <3>4. \A u \in Tokens, r \in Rows :
              stored'[u][r] = IF u = t /\ r \in S /\ stored[u][r] < MaxCount THEN stored[u][r] + 1 ELSE stored[u][r]
          BY <1>0, <1>a, <2>3 DEF ServerTypes, Bump
      <3>5. \A r \in Rows : StaysWith(m, r)
          BY <2>1, <3>1 DEF StaysWith, Has
      <3>6. ASSUME NEW r \in Rows, r \notin S PROVE Custody!Stays(r) \/ Custody!IsRefused(m, r)
        <4>1. Times(r)' = Times(r)
            BY <3>4, <3>6, TimesStay
        <4>2. MarksBy(r, IF r \in up[m].batch.rows THEN {"lost"} ELSE {})
            BY <2>1, <2>3, <3>6 DEF MarksBy
        <4>3. at'[r] = at[r] /\ (r \in up[m].batch.rows => at[r] = {m})
            BY <3>2, <3>3, <3>5, WhoHas DEF StaysWith
        <4>4. times'[r] = times[r]
            BY <4>1, RowViews
        <4>5. CASE r \in up[m].batch.rows
          <5>1. marks'[r] = marks[r] \cup {"lost"}
              BY <4>2, <4>5, MarksGrow DEF MarksBy
          <5> QED BY <4>3, <4>4, <4>5, <5>1, Zenon DEF Custody!IsRefused, Custody!Marked
        <4>6. CASE r \notin up[m].batch.rows
          <5>1. marks'[r] = marks[r] \cup {}
              BY <4>2, <4>6, MarksGrow DEF MarksBy
          <5> QED BY <4>3, <4>4, <5>1, Zenon DEF Custody!Stays, Custody!Marked
        <4> QED BY <4>5, <4>6
      <3>7. ASSUME NEW r \in Rows, r \in S PROVE Custody!IsStored(m, r)
        <4>1. times'[r] = IF times[r] = 0 THEN 1 ELSE 2
          <5>1. \A u \in Tokens :
                  stored'[u][r] = IF u = t /\ stored[u][r] < MaxCount THEN stored[u][r] + 1 ELSE stored[u][r]
              BY <3>4, <3>7
          <5>2. r \in Items /\ stored \in [Tokens -> [Items -> Nat]]
              BY <1>0, <1>a DEF ServerTypes
          <5>3. Times(r)' = IF Times(r) = 0 THEN 1 ELSE 2
              BY <5>1, <5>2, TimesRise
          <5> QED BY <5>3, RowViews
        <4>2. MarksBy(r, {"kept"})
            BY <2>1, <2>3, <3>7 DEF MarksBy
        <4>3. marks'[r] = marks[r] \cup {"kept"}
            BY <4>2, MarksGrow DEF MarksBy
        <4>4. at[r] = {m} /\ at'[r] = at[r]
            BY <3>2, <3>3, <3>5, <3>7, WhoHas DEF StaysWith
        <4>5. "kept" \in marks[r] => "unsure" \in marks[r]
            BY <1>b, <2>1, <3>3, <3>7, MarksRead
        <4> QED BY <4>1, <4>3, <4>4, <4>5, Zenon DEF Custody!IsStored
      <3>8. Custody!Carry(m)
          BY <3>6, <3>7, Zenon DEF Custody!Carry
      <3> QED BY <3>8, CustodyTyped, Zenon DEF Custody!Next
    <2> QED BY <1>13, <2>1, <2>2, <2>3 DEF InsertEndpointConns
  <1>14. ASSUME NEW m \in Machines, Send(m) PROVE Custody!Next
    <2>1. PICK rows \in SUBSET agg[m] :
            /\ up' = [up EXCEPT ![m] = [Idle EXCEPT !.phase = "wire", !.batch = [rows |-> rows, progs |-> ids[m]]]]
            /\ agg' = [agg EXCEPT ![m] = @ \ rows]
        BY <1>0, <1>14 DEF Send, MachineTypes
    <2>2. up[m].phase = "idle" /\ UNCHANGED <<stored, spool, born, kept, lost, unsure>>
        BY <1>14 DEF Send, ghosts, server
    <2>3. up'[m].batch.rows = rows /\ \A n \in Machines : n # m => up'[n] = up[n]
        BY <1>0, <2>1 DEF MachineTypes, Idle
    <2>4. agg'[m] = agg[m] \ rows /\ \A n \in Machines : n # m => agg'[n] = agg[n]
        BY <1>0, <2>1 DEF MachineTypes
    <2>5. up[m].batch.rows = {}
        BY <1>0, <2>2 DEF InHand, Content
    <2>6. ASSUME NEW r \in Rows PROVE Fate(m, r)
      <3>1. StaysWith(m, r)
          BY <2>1, <2>2, <2>3, <2>4, <2>5 DEF StaysWith, Has
      <3>2. MarksBy(r, {})
          BY <2>2 DEF MarksBy
      <3> QED BY <3>1, <3>2 DEF Fate
    <2> QED BY <2>2, <2>3, <2>4, <2>6, Carries
  <1>15. ASSUME NEW m \in Machines, NEW b \in Batches, Forget(m, b), UNCHANGED <<stored, spool, kept>>,
                \/ b = EmptyBatch /\ (up[m].spooled \/ up[m].phase = "ok")
                \/ b = up[m].batch /\ ~up[m].spooled,
                unsure' = unsure \cup (IF up[m].spooled THEN Ambiguous(m) ELSE {})
         PROVE  Custody!Next
    <2>1. /\ agg'[m] = {} /\ up'[m] = Idle
          /\ \A n \in Machines : n # m => up'[n] = up[n] /\ agg'[n] = agg[n]
        BY <1>0, <1>15, IdleTyped, Replaced DEF Forget, MachineTypes
    <2>2. \A r \in Rows : born'[r] = born[r]
        BY <1>0, <1>15, <1>a DEF Forget, MachineTypes, Batches
    <2>3. up'[m].batch.rows = {} /\ lost' = lost \cup agg[m] \cup b.rows
        BY <1>15, <2>1 DEF Idle, EmptyBatch, Forget
    <2>4. \A r \in Rows : Has(m, r)' <=> In(spool[m], r)
        BY <1>15, <2>1, <2>3 DEF Has
    <2>5. ASSUME NEW r \in Rows PROVE Fate(m, r)
      <3>0. Once(m, r)
          BY <1>0 DEF OnePlace
      <3>1. CASE r \in agg[m]
        <4>1. GoesFrom(m, r) /\ r \notin up[m].batch.rows
            BY <2>4, <3>0, <3>1 DEF GoesFrom, Once, Has
        <4>2. r \notin Ambiguous(m)
            BY <4>1 DEF Ambiguous
        <4>3. MarksBy(r, {"lost"})
            BY <1>15, <2>2, <2>3, <3>1, <4>2 DEF MarksBy
        <4> QED BY <4>1, <4>3 DEF Fate
      <3>2. CASE r \notin agg[m] /\ r \in up[m].batch.rows /\ ~up[m].spooled
        <4>1. GoesFrom(m, r)
            BY <2>4, <3>0, <3>2 DEF GoesFrom, Once, Has
        <4>2. CASE up[m].phase = "ok" /\ b = EmptyBatch
          <5>1. r \in kept \cup lost
              BY <1>0, <3>2, <4>2 DEF Settled
          <5>2. r \notin b.rows
              BY <1>15, <4>2, IdleTyped
          <5>3. MarksBy(r, {})
              BY <1>15, <2>2, <2>3, <3>2, <5>2 DEF MarksBy
          <5> QED BY <4>1, <5>1, <5>3 DEF Fate
        <4>3. CASE b = up[m].batch
          <5>1. r \in b.rows
              BY <1>15, <3>2, <4>3
          <5>2. MarksBy(r, {"lost"})
              BY <1>15, <2>2, <2>3, <3>2, <5>1 DEF MarksBy
          <5> QED BY <4>1, <5>2 DEF Fate
        <4> QED BY <1>15, <3>2, <4>2, <4>3
      <3>3. CASE r \notin agg[m] /\ (r \in up[m].batch.rows => up[m].spooled)
        <4>1. r \notin b.rows
            BY <1>15, <3>3, IdleTyped
        <4>2. r \in up[m].batch.rows => In(spool[m], r)
            BY <1>0, <3>3 DEF InHand, FileInHand, In
        <4>3. StaysWith(m, r)
            BY <2>4, <3>3, <4>2 DEF StaysWith, Has
        <4>4. CASE up[m].spooled /\ r \in Ambiguous(m)
          <5>1. Has(m, r) /\ r \in kept
              BY <4>4 DEF Ambiguous, Has
          <5>2. MarksBy(r, {"unsure"})
              BY <1>15, <2>2, <2>3, <3>3, <4>1, <4>4 DEF MarksBy
          <5> QED BY <4>3, <5>1, <5>2 DEF Fate
        <4>5. CASE ~(up[m].spooled /\ r \in Ambiguous(m))
          <5>1. MarksBy(r, {})
              BY <1>15, <2>2, <2>3, <3>3, <4>1, <4>5 DEF MarksBy
          <5> QED BY <4>3, <5>1 DEF Fate
        <4> QED BY <4>4, <4>5
      <3> QED BY <3>1, <3>2, <3>3
    <2>6. \A t \in Tokens, r \in Rows : stored'[t][r] = stored[t][r]
        BY <1>15
    <2> QED BY <1>15, <2>1, <2>5, <2>6, Carries
  <1>16. ASSUME NEW m \in Machines, AgentRestart(m) PROVE Custody!Next
    <2>1. PICK b \in Batches : b = IF up[m].spooled THEN EmptyBatch ELSE up[m].batch
        BY <1>d, IdleTyped
    <2>2. /\ Forget(m, b) /\ UNCHANGED <<stored, spool, kept>>
          /\ unsure' = unsure \cup (IF up[m].spooled THEN Ambiguous(m) ELSE {})
        BY <1>16, <2>1 DEF AgentRestart, server
    <2>3. \/ b = EmptyBatch /\ (up[m].spooled \/ up[m].phase = "ok")
          \/ b = up[m].batch /\ ~up[m].spooled
        BY <2>1
    <2> QED BY <1>15, <2>2, <2>3
  <1>17. ASSUME NEW m \in Machines, HandlesFiles(m) PROVE Custody!Next
    <2>1. PICK u \in Uploads, f \in Seq(Batches) : FileStep(m, u, f)
        BY <1>17, FileSteps
    <2>2. /\ up' = [up EXCEPT ![m] = u] /\ spool' = [spool EXCEPT ![m] = f] /\ agg' = agg /\ stored' = stored
        BY <2>1, Zenon DEF FileStep, server
    <2>3. \A n \in Machines : n # m => up'[n] = up[n] /\ agg'[n] = agg[n] /\ spool'[n] = spool[n]
        BY <1>0, <2>2 DEF MachineTypes
    <2>4. \A r \in Rows : Fate(m, r)
        BY <1>0, <2>1, FileFate
    <2>5. \A t \in Tokens, r \in Rows : stored'[t][r] = stored[t][r]
        BY <2>2
    <2> QED BY <2>3, <2>4, <2>5, Carries
  <1>18. ASSUME NEW m \in Machines, Agent(m) PROVE Custody!Next
    <2>1. CASE /\ up[m].phase = "ok" /\ ~up[m].spooled /\ Forget(m, EmptyBatch)
               /\ UNCHANGED <<server, cred, spool, day, kept, unsure, jammed>>
      <3>1. EmptyBatch \in Batches /\ unsure' = unsure \cup (IF up[m].spooled THEN Ambiguous(m) ELSE {})
          BY <2>1, IdleTyped
      <3> QED BY <1>15, <2>1, <3>1 DEF server
    <2> QED BY <1>14, <1>17, <1>18, <2>1, AgentDoes, Zenon
  <1> QED
      BY <1>1, <1>2, <1>3, <1>4, <1>5, <1>6, <1>9, <1>10, <1>11, <1>12, <1>13, <1>14, <1>16, <1>18
      DEF Next, Handler
---------------------------------------------------------------------------
(* The theorems *)

(* In every behaviour, whatever fails and in whatever order, every         *)
(* variable keeps its type, no aggregator grows beyond max_entries and no  *)
(* spool beyond its limit, unless its files cannot be listed or deleted.   *)
THEOREM IngestTypeCorrect == Spec => []IngestTypeOK
  <1>1. TypeInv => IngestTypeOK
      BY DEF TypeInv
  <1> QED
      BY <1>1, IngestInit, TypeStep, PTL DEF Spec

(* What an agent has observed is still on its machine, has reached the     *)
(* database, or was given up by one of the program's own rules.            *)
THEOREM NothingVanishes == Spec => []NoSilentLoss
  <1>1. LossInv => NoSilentLoss
      BY DEF LossInv
  <1> QED
      BY <1>1, IngestInit, TypeStep, LossInit, LossStep, PTL DEF Spec

(* A row is counted more than once only if a request that had stored it    *)
(* was reported to its agent as failed, or the file it came from could not *)
(* be removed.                                                             *)
THEOREM CountedOnce == Spec => []CountedTwiceOnlyAfterFailure
  <1>1. OnceInv => CountedTwiceOnlyAfterFailure
      BY DEF OnceInv
  <1> QED
      BY <1>1, IngestInit, TypeStep, OnceInit, OnceStep, PTL DEF Spec

(* Nothing of a deleted agent is in the database, also when a request of   *)
(* it was half way through the handler when it was deleted.                *)
THEOREM DeletedIsGone == Spec => []DeletedLeavesNothing
  <1>1. Init => DeletedLeavesNothing
      BY DEF Init, DeletedLeavesNothing
  <1> QED
      BY <1>1, IngestInit, TypeStep, DeletedStep, PTL DEF Spec

(* What agents and server do to rows, through all the requests, files,     *)
(* transactions and their failures, is what RowCustody promises: a row is  *)
(* with one machine only, is stored again only when a request that had     *)
(* stored it was reported as failed or its file could not be removed,      *)
(* leaves its machine only stored or given up, and never comes back.       *)
THEOREM CustodyIsKept == Spec => ImplementsCustody
  <1>1. TypeInv /\ LossInv /\ OnceInv /\ [Next]_vars => [Custody!Next]_(Custody!custody)
      BY CustodyStep
  <1> QED
      BY <1>1, CustodyInitially, IngestInit, TypeStep, LossInit, LossStep, OnceInit, OnceStep, PTL
      DEF Spec, ImplementsCustody, Custody!Spec
=============================================================================
