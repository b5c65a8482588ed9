---------------------------- MODULE AgentIngest ----------------------------
(***************************************************************************)
(* Endpoint agents and the part of the server they talk to: enrolment with *)
(* a single-use token, upload of per-minute connection rows and program    *)
(* identities, the agent's spool, revocation, deletion and retention       *)
(* (backend/internal/api/agents.go, db/agents.go, db/agent_retention.go;   *)
(* agent/pmacct-agent/src/runner.rs, agent-core/src/spool.rs).             *)
(*                                                                         *)
(* An agent's row in the database is named by the enrolment token that     *)
(* created it.  One request of /agent/events is split at its database      *)
(* calls; between them the administrator, the other machines and the       *)
(* network act.                                                            *)
(***************************************************************************)
EXTENDS Integers, Sequences, FiniteSets

CONSTANTS
    Machines,    \* computers that run an agent
    Tokens,      \* enrolment tokens, and the agent rows they create
    Rows,        \* per-minute connection aggregates (one key, one minute)
    Programs,    \* program identities (exe and hash)
    Malformed,   \* rows and identities the server's validation drops
    Poison,      \* rows and identities it lets pass and the database refuses each time: a text
                 \* with a NUL, or cut by trunc inside a character
    NoToken,     \* a machine that holds no bearer token
    MaxKeys,     \* the aggregator's max_entries
    MaxBatch,    \* maxAgentBatch: batches of more rows are refused with 413
    MaxProgs,    \* batches of more identities as well
    FitsBody(_), \* the batch is within agentBodyLimit
    MaxSpool,    \* max_files: files the spool keeps
    FitsSpool(_),\* these files together are within the spool's max_bytes
    MaxFlush,    \* spooled batches sent after one successful upload
    MaxCount,    \* bound: a row's count is not followed beyond this
    RejectDays,  \* validConn refuses a row older than this
    Retentions,  \* what an administrator may store as agent retention
    MaxUpsets    \* bound: errors of network, database and disk, restarts, administrator's
                 \* changes and nights

ASSUME IngestAssumption ==
    /\ NoToken \notin Tokens
    /\ MaxKeys \in Nat \ {0} /\ MaxBatch \in Nat /\ MaxProgs \in Nat
    /\ MaxSpool \in Nat \ {0} /\ MaxFlush \in Nat /\ MaxCount \in Nat \ {0, 1} /\ RejectDays \in Nat /\ MaxUpsets \in Nat
    /\ Retentions \subseteq [conn : Int, stale : Int, auto : BOOLEAN]
    /\ Rows \cap Programs = {} /\ Malformed \cup Poison \subseteq Rows \cup Programs

VARIABLES
    token,    \* agent_enroll_tokens
    agents,   \* agents: the row created with each token
    stored,   \* endpoint_conns.count and program_identity, per agent row
    ret,      \* settings["agent_retention"]
    cred,     \* bearer token a machine holds
    agg,      \* the agent's aggregator: rows of the running minute and earlier
    ids,      \* identities noted and not yet taken into a batch
    up,       \* the upload in progress
    spool,    \* batches on disk, oldest first
    updated,  \* machines that run the server's build
    born,     \* day a row was observed on
    day,      \* the calendar
    upsets,   \* disturbances so far
    kept,     \* history: items the server has stored at some time
    lost,     \* history: items given up by a rule of the program
    unsure,   \* history: rows stored and not known to be: the request then failed, or the file
              \* they came from could not be removed
    jammed    \* history: machines that could not delete or list a file of their spool

Items == Rows \cup Programs

server  == <<token, agents, stored, ret>>
machine == <<cred, agg, ids, up, spool, updated>>
ghosts  == <<kept, lost, unsure, jammed>>
vars    == <<server, machine, born, day, upsets, ghosts>>

Batches == [rows : SUBSET Rows, progs : SUBSET Programs]
EmptyBatch == [rows |-> {}, progs |-> {}]
Content(b) == b.rows \cup b.progs

(* An upload: the batch in hand, whether it is a file of the spool, the    *)
(* agent row the server found for it with its switch, the files this flush *)
(* has sent, and those the agent has looked at and left where they are.    *)
Phases == {"idle", "wire", "auth", "stored", "touched", "ok", "failed", "spool", "peek"}
Idle == [phase |-> "idle", batch |-> EmptyBatch, spooled |-> FALSE, row |-> NoToken, auto |-> FALSE,
         flushed |-> 0, skip |-> 0]

NoAgent == [state |-> "none", seen |-> 0, auto |-> FALSE]

(* What is still on machine m, in memory or on disk.                       *)
Spooled(m) == UNION {Content(spool[m][i]) : i \in DOMAIN spool[m]}
Aboard(m)  == agg[m] \cup ids[m] \cup Content(up[m].batch) \cup Spooled(m)
Observed   == {i \in Items : born[i] > 0}
---------------------------------------------------------------------------
DefaultAgentRetention == [conn |-> 15, stale |-> 0, auto |-> TRUE]

Init ==
    /\ token = [t \in Tokens |-> "absent"]
    /\ agents = [t \in Tokens |-> NoAgent]
    /\ stored = [t \in Tokens |-> [i \in Items |-> 0]]
    /\ ret = DefaultAgentRetention
    /\ cred = [m \in Machines |-> NoToken]
    /\ agg = [m \in Machines |-> {}]
    /\ ids = [m \in Machines |-> {}]
    /\ up = [m \in Machines |-> Idle]
    /\ spool = [m \in Machines |-> <<>>]
    /\ updated = {}
    /\ born = [i \in Items |-> 0]
    /\ day = 1
    /\ upsets = 0
    /\ kept = {} /\ lost = {} /\ unsure = {} /\ jammed = {}

(* Whatever disturbs the plain course of enrolment and uploads.            *)
Upset == upsets < MaxUpsets /\ upsets' = upsets + 1
---------------------------------------------------------------------------
(* Enrolment *)

CreateEnrollToken(t) == token' = [token EXCEPT ![t] = "fresh"]

createEnrollToken(t) ==
    /\ token[t] = "absent"
    /\ CreateEnrollToken(t)
    /\ UNCHANGED <<agents, stored, ret, machine, born, day, upsets, ghosts>>

TokenExpires(t) ==
    /\ Upset
    /\ token[t] = "fresh"
    /\ token' = [token EXCEPT ![t] = "spent"]
    /\ UNCHANGED <<agents, stored, ret, machine, born, day, ghosts>>

AgentByToken(t) == t \in Tokens /\ agents[t].state = "active"

(* One transaction uses the token up and inserts the agent.                *)
EnrollAgent(t) ==
    /\ token[t] = "fresh"
    /\ token' = [token EXCEPT ![t] = "spent"]
    /\ agents' = [agents EXCEPT ![t] = [state |-> "active", seen |-> day, auto |-> TRUE]]

(* The bearer token is only in the answer, which may be lost.  A machine   *)
(* enrols again when its agent is not accepted any more.                   *)
agentEnroll(m, t) ==
    /\ up[m].phase = "idle"
    /\ ~AgentByToken(cred[m])
    /\ EnrollAgent(t)
    /\ \/ cred' = [cred EXCEPT ![m] = t] /\ UNCHANGED upsets
       \/ Upset /\ UNCHANGED cred
    /\ UNCHANGED <<updated, stored, ret, agg, ids, up, spool, born, day, ghosts>>
---------------------------------------------------------------------------
(* The agent's capture *)

(* Aggregator::observe: a key beyond max_entries is dropped and counted.   *)
Observe(m, r) ==
    /\ cred[m] # NoToken
    /\ r \notin Observed
    /\ born' = [born EXCEPT ![r] = day]
    /\ IF Cardinality(agg[m]) < MaxKeys
       THEN agg' = [agg EXCEPT ![m] = @ \cup {r}] /\ UNCHANGED lost
       ELSE lost' = lost \cup {r} /\ UNCHANGED agg
    /\ UNCHANGED <<updated, server, cred, ids, up, spool, day, upsets, kept, unsure, jammed>>

NoteIdentity(m, p) ==
    /\ cred[m] # NoToken
    /\ p \notin Observed
    /\ born' = [born EXCEPT ![p] = day]
    /\ ids' = [ids EXCEPT ![m] = @ \cup {p}]
    /\ UNCHANGED <<updated, server, cred, agg, up, spool, day, upsets, ghosts>>

SendKeeping(m) ==               \* mutant: the aggregator is not drained
    /\ cred[m] # NoToken
    /\ up[m].phase = "idle"
    /\ up' = [up EXCEPT ![m] = [Idle EXCEPT !.phase = "wire", !.batch = [rows |-> agg[m], progs |-> ids[m]]]]
    /\ ids' = [ids EXCEPT ![m] = {}]
    /\ UNCHANGED <<updated, server, cred, agg, spool, born, day, upsets, ghosts>>

(* The send tick: the rows, once their minute is complete, and the pending *)
(* identities become a batch; with neither it is the heartbeat.            *)
Send(m) ==
    /\ cred[m] # NoToken
    /\ up[m].phase = "idle"
    /\ \E rows \in {{}, agg[m]} :
         /\ up' = [up EXCEPT ![m] = [Idle EXCEPT !.phase = "wire", !.batch = [rows |-> rows, progs |-> ids[m]]]]
         /\ agg' = [agg EXCEPT ![m] = @ \ rows]
    /\ ids' = [ids EXCEPT ![m] = {}]
    /\ UNCHANGED <<updated, server, cred, spool, born, day, upsets, ghosts>>

(* Rows of the upload in progress that are in the database already.        *)
Ambiguous(m) == IF up[m].phase \in {"stored", "touched", "ok"} THEN up[m].batch.rows \cap kept ELSE {}

(* The agent's memory is gone: rows not on disk with it, while a new       *)
(* process describes the programs it meets again.                          *)
Forget(m, batch) ==
    /\ lost' = lost \cup agg[m] \cup batch.rows
    /\ born' = [i \in Items |-> IF i \in ids[m] \cup batch.progs THEN 0 ELSE born[i]]
    /\ agg' = [agg EXCEPT ![m] = {}]
    /\ ids' = [ids EXCEPT ![m] = {}]
    /\ up' = [up EXCEPT ![m] = Idle]

AgentRestart(m) ==
    /\ Upset
    /\ unsure' = unsure \cup (IF up[m].spooled THEN Ambiguous(m) ELSE {})
    /\ Forget(m, IF up[m].spooled THEN EmptyBatch ELSE up[m].batch)
    /\ UNCHANGED <<updated, server, cred, spool, day, kept, jammed>>
---------------------------------------------------------------------------
(* The server's agentEvents handler, one action per database call *)

Goto(m, p) == up' = [up EXCEPT ![m].phase = p]

(* What the handler stores of a batch: well-formed rows of the last days,  *)
(* well-formed identities.                                                 *)
validConn(r)    == r \notin Malformed /\ born[r] + RejectDays >= day
validProgram(p) == p \notin Malformed
Valid(b)        == {r \in b.rows : validConn(r)}
ValidProgs(b)   == {p \in b.progs : validProgram(p)}

TooLarge(b) == Cardinality(b.rows) > MaxBatch \/ Cardinality(b.progs) > MaxProgs \/ ~FitsBody(b)

agentAuthAny(m) ==              \* mutant: a revoked token is still accepted
    /\ up[m].phase = "wire"
    /\ IF cred[m] \in Tokens /\ ~TooLarge(up[m].batch)
       THEN up' = [up EXCEPT ![m].phase = "auth", ![m].row = cred[m], ![m].auto = agents[cred[m]].auto]
       ELSE Goto(m, "failed")
    /\ UNCHANGED <<updated, server, cred, agg, ids, spool, born, day, upsets, ghosts>>

agentAuth(m) ==
    /\ up[m].phase = "wire"
    /\ IF AgentByToken(cred[m]) /\ ~TooLarge(up[m].batch)
       THEN up' = [up EXCEPT ![m].phase = "auth", ![m].row = cred[m], ![m].auto = agents[cred[m]].auto]
       ELSE Goto(m, "failed")
    /\ UNCHANGED <<updated, server, cred, agg, ids, spool, born, day, upsets, ghosts>>

Bump(f, S) == [i \in Items |-> IF i \in S /\ f[i] < MaxCount THEN f[i] + 1 ELSE f[i]]

InsertEndpointConnsUnchecked(m) ==      \* mutant: no foreign key to the agent
    LET t == up[m].row
        new == Valid(up[m].batch)
    IN  /\ up[m].phase = "auth"
        /\ stored' = [stored EXCEPT ![t] = Bump(@, new)]
        /\ kept' = kept \cup new
        /\ lost' = lost \cup (up[m].batch.rows \ new)
        /\ Goto(m, "stored")
        /\ UNCHANGED <<updated, token, agents, ret, cred, agg, ids, spool, born, day, upsets, unsure, jammed>>

(* One pipelined batch, so all rows or none: one row the database refuses  *)
(* fails the others.  An agent that is gone takes its data with it         *)
(* (REFERENCES agents ON DELETE CASCADE) and no row can be added to it.    *)
InsertEndpointConns(m) ==
    LET t == up[m].row
        new == Valid(up[m].batch)
    IN  /\ up[m].phase = "auth"
        /\ \/ /\ agents[t].state # "none" \/ new = {}
              /\ new \cap Poison = {}
              /\ stored' = [stored EXCEPT ![t] = Bump(@, new)]
              /\ kept' = kept \cup new
              /\ lost' = lost \cup (up[m].batch.rows \ new)
              /\ Goto(m, "stored")
              /\ UNCHANGED upsets
           \/ /\ (agents[t].state = "none" /\ new # {}) \/ new \cap Poison # {}
              /\ Goto(m, "failed")
              /\ UNCHANGED <<stored, kept, lost, upsets>>
           \/ Upset /\ Goto(m, "failed") /\ UNCHANGED <<stored, kept, lost>>
    /\ UNCHANGED <<updated, token, agents, ret, cred, agg, ids, spool, born, day, unsure, jammed>>

TouchAgent(m) ==
    /\ up[m].phase = "stored"
    /\ \/ /\ agents' = IF agents[up[m].row].state = "none" THEN agents
                       ELSE [agents EXCEPT ![up[m].row].seen = day]
          /\ Goto(m, IF up[m].batch.progs = {} THEN "ok" ELSE "touched")
          /\ UNCHANGED <<upsets, unsure>>
       \/ /\ Upset /\ Goto(m, "failed")
          /\ unsure' = unsure \cup Ambiguous(m)
          /\ UNCHANGED agents
    /\ UNCHANGED <<updated, token, stored, ret, cred, agg, ids, spool, born, day, kept, lost, jammed>>

(* Identities are upserted one at a time: a failure keeps the earlier ones *)
(* and ends the request.                                                   *)
UpsertProgramIdentities(m) ==
    LET t == up[m].row
        progs == ValidProgs(up[m].batch)
        present(S) == [i \in Items |-> IF i \in S THEN 1 ELSE stored[t][i]]
    IN  /\ up[m].phase = "touched"
        /\ \/ /\ agents[t].state # "none" \/ progs = {}
              /\ progs \cap Poison = {}
              /\ stored' = [stored EXCEPT ![t] = present(progs)]
              /\ kept' = kept \cup progs
              /\ lost' = lost \cup (up[m].batch.progs \ progs)
              /\ Goto(m, "ok")
              /\ UNCHANGED <<upsets, unsure>>
           \/ \E done \in (SUBSET (progs \ Poison)) \ {progs} :
                /\ agents[t].state = "none" => done = {}
                /\ IF agents[t].state = "none" \/ progs \cap Poison # {} THEN UNCHANGED upsets ELSE Upset
                /\ stored' = [stored EXCEPT ![t] = present(done)]
                /\ kept' = kept \cup done
                /\ UNCHANGED lost
                /\ unsure' = unsure \cup Ambiguous(m)
                /\ Goto(m, "failed")
    /\ UNCHANGED <<updated, token, agents, ret, cred, agg, ids, spool, born, day, jammed>>

(* The connection breaks or the client's 30 s pass: the handler's context  *)
(* is cancelled wherever it is, and the agent sees an error.               *)
AnswerLost(m) ==
    /\ up[m].phase \in {"wire", "auth", "stored", "touched", "ok"}
    /\ Upset
    /\ unsure' = unsure \cup Ambiguous(m)
    /\ Goto(m, "failed")
    /\ UNCHANGED <<updated, server, cred, agg, ids, spool, born, day, kept, lost, jammed>>
---------------------------------------------------------------------------
(* The agent, once it has the answer *)

(* The answer offers the server's build when the global switch and the     *)
(* agent's own, as the handler read it, are on; a failing read of the      *)
(* settings counts as the default.  The agent takes a build once.          *)
GetAgentRetention == IF ret.auto THEN UNCHANGED upsets ELSE Upset
OffersUpdate(m) == m \notin updated /\ up[m].auto /\ GetAgentRetention

(* The agent looks for the oldest file of the spool.                       *)
Peeking(flushed) == [Idle EXCEPT !.phase = "peek", !.flushed = flushed]

(* A fresh batch was accepted: take the update it offers, which ends the   *)
(* run loop without a last drain, or flush the spool.                      *)
Accepted(m) ==
    /\ up[m].phase = "ok" /\ ~up[m].spooled
    /\ \/ /\ up' = [up EXCEPT ![m] = Peeking(0)]
          /\ UNCHANGED <<agg, ids, born, upsets, lost, updated>>
       \/ /\ OffersUpdate(m)
          /\ updated' = updated \cup {m}
          /\ Forget(m, EmptyBatch)
    /\ UNCHANGED <<server, cred, spool, day, kept, unsure, jammed>>

PeekNone(m) ==                  \* mutant: the spool is not flushed
    /\ up[m].phase = "peek"
    /\ up' = [up EXCEPT ![m] = Idle]
    /\ UNCHANGED <<updated, server, cred, agg, ids, spool, born, day, upsets, ghosts>>

(* Spool::peek and the limit of one flush: the oldest file that can be     *)
(* read is sent.  One that cannot be read is dropped as corrupt, or stays  *)
(* where it is when even that fails; a directory that cannot be listed     *)
(* looks empty.                                                            *)
WithoutFile(s, n) == [i \in 1..(Len(s) - 1) |-> IF i < n THEN s[i] ELSE s[i + 1]]

DropFile(m, n) ==
    /\ spool' = [spool EXCEPT ![m] = WithoutFile(@, n)]
    /\ lost' = lost \cup Content(spool[m][n])

LeaveFile(m) ==
    /\ up' = [up EXCEPT ![m].skip = @ + 1]
    /\ jammed' = jammed \cup {m}

Peek(m) ==
    LET n == up[m].skip + 1
        found == n \in DOMAIN spool[m] /\ up[m].flushed < MaxFlush
    IN  /\ up[m].phase = "peek"
        /\ \/ /\ IF found THEN Upset ELSE UNCHANGED upsets
              /\ up' = [up EXCEPT ![m] = Idle]
              /\ UNCHANGED <<spool, lost, jammed>>
           \/ /\ found
              /\ up' = [up EXCEPT ![m].phase = "wire", ![m].batch = spool[m][n], ![m].spooled = TRUE]
              /\ UNCHANGED <<spool, lost, jammed, upsets>>
           \/ found /\ Upset /\ DropFile(m, n) /\ UNCHANGED <<up, jammed>>
           \/ found /\ Upset /\ LeaveFile(m) /\ UNCHANGED <<spool, lost>>
        /\ UNCHANGED <<updated, server, cred, agg, ids, born, day, kept, unsure>>

SpooledAcceptedKeeping(m) ==    \* mutant: the file is not removed
    /\ up[m].phase = "ok" /\ up[m].spooled
    /\ up' = [up EXCEPT ![m] = Peeking(up[m].flushed + 1)]
    /\ UNCHANGED <<updated, server, cred, agg, ids, spool, born, day, upsets, ghosts>>

(* Spool::remove passes an error over in silence: the file is sent again.  *)
SpooledAccepted(m) ==
    /\ up[m].phase = "ok" /\ up[m].spooled
    /\ \/ /\ spool' = [spool EXCEPT ![m] = WithoutFile(@, up[m].skip + 1)]
          /\ UNCHANGED <<unsure, jammed, upsets>>
       \/ /\ Upset
          /\ unsure' = unsure \cup Ambiguous(m)
          /\ jammed' = jammed \cup {m}
          /\ UNCHANGED spool
    /\ up' = [up EXCEPT ![m] = Peeking(up[m].flushed + 1)]
    /\ UNCHANGED <<updated, server, cred, agg, ids, born, day, kept, lost>>

RefusedDropping(m) ==           \* mutant: only spooled batches survive an error
    /\ up[m].phase = "failed"
    /\ up' = [up EXCEPT ![m] = Idle]
    /\ UNCHANGED <<updated, server, cred, agg, ids, spool, born, day, upsets, ghosts>>

(* Whatever the error, a batch with something in it goes to the spool; one *)
(* from the spool is there already and is tried again after the next       *)
(* accepted upload, before all others.                                     *)
Refused(m) ==
    /\ up[m].phase = "failed"
    /\ up' = [up EXCEPT ![m] = IF up[m].spooled \/ Content(up[m].batch) = {} THEN Idle
                               ELSE [Idle EXCEPT !.phase = "spool", !.batch = up[m].batch]]
    /\ UNCHANGED <<updated, server, cred, agg, ids, spool, born, day, upsets, ghosts>>

NeedsRoomLate(m) ==             \* mutant: one file more than max_files
    LET s == spool[m]
        left == SubSeq(s, up[m].skip + 1, Len(s))
    IN  left # <<>> /\ (Len(left) > MaxSpool \/ ~FitsSpool(Append(left, up[m].batch)))

(* Spool::push evicts the oldest files until the new one fits, by their    *)
(* number and their bytes; a file that cannot be deleted is passed over    *)
(* and not counted any more.                                               *)
NeedsRoom(m) ==
    LET s == spool[m]
        left == SubSeq(s, up[m].skip + 1, Len(s))
    IN  left # <<>> /\ (Len(left) >= MaxSpool \/ ~FitsSpool(Append(left, up[m].batch)))

Spooling(m) == up[m].phase = "spool" /\ FitsSpool(<<up[m].batch>>)

MakeRoom(m) ==
    /\ Spooling(m) /\ NeedsRoom(m)
    /\ \/ DropFile(m, up[m].skip + 1) /\ UNCHANGED <<up, jammed, upsets>>
       \/ Upset /\ LeaveFile(m) /\ UNCHANGED <<spool, lost>>
    /\ UNCHANGED <<updated, server, cred, agg, ids, born, day, kept, unsure>>

(* A directory that cannot be listed looks empty: nothing is evicted.      *)
WriteFile(m) ==
    /\ Spooling(m)
    /\ \/ ~NeedsRoom(m) /\ UNCHANGED <<jammed, upsets>>
       \/ Upset /\ jammed' = jammed \cup {m}
    /\ spool' = [spool EXCEPT ![m] = Append(@, up[m].batch)]
    /\ up' = [up EXCEPT ![m] = Idle]
    /\ UNCHANGED <<updated, server, cred, agg, ids, born, day, kept, lost, unsure>>

(* A batch larger than the whole spool is refused, and the directory or    *)
(* the file may not be writable: a warning, and the batch is gone.         *)
SpoolFails(m) ==
    /\ up[m].phase = "spool"
    /\ IF FitsSpool(<<up[m].batch>>) THEN Upset ELSE UNCHANGED upsets
    /\ lost' = lost \cup Content(up[m].batch)
    /\ up' = [up EXCEPT ![m] = Idle]
    /\ UNCHANGED <<updated, server, cred, agg, ids, spool, born, day, kept, unsure, jammed>>
---------------------------------------------------------------------------
(* The administrator and the maintenance job *)

RevokeAgent(t) ==
    /\ agents[t].state = "active"
    /\ agents' = [agents EXCEPT ![t].state = "revoked"]

SetAgentAutoUpdate(t, on) ==
    /\ agents[t].state # "none" /\ agents[t].auto # on
    /\ agents' = [agents EXCEPT ![t].auto = on]

agentAdminAction(t) ==
    /\ Upset
    /\ RevokeAgent(t) \/ \E on \in BOOLEAN : SetAgentAutoUpdate(t, on)
    /\ UNCHANGED <<token, stored, ret, machine, born, day, ghosts>>

(* DELETE FROM agents cascades to what the agents reported.                *)
DeleteAgent(S) ==
    /\ agents' = [t \in Tokens |-> IF t \in S THEN NoAgent ELSE agents[t]]
    /\ stored' = [t \in Tokens |-> IF t \in S THEN [i \in Items |-> 0] ELSE stored[t]]

deleteAgent(t) ==
    /\ Upset
    /\ agents[t].state # "none"
    /\ DeleteAgent({t})
    /\ UNCHANGED <<token, ret, machine, born, day, ghosts>>

Validate(r) == r.conn >= 0 /\ r.stale >= 0

PruneEndpointConns(r) == {i \in Rows : born[i] > 0 /\ r.conn > 0 /\ born[i] + r.conn <= day}

Silent(r) == {t \in Tokens : agents[t].state # "none" /\ r.stale > 0 /\ agents[t].seen + r.stale <= day}

(* Old aggregates first, then agents silent for too long with what they    *)
(* still have.                                                             *)
PruneAgentData(r) ==
    LET old == PruneEndpointConns(r)
        silent == Silent(r)
    IN  /\ agents' = [t \in Tokens |-> IF t \in silent THEN NoAgent ELSE agents[t]]
        /\ stored' = [t \in Tokens |-> [i \in Items |-> IF i \in old \/ t \in silent THEN 0 ELSE stored[t][i]]]

setAgentSettings ==
    \E r \in Retentions :
        /\ Upset
        /\ r # ret /\ Validate(r)
        /\ ret' = r
        /\ PruneAgentData(r)
        /\ UNCHANGED <<token, machine, born, day, ghosts>>

Maintenance ==
    /\ PruneAgentData(ret)
    /\ stored' # stored \/ agents' # agents
    /\ UNCHANGED <<token, ret, machine, born, day, upsets, ghosts>>

Midnight ==
    /\ Upset
    /\ day' = day + 1
    /\ UNCHANGED <<server, machine, born, ghosts>>
---------------------------------------------------------------------------
Handler(m) == agentAuth(m) \/ InsertEndpointConns(m) \/ TouchAgent(m) \/ UpsertProgramIdentities(m)
Agent(m)   ==
    \/ Send(m) \/ Accepted(m) \/ Peek(m) \/ SpooledAccepted(m)
    \/ Refused(m) \/ MakeRoom(m) \/ WriteFile(m) \/ SpoolFails(m)

Next ==
    \/ \E t \in Tokens : createEnrollToken(t) \/ TokenExpires(t) \/ agentAdminAction(t) \/ deleteAgent(t)
    \/ \E m \in Machines, t \in Tokens : agentEnroll(m, t)
    \/ \E m \in Machines :
         \/ \E r \in Rows : Observe(m, r)
         \/ \E p \in Programs : NoteIdentity(m, p)
         \/ Handler(m) \/ Agent(m) \/ AnswerLost(m) \/ AgentRestart(m)
    \/ setAgentSettings \/ Maintenance \/ Midnight

(* The run loop's timer keeps ticking and the HTTP client times out; the   *)
(* server finishes the requests it was handed.                             *)
Fairness == \A m \in Machines : WF_vars(Handler(m)) /\ WF_vars(Agent(m))

Spec == Init /\ [][Next]_vars /\ Fairness
---------------------------------------------------------------------------
(* Every variable has its type; an aggregator keeps its bound, and a spool *)
(* whose files can be listed and deleted as well (Spool::push).            *)
IngestTypeOK ==
    /\ token \in [Tokens -> {"absent", "fresh", "spent"}]
    /\ agents \in [Tokens -> [state : {"none", "active", "revoked"}, seen : Nat, auto : BOOLEAN]]
    /\ stored \in [Tokens -> [Items -> Nat]]
    /\ ret \in [conn : Nat, stale : Nat, auto : BOOLEAN]
    /\ cred \in [Machines -> Tokens \cup {NoToken}]
    /\ agg \in [Machines -> SUBSET Rows] /\ ids \in [Machines -> SUBSET Programs]
    /\ up \in [Machines -> [phase : Phases, batch : Batches, spooled : BOOLEAN,
                            row : Tokens \cup {NoToken}, auto : BOOLEAN, flushed : Nat, skip : Nat]]
    /\ spool \in [Machines -> Seq(Batches)]
    /\ updated \subseteq Machines
    /\ born \in [Items -> Nat] /\ day \in Nat \ {0} /\ upsets \in Nat
    /\ kept \subseteq Items /\ lost \subseteq Items /\ unsure \subseteq Items
    /\ jammed \subseteq Machines
    /\ \A m \in Machines : (m \in jammed \/ Len(spool[m]) <= MaxSpool) /\ Cardinality(agg[m]) <= MaxKeys

(* What an agent has observed is still on the machine, has reached the     *)
(* database, or was given up where the program gives up (aggregator full,  *)
(* spool full, a batch the spool cannot take or a file it cannot read, a   *)
(* row too old or malformed, the agent process ended): no answer of the    *)
(* server and no order of failures makes it vanish otherwise.              *)
NoSilentLoss == \A i \in Observed : i \in kept \cup lost \/ \E m \in Machines : i \in Aboard(m)

(* A row is counted more than once, over all agents of the database, only  *)
(* if a request that had stored it was reported to the agent as failed, or *)
(* the file it was sent from could not be removed: the additive upsert is  *)
(* exact as long as answers are not lost and the disk obeys.               *)
CountedTwiceOnlyAfterFailure ==
    \A r \in Rows : \A t, u \in Tokens :
        (stored[t][r] > 1 \/ (t # u /\ stored[t][r] > 0 /\ stored[u][r] > 0)) => r \in unsure

(* Once an agent is deleted, by hand or for its silence, nothing of it is  *)
(* left, also when a request of it was half way through the handler.       *)
DeletedLeavesNothing ==
    \A t \in Tokens : agents[t].state = "none" => \A i \in Items : stored[t][i] = 0

(* The life of a row: with one machine, in the database, given up.         *)
Holds(m, r) ==
    r \in agg[m] \/ r \in up[m].batch.rows \/ \E i \in DOMAIN spool[m] : r \in spool[m][i].rows

RowMarks(r) ==
    {k \in {"seen", "kept", "lost", "unsure"} :
        \/ k = "seen" /\ born[r] > 0
        \/ k = "kept" /\ r \in kept
        \/ k = "lost" /\ r \in lost
        \/ k = "unsure" /\ r \in unsure}

Times(r) ==
    IF \A t \in Tokens : stored[t][r] = 0 THEN 0
    ELSE IF \E t \in Tokens : stored[t][r] = 1 /\ \A u \in Tokens : u # t => stored[u][r] = 0 THEN 1 ELSE 2

at    == [r \in Rows |-> {m \in Machines : Holds(m, r)}]
marks == [r \in Rows |-> RowMarks(r)]
times == [r \in Rows |-> Times(r)]
Custody == INSTANCE RowCustody

(* Aggregator, uploads, spool and database together implement the custody  *)
(* of rows: a row is with one machine only, is stored again only when its  *)
(* machine could not note that it had been (a failed request, a file that  *)
(* could not be removed), leaves a machine only stored or given up, and    *)
(* never comes back (runner.rs, spool.rs, agentEvents).                    *)
ImplementsCustody == Custody!Spec

(* A revoked agent goes quiet: from some time on the server works on no    *)
(* request of it.                                                          *)
RevokedGoesQuiet ==
    \A t \in Tokens : <>[](agents[t].state = "revoked") => <>[](\A m \in Machines : up[m].row # t)

(* The spool of an agent the server accepts is emptied again and again,    *)
(* unless one of its batches is refused each time it is sent: too large,   *)
(* or with a row or an identity the database cannot take.  Such a batch    *)
(* stays the oldest and holds up those behind it (runner.rs:128) until it  *)
(* is evicted.                                                             *)
Blocked(b) == TooLarge(b) \/ (Valid(b) \cup ValidProgs(b)) \cap Poison # {}

Drainable(m) ==
    /\ AgentByToken(cred[m])
    /\ \A i \in DOMAIN spool[m] : ~Blocked(spool[m][i])
SpoolDrains == \A m \in Machines : <>[]Drainable(m) => []<>(spool[m] = <<>>)
=============================================================================
