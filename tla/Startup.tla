------------------------------ MODULE Startup ------------------------------
(***************************************************************************)
(* The start of the server: migrations of the database and the order in    *)
(* which main brings up its parts (backend/cmd/server/main.go, db/db.go,   *)
(* EnsureAdmin of auth/auth.go).                                           *)
(*                                                                         *)
(* Any step may fail and end the process (os.Exit(1)); the supervisor      *)
(* starts it again, perhaps as another release with more migrations.       *)
(***************************************************************************)
EXTENDS Integers, FiniteSets

CONSTANTS
    Migrations,  \* number of migrations of the newest release
    Options,     \* configurations of the server
    MaxExits     \* bound: failed steps and crashes

ASSUME StartupAssumption ==
    /\ Migrations \in Nat \ {0} /\ MaxExits \in Nat
    /\ Options # {} /\ \A o \in Options : o.auth \in BOOLEAN

VARIABLES
    phase,     \* how far main has come
    release,   \* migrations in the running binary
    option,    \* its configuration
    nextMig,   \* the migration Migrate looks at
    schema,    \* how often each migration's statements were applied
    recorded,  \* the schema_migrations table
    hasUsers,  \* the users table has a row
    running,   \* goroutines started
    exits,
    torn       \* history: migrations applied and not recorded when the process ended

startVars == <<phase, release, option, nextMig, schema, recorded, hasUsers, running, exits, torn>>

Phases == <<"down", "config", "connect", "migrate", "apply", "record", "auth", "notify", "enrich",
            "feeds", "rules", "suricata", "tls", "serve">>

StartupInit ==
    /\ phase = "down" /\ release = 1 /\ option = (CHOOSE o \in Options : TRUE) /\ nextMig = 1
    /\ schema = [m \in 1..Migrations |-> 0] /\ recorded = {}
    /\ hasUsers = FALSE /\ running = {} /\ exits = 0 /\ torn = {}

Advance(from, to) == phase = from /\ phase' = to

(* The supervisor starts the process.                                      *)
Launch ==
    /\ Advance("down", "config")
    /\ release' \in 1..Migrations /\ option' \in Options
    /\ nextMig' = 1
    /\ UNCHANGED <<schema, recorded, hasUsers, running, exits, torn>>

Load == Advance("config", "connect") /\ UNCHANGED <<release, option, nextMig, schema, recorded, hasUsers, running, exits, torn>>

Connect == Advance("connect", "migrate") /\ UNCHANGED <<release, option, nextMig, schema, recorded, hasUsers, running, exits, torn>>

(* Migrate: for each migration in order, look, apply, record.              *)
LookUp ==
    /\ phase = "migrate"
    /\ IF nextMig > release THEN phase' = "auth" /\ UNCHANGED nextMig
       ELSE IF nextMig \in recorded THEN nextMig' = nextMig + 1 /\ UNCHANGED phase
       ELSE phase' = "apply" /\ UNCHANGED nextMig
    /\ UNCHANGED <<release, option, schema, recorded, hasUsers, running, exits, torn>>

ApplyOnlyOnce ==                \* mutant: the statements are not idempotent
    /\ Advance("apply", "record")
    /\ schema[nextMig] = 0
    /\ schema' = [schema EXCEPT ![nextMig] = 1]
    /\ UNCHANGED <<release, option, nextMig, recorded, hasUsers, running, exits, torn>>

Apply ==
    /\ Advance("apply", "record")
    /\ schema' = [schema EXCEPT ![nextMig] = @ + 1]
    /\ UNCHANGED <<release, option, nextMig, recorded, hasUsers, running, exits, torn>>

RecordFirstOnly ==              \* mutant: only the first one is recorded
    /\ Advance("record", "migrate")
    /\ recorded' = recorded \cup {1} /\ nextMig' = nextMig + 1
    /\ UNCHANGED <<release, option, schema, hasUsers, running, exits, torn>>

Record ==
    /\ Advance("record", "migrate")
    /\ recorded' = recorded \cup {nextMig} /\ nextMig' = nextMig + 1
    /\ UNCHANGED <<release, option, schema, hasUsers, running, exits, torn>>

SeedAdmin ==
    /\ Advance("auth", "notify")
    /\ hasUsers' = (hasUsers \/ option.auth)
    /\ UNCHANGED <<release, option, nextMig, schema, recorded, running, exits, torn>>

(* A part that is not configured is passed over.                           *)
Bring(from, part, to) ==
    /\ Advance(from, to)
    /\ running' = IF part \in option.parts THEN running \cup {part} ELSE running
    /\ UNCHANGED <<release, option, nextMig, schema, recorded, hasUsers, exits, torn>>

StartNotifier == Bring("notify", "notifier", "enrich")
StartEnrichment == Bring("enrich", "worker", "feeds")
StartFeeds == Bring("feeds", "fetcher", "rules")
StartRules == Bring("rules", "engine", "suricata")
StartSuricata == Bring("suricata", "listener", "tls")
StartTLS == Bring("tls", "https", "serve")

(* A failing step, a crash or a signal: every goroutine ends with it.      *)
Exit ==
    /\ phase # "down"
    /\ exits < MaxExits /\ exits' = exits + 1
    /\ phase' = "down" /\ running' = {}
    /\ torn' = IF phase = "record" THEN torn \cup {nextMig} ELSE torn
    /\ UNCHANGED <<release, option, nextMig, schema, recorded, hasUsers>>

StartStep ==
    \/ Launch \/ Load \/ Connect \/ LookUp \/ Apply \/ Record \/ SeedAdmin
    \/ StartNotifier \/ StartEnrichment \/ StartFeeds \/ StartRules \/ StartSuricata \/ StartTLS

StartupNext == StartStep \/ Exit
StartupSpec == StartupInit /\ [][StartupNext]_startVars /\ WF_startVars(StartStep)
---------------------------------------------------------------------------
(* Properties *)

(* No part of the server runs, and nothing is served, on a schema that     *)
(* lacks a migration of its release, or without an account to log in with; *)
(* migrations are applied in order, and again only when the process ended  *)
(* between applying one and recording it (Migrate; main's order).          *)
RunsOnMigratedSchema ==
    /\ running # {} \/ phase = "serve" =>
         (\A m \in 1..release : schema[m] > 0) /\ (option.auth => hasUsers)
    /\ \A m \in 1..Migrations : schema[m] > 0 => 1..(m - 1) \subseteq recorded
    /\ \A m \in 1..Migrations : schema[m] > 1 => m \in torn

(* Once failures stop, the server gets to serve, from wherever they have   *)
(* left the database: a migration cut off before it was recorded can be    *)
(* applied again ("Migrations are idempotent", db.go).                     *)
EventuallyServes == <>[](phase = "serve")
=============================================================================
