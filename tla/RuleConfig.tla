----------------------------- MODULE RuleConfig -----------------------------
(***************************************************************************)
(* Rule overrides, custom rules and the schedule of the rules engine       *)
(* (backend/internal/rules/rules.go, rules/custom.go, db/custom_rules.go,  *)
(* the rule handlers of api/api.go).                                       *)
(*                                                                         *)
(* The engine keeps the configuration in memory under a mutex and in the   *)
(* database outside of it, so a request is split where the mutex is free.  *)
(* An override has three fields: enabled, interval (window is treated the  *)
(* same way) and rest (severity, parameters, exempt hosts; in a CustomSpec *)
(* the parameters).  One unit of time passes from tick to tick of          *)
(* RulesInterval, and Second of them make up the second, which is what the *)
(* table can hold of a timing.                                             *)
(***************************************************************************)
EXTENDS Integers, FiniteSets

CONSTANTS
    Builtin,      \* names of the built-in rules, "ids" among them
    Custom,       \* names free for custom rules
    Editors,      \* API clients
    Edits,        \* RuleConfig bodies they send
    Specs,        \* CustomSpec bodies they send
    Unset,        \* a field that is absent, a rule that is not there
    MinInterval, MaxInterval, DefaultInterval,
    Second,       \* units of a second: custom_rules keeps whole seconds
    MaxEdits,     \* bound: requests
    MaxFaults     \* bound: failing database calls and restarts

(* The fields of a request body and of a row of custom_rules.              *)
Switches  == BOOLEAN \cup {Unset}
Intervals == Int \cup {Unset}
Details   == {"set", "bad", Unset}
Bases     == Builtin \cup Custom \cup {"ids", Unset}
RuleConfigs == [enabled : Switches, interval : Intervals, rest : Details]
CustomSpecs == [kind : {"sql", "builtin", "other"}, base : Bases, sql : {"select", "other", Unset},
                interval : Intervals, rest : Details, enabled : Switches]
CustomRows  == [kind : {"sql", "builtin"}, base : Bases, rest : Details, enabled : Switches, interval : Int]

ASSUME RuleConfigAssumption ==
    /\ Builtin \cap Custom = {} /\ Unset \notin Builtin \cup Custom
    /\ "overrides" \notin Builtin \cup Custom \cup {Unset}
    /\ Edits \subseteq RuleConfigs /\ Specs \subseteq CustomSpecs /\ Unset \notin CustomRows
    /\ MinInterval \in Nat \ {0} /\ DefaultInterval \in MinInterval..MaxInterval
    /\ Second \in Nat \ {0}
    /\ MaxEdits \in Nat /\ MaxFaults \in Nat

VARIABLES
    retired,    \* built-in rules that this release of the server no longer has
    cfg,        \* Engine.cfg: the override of each built-in rule
    storedCfg,  \* settings["rules"]
    custom,     \* Engine.custom: the live custom rules
    rows,       \* the custom_rules table
    age,        \* Engine.state: time since a rule's lastRun, Unset when it has none
    queue,      \* rules this Tick has still to look at, with the interval it saw
    evaluated,  \* the rule evaluated by the last step
    edit,       \* the request of each editor
    edits, faults,
    raced,      \* history: rules, or "overrides", that two requests wrote at once
    unsaved     \* history: the last overrides could not be stored

engineVars == <<retired, cfg, custom, age, queue, evaluated>>
ruleVars == <<engineVars, storedCfg, rows, edit, edits, faults, raced, unsaved>>

Names == Builtin \cup Custom
NoEdit == [pc |-> "none", key |-> Unset, value |-> Unset]
NoOverride == [enabled |-> Unset, interval |-> Unset, rest |-> Unset]

Present == Builtin \ retired
Rules == Present \cup {n \in Custom : custom[n] # Unset}

Fault == faults < MaxFaults /\ faults' = faults + 1
---------------------------------------------------------------------------
(* Validation and merging *)

ValidInterval(i) == i = Unset \/ i \in MinInterval..MaxInterval
validateConfig(rc) == rc.rest # "bad" /\ ValidInterval(rc.interval)

(* The fields present in rc change.                                        *)
Merged(cur, rc) == [f \in DOMAIN cur |-> IF f \in DOMAIN rc /\ rc[f] # Unset THEN rc[f] ELSE cur[f]]

(* An interval equal to the default clears the override.                   *)
MergedOverride(cur, rc) ==
    LET o == Merged(cur, rc)
    IN  IF rc.interval = DefaultInterval THEN [o EXCEPT !.interval = Unset] ELSE o

(* What holds for a rule after overrides.                                  *)
effective(n) ==
    LET o == IF n \in Builtin THEN cfg[n] ELSE custom[n]
    IN  [enabled  |-> IF o.enabled = Unset THEN TRUE ELSE o.enabled,
         interval |-> IF o.interval = Unset THEN DefaultInterval ELSE o.interval]

ValidateRuleSQL(spec) == spec.sql = "select"
ValidSpec(spec) ==
    /\ ValidInterval(spec.interval)
    /\ CASE spec.kind = "sql"     -> ValidateRuleSQL(spec) /\ spec.rest = Unset
         [] spec.kind = "builtin" -> spec.base \in Present \ {"ids"} /\ spec.rest # "bad"
         [] OTHER -> FALSE

toRow(spec) ==
    [kind |-> spec.kind, base |-> spec.base, rest |-> spec.rest,
     enabled  |-> IF spec.enabled = Unset THEN TRUE ELSE spec.enabled,
     interval |-> IF spec.interval = Unset THEN DefaultInterval ELSE spec.interval]

(* The row as the table keeps it: interval_s is a number of seconds.       *)
Stored(row) == [row EXCEPT !.interval = Second * (@ \div Second)]

(* Whether a stored row still makes an executable rule.                    *)
buildCustom(row) == row.kind = "builtin" => row.base \in Present
---------------------------------------------------------------------------
RuleConfigInit ==
    /\ retired = {}
    /\ cfg = [n \in Builtin |-> NoOverride] /\ storedCfg = cfg
    /\ custom = [n \in Custom |-> Unset] /\ rows = custom
    /\ age = [n \in Names |-> Unset]
    /\ queue = [n \in Names |-> Unset]
    /\ evaluated = Unset
    /\ edit = [e \in Editors |-> NoEdit]
    /\ edits = 0 /\ faults = 0 /\ raced = {} /\ unsaved = FALSE

(* A request holds what it has read or written in memory; key is what it   *)
(* will write next: the overrides as a whole, or one custom rule.          *)
BeginEdit(e, pc, key, value) ==
    /\ edit[e] = NoEdit
    /\ edits < MaxEdits
    /\ edits' = edits + 1
    /\ edit' = [edit EXCEPT ![e] = [pc |-> pc, key |-> key, value |-> value]]
    /\ raced' = IF \E d \in Editors : edit[d].key = key THEN raced \cup {key} ELSE raced

AtEdit(e, pc) == edit[e].pc = pc
EditDone(e) == edit' = [edit EXCEPT ![e] = NoEdit]
EditNext(e, pc) == edit' = [edit EXCEPT ![e].pc = pc]

(* UpdateConfig of a built-in rule: memory and snapshot under the mutex.   *)
UpdateConfigEarlySnapshot(e, n, rc) ==  \* mutant: the snapshot misses the change
    /\ n \in Present /\ validateConfig(rc)
    /\ cfg' = [cfg EXCEPT ![n] = MergedOverride(@, rc)]
    /\ BeginEdit(e, "persist", "overrides", cfg)
    /\ UNCHANGED <<retired, custom, age, queue, evaluated, storedCfg, rows, faults, unsaved>>

UpdateConfig(e, n, rc) ==
    /\ n \in Present /\ validateConfig(rc)
    /\ cfg' = [cfg EXCEPT ![n] = MergedOverride(@, rc)]
    /\ BeginEdit(e, "persist", "overrides", cfg')
    /\ UNCHANGED <<retired, custom, age, queue, evaluated, storedCfg, rows, faults, unsaved>>

(* SetSetting("rules", snapshot), after the mutex is released.             *)
PersistOverrides(e) ==
    /\ AtEdit(e, "persist")
    /\ \/ storedCfg' = edit[e].value /\ unsaved' = FALSE /\ UNCHANGED faults
       \/ Fault /\ unsaved' = TRUE /\ UNCHANGED storedCfg
    /\ EditDone(e)
    /\ UNCHANGED <<engineVars, rows, edits, raced>>

(* The same handler for a custom rule: the row as read, changed.           *)
updateCustomConfig(e, n, rc) ==
    /\ n \in Custom /\ custom[n] # Unset /\ validateConfig(rc)
    /\ BeginEdit(e, "upsert", n, Merged(custom[n], rc))
    /\ UNCHANGED <<engineVars, storedCfg, rows, faults, unsaved>>

(* create refuses a name in use, replace one that is not a custom rule.    *)
SaveCustom(e, n, spec, create) ==
    /\ ValidSpec(spec)
    /\ IF create THEN n \notin Rules ELSE n \in Rules \ Builtin
    /\ BeginEdit(e, "upsert", n, toRow(spec))
    /\ UNCHANGED <<engineVars, storedCfg, rows, faults, unsaved>>

UpsertCustomRule(e) ==
    /\ AtEdit(e, "upsert")
    /\ \/ rows' = [rows EXCEPT ![edit[e].key] = Stored(edit[e].value)] /\ EditNext(e, "install") /\ UNCHANGED faults
       \/ Fault /\ EditDone(e) /\ UNCHANGED rows
    /\ UNCHANGED <<engineVars, storedCfg, edits, raced, unsaved>>

(* The list gets the rule as it was sent, with the fraction of a second.   *)
install(e) ==
    /\ AtEdit(e, "install")
    /\ custom' = [custom EXCEPT ![edit[e].key] = edit[e].value]
    /\ EditDone(e)
    /\ UNCHANGED <<retired, cfg, age, queue, evaluated, storedCfg, rows, edits, faults, raced, unsaved>>

DeleteCustom(e, n) ==
    /\ n \in Custom /\ custom[n] # Unset
    /\ BeginEdit(e, "delete", n, Unset)
    /\ UNCHANGED <<engineVars, storedCfg, rows, faults, unsaved>>

DeleteCustomRule(e) ==
    /\ AtEdit(e, "delete")
    /\ \/ rows' = [rows EXCEPT ![edit[e].key] = Unset] /\ EditNext(e, "uninstall") /\ UNCHANGED faults
       \/ Fault /\ EditDone(e) /\ UNCHANGED rows
    /\ UNCHANGED <<engineVars, storedCfg, edits, raced, unsaved>>

Uninstall(e) ==
    LET n == edit[e].key
    IN  /\ AtEdit(e, "uninstall")
        /\ custom' = [custom EXCEPT ![n] = Unset]
        /\ age' = [age EXCEPT ![n] = Unset]
        /\ EditDone(e)
        /\ UNCHANGED <<retired, cfg, queue, evaluated, storedCfg, rows, edits, faults, raced, unsaved>>

(* A new process, perhaps of a release without some built-in rule: New     *)
(* reads both tables, loadCustom skips a row it cannot build.              *)
loadCustom == custom' = [n \in Custom |->
    IF rows[n] # Unset /\ (rows[n].kind = "builtin" => rows[n].base \notin retired') THEN rows[n] ELSE Unset]

NewEngine ==
    /\ Fault
    /\ \E gone \in SUBSET (Present \ {"ids"}) : retired' = retired \cup gone
    /\ cfg' = storedCfg
    /\ loadCustom
    /\ age' = [n \in Names |-> Unset]
    /\ queue' = [n \in Names |-> Unset]
    /\ evaluated' = Unset
    /\ edit' = [e \in Editors |-> NoEdit]
    /\ raced' = {} /\ unsaved' = FALSE
    /\ UNCHANGED <<storedCfg, rows, edits>>
---------------------------------------------------------------------------
(* The schedule *)

(* A tick takes a snapshot of the rules; a custom rule is part of it, the  *)
(* override of a built-in one is read when its turn comes.                 *)
BeginTick ==
    /\ \A n \in Names : queue[n] = Unset
    /\ age' = [n \in Names |-> IF age[n] = Unset THEN Unset ELSE IF age[n] < MaxInterval THEN age[n] + 1 ELSE age[n]]
    /\ queue' = [n \in Names |-> IF n \in Rules THEN effective(n).interval ELSE Unset]
    /\ evaluated' = Unset
    /\ UNCHANGED <<retired, cfg, custom, storedCfg, rows, edit, edits, faults, raced, unsaved>>

DueOnlyIfRun(n) ==              \* mutant: a rule that never ran has no date to be due from
    age[n] # Unset /\ age[n] >= queue[n]
Due(n) == age[n] # Unset => age[n] >= IF n \in Builtin THEN effective(n).interval ELSE queue[n]

(* RunRule stamps lastRun first, and then looks whether it may evaluate.   *)
(* The stamp comes later than the time the tick has taken for itself, so   *)
(* the next tick may find a unit less than has passed.                     *)
RunRule(n, force) ==
    /\ n \in Rules
    /\ \E late \in {0, 1} : age' = [age EXCEPT ![n] = -late]
    /\ evaluated' = IF effective(n).enabled \/ force THEN n ELSE Unset

TickRule(n) ==
    /\ queue[n] # Unset
    /\ \/ Due(n) /\ RunRule(n, FALSE)
       \/ ~(Due(n) /\ n \in Rules) /\ evaluated' = Unset /\ UNCHANGED age
    /\ queue' = [queue EXCEPT ![n] = Unset]
    /\ UNCHANGED <<retired, cfg, custom, storedCfg, rows, edit, edits, faults, raced, unsaved>>

(* The test button of the API.                                             *)
runRule(n) ==
    /\ edits < MaxEdits /\ edits' = edits + 1
    /\ RunRule(n, TRUE)
    /\ UNCHANGED <<retired, cfg, custom, queue, storedCfg, rows, edit, faults, raced, unsaved>>

EngineStep == BeginTick \/ \E n \in Names : TickRule(n)

EditStep(e) ==
    \/ PersistOverrides(e) \/ UpsertCustomRule(e) \/ install(e) \/ DeleteCustomRule(e) \/ Uninstall(e)

RuleConfigNext ==
    \/ EngineStep
    \/ \E e \in Editors, n \in Names, rc \in Edits : UpdateConfig(e, n, rc) \/ updateCustomConfig(e, n, rc)
    \/ \E e \in Editors, n \in Custom, spec \in Specs, create \in BOOLEAN : SaveCustom(e, n, spec, create)
    \/ \E e \in Editors, n \in Custom : DeleteCustom(e, n)
    \/ \E e \in Editors : EditStep(e)
    \/ \E n \in Names : runRule(n)
    \/ NewEngine

RuleConfigSpec == RuleConfigInit /\ [][RuleConfigNext]_ruleVars /\ WF_ruleVars(EngineStep)
---------------------------------------------------------------------------
(* Properties *)

Writing(key) == \E e \in Editors : edit[e].key = key

(* A live custom rule with the timing a restart would give it.             *)
StoredForm(rule) == IF rule = Unset THEN Unset ELSE Stored(rule)

(* What the engine works with is what a restart would load, up to the      *)
(* fraction of a second in the timings of a custom rule: with no request   *)
(* under way, memory and database agree, unless two requests wrote the     *)
(* same thing at once or the overrides could not be stored (UpdateConfig   *)
(* persists a snapshot after it has released the mutex; SaveCustom and     *)
(* DeleteCustom write the row first and the list second).                  *)
LiveIsStored ==
    /\ ~Writing("overrides") /\ "overrides" \notin raced /\ ~unsaved => cfg = storedCfg
    /\ \A n \in Custom :
         ~Writing(n) /\ n \notin raced =>
             StoredForm(custom[n]) = IF rows[n] # Unset /\ buildCustom(rows[n]) THEN rows[n] ELSE Unset

(* A rule that stays in place and enabled is evaluated again and again,    *)
(* whatever is edited, run by hand or deleted next to it (Tick, RunRule).  *)
EnabledRuleIsEvaluated ==
    \A n \in Names : <>[](n \in Rules /\ effective(n).enabled) => []<>(evaluated = n)

(* "UpdateConfig validates and persists overrides for one rule": once the  *)
(* requests have been answered without an error, what the engine uses is   *)
(* what is stored, and so survives a restart.                              *)
UpdatesPersist == ~Writing("overrides") /\ ~unsaved => cfg = storedCfg
=============================================================================
