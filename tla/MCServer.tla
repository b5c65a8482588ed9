------------------------------ MODULE MCServer ------------------------------
(***************************************************************************)
(* The parts of the server process that share no state with each other,    *)
(* side by side: the configuration of the rules, the maintenance job, the  *)
(* feeds, the Suricata listener, the certificates and the start.  No       *)
(* action of one reads or writes a variable of another, so a behaviour     *)
(* that moves several of them is one of each, interleaved; it is enough to *)
(* look at the ones that move a single part, and active says which.        *)
(***************************************************************************)
EXTENDS RuleConfig, Rollups, Feeds, Suricata, TlsCA, Startup

CONSTANT Parts
VARIABLE active

serverVars == <<ruleVars, rollupVars, feedVars, idsVars, tlsVars, startVars, active>>

Only(part, Next, others) == active = part /\ Next /\ UNCHANGED <<others, active>>

NotRules    == <<rollupVars, feedVars, idsVars, tlsVars, startVars>>
NotRollups  == <<ruleVars, feedVars, idsVars, tlsVars, startVars>>
NotFeeds    == <<ruleVars, rollupVars, idsVars, tlsVars, startVars>>
NotSuricata == <<ruleVars, rollupVars, feedVars, tlsVars, startVars>>
NotTls      == <<ruleVars, rollupVars, feedVars, idsVars, startVars>>
NotStart    == <<ruleVars, rollupVars, feedVars, idsVars, tlsVars>>

ServerInit ==
    /\ active \in Parts
    /\ RuleConfigInit /\ RollupsInit /\ FeedsInit /\ SuricataInit /\ TlsInit /\ StartupInit

ServerNext ==
    \/ Only("rules", RuleConfigNext, NotRules)
    \/ Only("rollups", RollupsNext, NotRollups)
    \/ Only("feeds", FeedsNext, NotFeeds)
    \/ Only("suricata", SuricataNext, NotSuricata)
    \/ Only("tls", TlsNext, NotTls)
    \/ Only("start", StartupNext, NotStart)

(* The tickers of the rules engine and of the maintenance job, and the     *)
(* supervisor of the process.                                              *)
ServerFairness ==
    /\ WF_serverVars(Only("rules", EngineStep, NotRules))
    /\ WF_serverVars(Only("rollups", JobStep, NotRollups))
    /\ WF_serverVars(Only("start", StartStep, NotStart))

ServerSpec == ServerInit /\ [][ServerNext]_serverVars /\ ServerFairness

(* Properties of a part hold of the behaviours that move it. *)
RulesEvaluated == active = "rules" => EnabledRuleIsEvaluated
PruningKeepsUp == active = "rollups" => OverdueIsPruned
ServesAtLast == active = "start" => EventuallyServes
---------------------------------------------------------------------------
Override(enabled, interval, rest) == [enabled |-> enabled, interval |-> interval, rest |-> rest]
SomeEdits ==
    {Override(FALSE, 3, Unset), Override(TRUE, 2, "set"), Override(Unset, 4, Unset), Override(Unset, Unset, "bad")}

Definition(kind, base, sql, interval, rest) ==
    [kind |-> kind, base |-> base, sql |-> sql, interval |-> interval, rest |-> rest, enabled |-> Unset]
SomeSpecs ==
    {Definition("sql", Unset, "select", 3, Unset), Definition("sql", Unset, "other", 2, Unset),
     Definition("builtin", "scan", Unset, Unset, "set"), Definition("builtin", "ids", Unset, Unset, Unset)}

SomeBodies ==
    {{<<"word", "n1">>, <<"n2", "n1">>}, {<<"p1", "n1">>}, {<<"word">>}, {<<"n2">>, <<"p1">>}}

SomeNames == [e \in {"cmd", "CMD.EXE", "none"} |->
    IF e = "CMD.EXE" THEN "cmd" ELSE IF e = "none" THEN "" ELSE e]

Syslog(form) ==
    [form |-> form, type |-> "", body |-> FALSE, reply |-> FALSE, answers |-> 0, sid |-> 0, severity |-> 0,
     srcLocal |-> FALSE, dstLocal |-> FALSE, literal |-> FALSE]
Eve(type, body) == [Syslog("event") EXCEPT !.type = type, !.body = body]
SomeLines ==
    {Syslog("braced"), Syslog("cut"), Eve("", FALSE), Eve("flow", FALSE), Eve("tls", TRUE),
     [Eve("alert", TRUE) EXCEPT !.sid = 1, !.severity = 1, !.dstLocal = TRUE],
     [Eve("alert", TRUE) EXCEPT !.sid = 2, !.severity = 3, !.srcLocal = TRUE],
     [Eve("dns", TRUE) EXCEPT !.reply = TRUE, !.answers = 2], [Eve("dns", TRUE) EXCEPT !.reply = TRUE], Eve("dns", TRUE),
     [Eve("http", TRUE) EXCEPT !.literal = TRUE]}

SomeOptions ==
    {[auth |-> TRUE, parts |-> {"notifier", "worker", "fetcher", "engine", "listener", "https"}],
     [auth |-> FALSE, parts |-> {"engine"}]}
=============================================================================
