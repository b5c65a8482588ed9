---------------------------- MODULE ServerProofs ----------------------------
(***************************************************************************)
(* Proofs about the parts of the server that MCServer checks side by side  *)
(* and whose proofs are short: the start, the certificates, the feeds and  *)
(* the Suricata listener, each for every value of its constants and every  *)
(* sequence of failures and restarts.                                      *)
(***************************************************************************)
EXTENDS Startup, TlsCA, Feeds, Suricata, FiniteSetTheorems, TLAPS

---------------------------------------------------------------------------
(* The start: the server runs only on the schema of its release.           *)

Migrating == {"migrate", "apply", "record"}
Starting  == {"notify", "enrich", "feeds", "rules", "suricata", "tls", "serve"}

(* The values of the variables.                                            *)
StartTypes ==
    /\ phase \in {"down", "config", "connect", "auth"} \cup Migrating \cup Starting
    /\ release \in 1..Migrations /\ option \in Options
    /\ nextMig \in Nat \ {0}
    /\ schema \in [1..Migrations -> Nat]
    /\ hasUsers \in BOOLEAN

(* What the database says of itself: what is recorded was applied, nothing *)
(* is applied before everything below it is recorded, and twice only after *)
(* the process ended in between.                                           *)
Database ==
    /\ \A m \in 1..Migrations : m \in recorded => schema[m] > 0
    /\ \A m \in 1..Migrations : \A k \in 1..(m - 1) : schema[m] > 0 => k \in recorded
    /\ \A m \in 1..Migrations : schema[m] > 1 => m \in torn

(* Applied and not recorded: the process has just done it, or ended there. *)
Unrecorded ==
    \A m \in 1..Migrations :
        schema[m] > 0 /\ m \notin recorded => m \in torn \/ (phase = "record" /\ nextMig = m)

(* What Migrate has established where it is.                               *)
Migrator ==
    /\ phase \in {"config", "connect"} \cup Migrating => \A k \in 1..(nextMig - 1) : k \in recorded
    /\ phase \in {"apply", "record"} => nextMig <= release /\ nextMig \notin recorded
    /\ phase = "record" => schema[nextMig] > 0
    /\ phase \in {"auth"} \cup Starting => \A m \in 1..release : m \in recorded

(* What main has established where it is.                                  *)
Established ==
    /\ phase \in Starting => (option.auth => hasUsers)
    /\ running # {} => phase \in Starting

StartInv == StartTypes /\ Database /\ Unrecorded /\ Migrator /\ Established

(* The invariant holds before the first launch.                            *)
LEMMA StartInitially == StartupInit => StartInv
  <1> SUFFICES ASSUME StartupInit PROVE StartInv
      OBVIOUS
  <1>1. option \in Options
      BY StartupAssumption DEF StartupInit
  <1>2. schema \in [1..Migrations -> Nat] /\ \A m \in 1..Migrations : schema[m] = 0
      BY DEF StartupInit
  <1>3. StartTypes
    <2>1. phase = "down" /\ release = 1 /\ nextMig = 1 /\ hasUsers = FALSE
        BY Zenon DEF StartupInit
    <2>2. release \in 1..Migrations /\ nextMig \in Nat \ {0} BY <2>1, StartupAssumption
    <2>3. hasUsers \in BOOLEAN BY <2>1, Zenon
    <2>4. phase \in {"down", "config", "connect", "auth"} \cup Migrating \cup Starting BY <2>1
    <2> QED BY <1>1, <1>2, <2>2, <2>3, <2>4, Zenon DEF StartTypes
  <1>4. Database /\ Unrecorded
      BY <1>2 DEF Database, Unrecorded, StartupInit
  <1>5. Migrator /\ Established
      BY DEF Migrator, Established, StartupInit, Migrating, Starting
  <1> QED
      BY <1>3, <1>4, <1>5 DEF StartInv

(* Every step of main, and the end of the process in any of them, keeps    *)
(* the invariant.                                                          *)
LEMMA StepKeeps == StartInv /\ [StartupNext]_startVars => StartInv'
  <1> SUFFICES ASSUME StartInv, [StartupNext]_startVars PROVE StartInv'
      OBVIOUS
  <1> USE DEF StartInv, Migrating, Starting
  <1>1. CASE Launch
    <2>1. StartTypes' BY <1>1, StartupAssumption DEF Launch, Advance, StartTypes
    <2>2. Database' BY <1>1 DEF Launch, Advance, Database, StartTypes
    <2>3. Unrecorded' BY <1>1 DEF Launch, Advance, Unrecorded, StartTypes
    <2>4. Migrator' BY <1>1 DEF Launch, Advance, Migrator, StartTypes
    <2>5. Established' BY <1>1 DEF Launch, Advance, Established, StartTypes
    <2> QED BY <2>1, <2>2, <2>3, <2>4, <2>5
  <1>2. CASE Load
    <2>1. StartTypes' BY <1>2 DEF Load, Advance, StartTypes
    <2>2. Database' BY <1>2 DEF Load, Advance, Database, StartTypes
    <2>3. Unrecorded' BY <1>2 DEF Load, Advance, Unrecorded, StartTypes
    <2>4. Migrator' BY <1>2 DEF Load, Advance, Migrator, StartTypes
    <2>5. Established' BY <1>2 DEF Load, Advance, Established, StartTypes
    <2> QED BY <2>1, <2>2, <2>3, <2>4, <2>5
  <1>3. CASE Connect
    <2>1. StartTypes' BY <1>3 DEF Connect, Advance, StartTypes
    <2>2. Database' BY <1>3 DEF Connect, Advance, Database, StartTypes
    <2>3. Unrecorded' BY <1>3 DEF Connect, Advance, Unrecorded, StartTypes
    <2>4. Migrator' BY <1>3 DEF Connect, Advance, Migrator, StartTypes
    <2>5. Established' BY <1>3 DEF Connect, Advance, Established, StartTypes
    <2> QED BY <2>1, <2>2, <2>3, <2>4, <2>5
  <1>4. CASE LookUp
    <2>1. StartTypes' BY <1>4 DEF LookUp, StartTypes
    <2>2. Database' BY <1>4 DEF LookUp, Database, StartTypes
    <2>3. Unrecorded' BY <1>4 DEF LookUp, Unrecorded, StartTypes
    <2>4. Migrator' BY <1>4 DEF LookUp, Migrator, StartTypes
    <2>5. Established' BY <1>4 DEF LookUp, Established, StartTypes
    <2> QED BY <2>1, <2>2, <2>3, <2>4, <2>5
  <1>5. CASE Apply
    <2> DEFINE n == nextMig
    <2>1. /\ phase = "apply" /\ phase' = "record" /\ nextMig' = n
          /\ UNCHANGED <<release, option, recorded, hasUsers, running, torn>>
        BY <1>5 DEF Apply, Advance
    <2>2. n \in 1..Migrations /\ n \notin recorded /\ n <= release /\ schema[n] \in Nat
        BY <2>1, StartupAssumption DEF StartTypes, Migrator
    <2>3. schema' = [schema EXCEPT ![n] = schema[n] + 1]
        BY <1>5 DEF Apply
    <2>4. schema' \in [1..Migrations -> Nat]
        BY <2>2, <2>3 DEF StartTypes
    <2>5. schema'[n] = schema[n] + 1 /\ \A m \in 1..Migrations : m # n => schema'[m] = schema[m]
        BY <2>2, <2>3 DEF StartTypes
    <2> HIDE DEF n
    <2>6. StartTypes'
        BY <2>1, <2>2, <2>4 DEF StartTypes, n
    <2>7. \A k \in 1..(n - 1) : k \in recorded
        BY <2>1 DEF Migrator, n
    <2>8. schema[n] > 0 => n \in torn
        BY <2>1, <2>2 DEF Unrecorded
    <2>9. Database'
      <3>1. \A m \in 1..Migrations : m \in recorded' => schema'[m] > 0
          BY <2>1, <2>2, <2>5 DEF Database
      <3>2. ASSUME NEW m \in 1..Migrations, NEW k \in 1..(m - 1), schema'[m] > 0 PROVE k \in recorded'
          BY <3>2, <2>1, <2>5, <2>7 DEF Database
      <3>3. ASSUME NEW m \in 1..Migrations, schema'[m] > 1 PROVE m \in torn'
        <4>1. CASE m = n BY <4>1, <3>3, <2>1, <2>2, <2>5, <2>8
        <4>2. CASE m # n BY <4>2, <3>3, <2>1, <2>5 DEF Database
        <4> QED BY <4>1, <4>2
      <3> QED BY <3>1, <3>2, <3>3 DEF Database
    <2>10. Unrecorded'
        BY <2>1, <2>5 DEF Unrecorded, n
    <2>11. Migrator'
      <3>1. schema'[n] > 0 BY <2>2, <2>5
      <3> QED BY <2>1, <2>2, <2>7, <3>1 DEF Migrator, n
    <2>12. Established'
        BY <2>1 DEF Established
    <2> QED BY <2>6, <2>9, <2>10, <2>11, <2>12
  <1>6. CASE Record
    <2>1. /\ phase = "record" /\ phase' = "migrate" /\ nextMig' = nextMig + 1
          /\ recorded' = recorded \cup {nextMig}
          /\ UNCHANGED <<release, option, schema, hasUsers, running, torn>>
        BY <1>6 DEF Record, Advance
    <2>2. StartTypes' BY <2>1 DEF StartTypes
    <2>3. schema[nextMig] > 0 BY <2>1 DEF Migrator
    <2>4. Database' BY <2>1, <2>3 DEF Database
    <2>5. Unrecorded' BY <2>1 DEF Unrecorded
    <2>6. Migrator' BY <2>1 DEF Migrator, StartTypes
    <2>7. Established' BY <2>1 DEF Established
    <2> QED BY <2>2, <2>4, <2>5, <2>6, <2>7
  <1>7. CASE SeedAdmin
    <2>1. StartTypes' BY <1>7 DEF SeedAdmin, Advance, StartTypes
    <2>2. Database' BY <1>7 DEF SeedAdmin, Advance, Database, StartTypes
    <2>3. Unrecorded' BY <1>7 DEF SeedAdmin, Advance, Unrecorded, StartTypes
    <2>4. Migrator' BY <1>7 DEF SeedAdmin, Advance, Migrator, StartTypes
    <2>5. Established' BY <1>7 DEF SeedAdmin, Advance, Established, StartTypes
    <2> QED BY <2>1, <2>2, <2>3, <2>4, <2>5
  <1>8. ASSUME NEW from \in Starting, NEW to \in Starting, NEW part, Bring(from, part, to)
        PROVE  StartInv'
      BY <1>8 DEF Bring, Advance, StartTypes, Database, Unrecorded, Migrator, Established
  <1>9. CASE StartNotifier BY <1>8, <1>9 DEF StartNotifier
  <1>10. CASE StartEnrichment BY <1>8, <1>10 DEF StartEnrichment
  <1>11. CASE StartFeeds BY <1>8, <1>11 DEF StartFeeds
  <1>12. CASE StartRules BY <1>8, <1>12 DEF StartRules
  <1>13. CASE StartSuricata BY <1>8, <1>13 DEF StartSuricata
  <1>14. CASE StartTLS BY <1>8, <1>14 DEF StartTLS
  <1>15. CASE Exit
    <2>1. StartTypes' BY <1>15 DEF Exit, StartTypes
    <2>2. Database' BY <1>15 DEF Exit, Database, StartTypes
    <2>3. Unrecorded' BY <1>15 DEF Exit, Unrecorded, StartTypes
    <2>4. Migrator' BY <1>15 DEF Exit, Migrator, StartTypes
    <2>5. Established' BY <1>15 DEF Exit, Established, StartTypes
    <2> QED BY <2>1, <2>2, <2>3, <2>4, <2>5
  <1>16. CASE UNCHANGED startVars
      BY <1>16 DEF startVars, StartTypes, Database, Unrecorded, Migrator, Established
  <1> QED
      BY <1>1, <1>2, <1>3, <1>4, <1>5, <1>6, <1>7, <1>9, <1>10, <1>11, <1>12, <1>13, <1>14, <1>15, <1>16
      DEF StartupNext, StartStep

(* The invariant says what the server relies on.                           *)
LEMMA StartImplies == StartInv => RunsOnMigratedSchema
  <1> SUFFICES ASSUME StartInv PROVE RunsOnMigratedSchema
      OBVIOUS
  <1>1. ASSUME running # {} \/ phase = "serve"
        PROVE  (\A m \in 1..release : schema[m] > 0) /\ (option.auth => hasUsers)
    <2>1. phase \in Starting BY <1>1 DEF StartInv, Established, Starting
    <2>2. \A m \in 1..release : m \in recorded BY <2>1 DEF StartInv, Migrator
    <2>3. \A m \in 1..release : m \in 1..Migrations
        BY StartupAssumption DEF StartInv, StartTypes
    <2>4. \A m \in 1..release : schema[m] > 0
        BY <2>2, <2>3, Zenon DEF StartInv, Database
    <2> QED BY <2>1, <2>4 DEF StartInv, Established
  <1>2. \A m \in 1..Migrations : schema[m] > 0 => 1..(m - 1) \subseteq recorded
      BY DEF StartInv, Database
  <1>3. \A m \in 1..Migrations : schema[m] > 1 => m \in torn
      BY DEF StartInv, Database
  <1> QED BY <1>1, <1>2, <1>3 DEF RunsOnMigratedSchema

(* Whatever migrations the database has, whichever releases run on it and  *)
(* wherever they end, no part of the server runs on a schema that lacks a  *)
(* migration of its release, or without an account when accounts are       *)
(* required, and a migration is applied again only where the process ended *)
(* before it was recorded (Migrate, main).                                 *)
THEOREM SchemaBeforeService == StartupSpec => []RunsOnMigratedSchema
  <1>1. StartupInit => StartInv BY StartInitially
  <1>2. StartInv /\ [StartupNext]_startVars => StartInv' BY StepKeeps
  <1>3. StartInv => RunsOnMigratedSchema BY StartImplies
  <1> QED BY <1>1, <1>2, <1>3, PTL DEF StartupSpec
---------------------------------------------------------------------------
(* The certificates *)

(* Days and numbers.                                                       *)
TlsTypes ==
    /\ day \in Nat /\ missed \in Nat /\ checked \in BOOLEAN
    /\ storedLeaf.last \in Nat /\ leaf.last \in Nat

(* What the manager has loaded is what is stored.                          *)
LoadedIsStored ==
    /\ tlsPc \in {"leaf", "on"} => ca = storedCA
    /\ tlsPc = "on" => leaf = storedLeaf /\ leaf.issuer = ca.id /\ leaf.hosts = tlsHosts

(* The lead time is used up one day at a time: by a renewal that failed,   *)
(* or by a day whose tick is still to come.                                *)
Pending == IF checked THEN 0 ELSE 1
LeadTime == tlsPc = "on" => day + RenewBefore <= leaf.last + missed + Pending

TlsInv == TlsTypes /\ LoadedIsStored /\ LeadTime

(* The invariant holds of a new installation.                              *)
LEMMA TlsInitially == TlsInit => TlsInv
  BY DEF TlsInit, TlsInv, TlsTypes, LoadedIsStored, LeadTime, NoCert

(* A certificate that has just been issued, or that needs no renewal, has  *)
(* its whole lead time before it.                                          *)
LEMMA Issued ==
    ASSUME TlsTypes, issueLeaf
    PROVE  /\ leaf' = storedLeaf' /\ leaf'.issuer = ca.id /\ leaf'.hosts = tlsHosts
           /\ leaf'.last = day + LeafValidity /\ leaf'.last \in Nat
           /\ day + RenewBefore <= leaf'.last
  BY TlsAssumption DEF issueLeaf, TlsTypes

(* What needsRenewal keeps is signed by the loaded CA for the configured   *)
(* hosts.                                                                  *)
LEMMA Valid ==
    ASSUME NEW c, NEW hosts, ~needsRenewal(c, hosts), TlsTypes, c.last \in Nat
    PROVE  c.issuer = ca.id /\ hosts = tlsHosts /\ day + RenewBefore <= c.last
  BY TlsAssumption DEF needsRenewal, TlsTypes

(* Every step of New, Run, the clock and a stop keeps the invariant.       *)
LEMMA TlsStep == TlsInv /\ [TlsNext]_tlsVars => TlsInv'
  <1> SUFFICES ASSUME TlsInv, [TlsNext]_tlsVars PROVE TlsInv'
      OBVIOUS
  <1>0. TlsTypes /\ LoadedIsStored /\ LeadTime
      BY DEF TlsInv
  <1>1. CASE NewManager \/ loadOrCreateCA
      BY <1>0, <1>1 DEF NewManager, loadOrCreateCA, TlsInv, TlsTypes, LoadedIsStored, LeadTime
  <1>2. CASE ensureLeaf
    <2>1. /\ tlsPc = "leaf" /\ tlsPc' = "on" /\ checked' = TRUE /\ missed' = 0
          /\ UNCHANGED <<day, tlsHosts, storedCA, ca>>
        BY <1>2 DEF ensureLeaf
    <2>2. /\ leaf' = storedLeaf' /\ leaf'.issuer = ca.id /\ leaf'.hosts = tlsHosts
          /\ leaf'.last \in Nat /\ day + RenewBefore <= leaf'.last
      <3>1. CASE needsRenewal(storedLeaf, storedLeaf.hosts)
          BY <1>0, <1>2, <3>1, Issued DEF ensureLeaf
      <3>2. CASE ~needsRenewal(storedLeaf, storedLeaf.hosts)
        <4>1. leaf' = storedLeaf /\ storedLeaf' = storedLeaf
            BY <1>2, <3>2 DEF ensureLeaf, setLeaf
        <4>2. storedLeaf.last \in Nat
            BY <1>0 DEF TlsTypes
        <4> QED BY <1>0, <3>2, <4>1, <4>2, Valid
      <3> QED BY <3>1, <3>2
    <2>3. TlsTypes'
        BY <1>0, <2>1, <2>2 DEF TlsTypes
    <2>4. LoadedIsStored'
        BY <1>0, <2>1, <2>2 DEF LoadedIsStored
    <2>5. LeadTime'
        BY <1>0, <2>1, <2>2, TlsAssumption DEF LeadTime, Pending, TlsTypes
    <2> QED BY <2>3, <2>4, <2>5 DEF TlsInv
  <1>3. CASE StopManager
      BY <1>0, <1>3 DEF StopManager, NoCert, TlsInv, TlsTypes, LoadedIsStored, LeadTime
  <1>4. CASE RenewalTick
    <2>1. /\ tlsPc = "on" /\ ~checked /\ checked' = TRUE
          /\ UNCHANGED <<day, tlsPc, tlsHosts, storedCA, ca>>
        BY <1>4 DEF RenewalTick
    <2>2. CASE issueLeaf /\ missed' = 0
      <3>1. /\ leaf' = storedLeaf' /\ leaf'.issuer = ca.id /\ leaf'.hosts = tlsHosts
            /\ leaf'.last \in Nat /\ day + RenewBefore <= leaf'.last
          BY <1>0, <2>2, Issued
      <3>2. TlsTypes' BY <1>0, <2>1, <2>2, <3>1 DEF TlsTypes
      <3>3. LoadedIsStored' BY <1>0, <2>1, <3>1 DEF LoadedIsStored
      <3>4. LeadTime' BY <1>0, <2>1, <2>2, <3>1, TlsAssumption DEF LeadTime, Pending, TlsTypes
      <3> QED BY <3>2, <3>3, <3>4 DEF TlsInv
    <2>3. CASE ~needsRenewal(leaf, tlsHosts) /\ UNCHANGED <<storedLeaf, leaf, missed>>
      <3>1. day + RenewBefore <= leaf.last
          BY <1>0, <2>3, Valid DEF TlsTypes
      <3>2. TlsTypes' BY <1>0, <2>1, <2>3 DEF TlsTypes
      <3>3. LoadedIsStored' BY <1>0, <2>1, <2>3 DEF LoadedIsStored
      <3>4. LeadTime' BY <1>0, <2>1, <2>3, <3>1, TlsAssumption DEF LeadTime, Pending, TlsTypes
      <3> QED BY <3>2, <3>3, <3>4 DEF TlsInv
    <2>4. CASE missed' = missed + 1 /\ UNCHANGED <<storedLeaf, leaf>>
      <3>1. TlsTypes'
        <4>1. missed \in Nat /\ day' \in Nat /\ storedLeaf'.last \in Nat /\ leaf'.last \in Nat
            BY <1>0, <2>1, <2>4, Zenon DEF TlsTypes
        <4>2. missed' \in Nat
            BY <2>4, <4>1
        <4>3. checked' \in BOOLEAN
            BY <2>1, Zenon
        <4> QED BY <4>1, <4>2, <4>3, Zenon DEF TlsTypes
      <3>2. LoadedIsStored' BY <1>0, <2>1, <2>4 DEF LoadedIsStored
      <3>3. LeadTime' BY <1>0, <2>1, <2>4, TlsAssumption DEF LeadTime, Pending, TlsTypes
      <3> QED BY <3>1, <3>2, <3>3 DEF TlsInv
    <2> QED BY <1>4, <2>2, <2>3, <2>4 DEF RenewalTick
  <1>5. CASE NextDay
    <2>1. /\ tlsPc = "on" => checked
          /\ day' = day + 1 /\ checked' = FALSE
          /\ UNCHANGED <<tlsPc, tlsHosts, storedCA, storedLeaf, ca, leaf, missed>>
        BY <1>5 DEF NextDay
    <2>2. TlsTypes'
      <3>1. day \in Nat /\ missed' \in Nat /\ storedLeaf'.last \in Nat /\ leaf'.last \in Nat
          BY <1>0, <2>1, Zenon DEF TlsTypes
      <3>2. day' \in Nat
          BY <2>1, <3>1
      <3>3. checked' \in BOOLEAN
          BY <2>1, Zenon
      <3> QED BY <3>1, <3>2, <3>3, Zenon DEF TlsTypes
    <2>3. LoadedIsStored' BY <1>0, <2>1 DEF LoadedIsStored
    <2>4. LeadTime' BY <1>0, <2>1, TlsAssumption DEF LeadTime, Pending, TlsTypes
    <2> QED BY <2>2, <2>3, <2>4 DEF TlsInv
  <1>6. CASE UNCHANGED tlsVars
      BY <1>0, <1>6 DEF tlsVars, TlsInv, TlsTypes, LoadedIsStored, LeadTime, Pending
  <1> QED
      BY <1>1, <1>2, <1>3, <1>4, <1>5, <1>6 DEF TlsNext

(* What is served is the stored certificate, fits the CA and the hosts,    *)
(* and has not expired before as many daily renewals have failed in a row  *)
(* as the lead time has days (ensureLeaf, Run, needsRenewal).              *)
THEOREM LeafFits == TlsSpec => []ServedLeafFits
  <1>1. ASSUME TlsInv PROVE ServedLeafFits
    <2>1. TlsTypes /\ LoadedIsStored /\ LeadTime
        BY <1>1 DEF TlsInv
    <2>2. ASSUME tlsPc = "on", missed < RenewBefore PROVE day <= leaf.last
        BY <2>1, <2>2, TlsAssumption DEF TlsTypes, LeadTime, Pending
    <2> QED BY <2>1, <2>2 DEF ServedLeafFits, LoadedIsStored
  <1> QED BY <1>1, TlsInitially, TlsStep, PTL DEF TlsSpec
---------------------------------------------------------------------------
(* The feeds *)

FeedTypes ==
    /\ configured \subseteq FeedNames /\ urls \subseteq Catalogues
    /\ lists \in [FeedNames -> SUBSET Nets]
    /\ round \in [pc : {"wait", "feeds", "catalogues", "prune"}, left : SUBSET Sources]

(* A refresh fetches configured feeds only, and once it has pruned there   *)
(* is no other list until the configuration changes.                       *)
ListsOfFeeds ==
    /\ round.pc = "feeds" => round.left \subseteq configured
    /\ pruned /\ configured # {} => \A f \in FeedNames : lists[f] # {} => f \in configured

FeedsInv == FeedTypes /\ ListsOfFeeds

(* The invariant holds of a new installation.                              *)
LEMMA FeedsInitially == FeedsInit => FeedsInv
  <1> SUFFICES ASSUME FeedsInit PROVE FeedsInv
      OBVIOUS
  <1>1. FeedTypes
      BY FeedsAssumption DEF FeedsInit, FeedTypes, Waiting
  <1>2. round.pc = "wait" /\ pruned = FALSE /\ \A f \in FeedNames : lists[f] = {}
      BY DEF FeedsInit, Waiting
  <1>3. "wait" # "feeds"
      OBVIOUS
  <1> QED BY <1>1, <1>2, <1>3, Zenon DEF FeedsInv, ListsOfFeeds

(* A fetch replaces the list of its feed by one that is not empty, or      *)
(* leaves all of them.                                                     *)
LEMMA FetchReplaces ==
    ASSUME FeedTypes, NEW f \in FeedNames, FetchFeed(f)
    PROVE  /\ f \in round.left /\ round.pc = "feeds" /\ round'.pc = "feeds"
           /\ round' \in [pc : {"feeds"}, left : SUBSET Sources] /\ round'.left \subseteq round.left
           /\ \/ lists' = lists
              \/ \E nets \in SUBSET Nets : nets # {} /\ lists' = [lists EXCEPT ![f] = nets]
           /\ UNCHANGED <<configured, urls, pruned>>
  <1>1. /\ f \in round.left /\ round.pc = "feeds" /\ round' = [round EXCEPT !.left = round.left \ {f}]
        /\ UNCHANGED <<configured, urls, pruned>>
      BY DEF FetchFeed
  <1>2. round' \in [pc : {"feeds"}, left : SUBSET Sources] /\ round'.left = round.left \ {f} /\ round'.pc = "feeds"
      BY <1>1 DEF FeedTypes
  <1>3. \/ lists' = lists
        \/ \E nets \in SUBSET Nets : nets # {} /\ lists' = [lists EXCEPT ![f] = nets]
    <2>1. CASE lists' = lists
        BY <2>1
    <2>2. CASE \E body \in Bodies : Parse(body) # {} /\ ReplaceThreatList(f, Parse(body))
      <3>1. PICK nets : nets # {} /\ nets \subseteq Nets /\ lists' = [lists EXCEPT ![f] = nets]
          BY <2>2 DEF ReplaceThreatList, Parse
      <3> QED BY <3>1
    <2> QED BY <2>1, <2>2, Zenon DEF FetchFeed, Fetch
  <1> QED BY <1>1, <1>2, <1>3

(* A catalogue is not a list.                                              *)
LEMMA CatalogueStep ==
    ASSUME FeedTypes, NEW c \in Catalogues, FetchCatalogue(c)
    PROVE  /\ round' \in [pc : {"prune", "catalogues"}, left : SUBSET Sources]
           /\ UNCHANGED <<configured, urls, lists, pruned>>
  <1>1. round' \in [pc : {"prune", "catalogues"}, left : SUBSET Sources]
    <2>1. round.pc = "catalogues" /\ round' = IF round.left = {c} THEN [pc |-> "prune", left |-> {}]
                                             ELSE [round EXCEPT !.left = round.left \ {c}]
        BY DEF FetchCatalogue
    <2> QED BY <2>1 DEF FeedTypes
  <1> QED BY <1>1 DEF FetchCatalogue

(* Every step of the fetcher, and a new one, keeps the invariant.          *)
LEMMA FeedsStep == FeedsInv /\ [FeedsNext]_feedVars => FeedsInv'
  <1> SUFFICES ASSUME FeedsInv, [FeedsNext]_feedVars PROVE FeedsInv'
      OBVIOUS
  <1>0. FeedTypes /\ ListsOfFeeds
      BY DEF FeedsInv
  <1>1. CASE RefreshAll
    <2>1. round' = [pc |-> "feeds", left |-> configured] /\ UNCHANGED <<configured, urls, lists, pruned>>
        BY <1>1 DEF RefreshAll
    <2>2. FeedTypes' BY <1>0, <2>1 DEF FeedTypes, Sources
    <2>3. round'.left \subseteq configured' BY <2>1
    <2> QED BY <1>0, <2>1, <2>2, <2>3, Zenon DEF FeedsInv, ListsOfFeeds
  <1>2. CASE RefreshLOLBins
    <2>1. UNCHANGED <<configured, urls, lists, pruned>>
        BY <1>2 DEF RefreshLOLBins
    <2>2. round' \in [pc : {"catalogues", "prune"}, left : SUBSET Sources]
      <3>1. round' = [round EXCEPT !.pc = "prune"] \/ round' = [pc |-> "catalogues", left |-> urls]
          BY <1>2 DEF RefreshLOLBins
      <3> QED BY <1>0, <3>1 DEF FeedTypes, Sources
    <2>3. FeedTypes' /\ round'.pc # "feeds" BY <1>0, <2>1, <2>2 DEF FeedTypes
    <2> QED BY <1>0, <2>1, <2>3, Zenon DEF FeedsInv, ListsOfFeeds
  <1>3. CASE PruneLists
    <2>1. /\ round' = Waiting /\ UNCHANGED <<configured, urls>>
          /\ \/ lists' = IF configured # {} THEN [f \in FeedNames |-> IF f \in configured THEN lists[f] ELSE {}] ELSE lists
             \/ pruned' = FALSE /\ lists' = lists
        BY <1>3 DEF PruneLists
    <2>2. lists' \in [FeedNames -> SUBSET Nets] /\ \A f \in FeedNames : lists'[f] \in {lists[f], {}}
        BY <1>0, <2>1 DEF FeedTypes
    <2>3. FeedTypes' /\ round'.pc # "feeds" BY <1>0, <2>1, <2>2 DEF FeedTypes, Waiting
    <2>5. ASSUME pruned', configured' # {}, NEW f \in FeedNames, lists'[f] # {} PROVE f \in configured'
      <3>1. lists' = [g \in FeedNames |-> IF g \in configured THEN lists[g] ELSE {}]
          BY <2>1, <2>5, Zenon
      <3> QED BY <2>1, <2>5, <3>1
    <2> QED BY <2>3, <2>5, Zenon DEF FeedsInv, ListsOfFeeds
  <1>4. ASSUME NEW f \in FeedNames, FetchFeed(f) PROVE FeedsInv'
    <2>1. /\ f \in round.left /\ round.pc = "feeds"
          /\ round' \in [pc : {"feeds"}, left : SUBSET Sources] /\ round'.left \subseteq round.left
          /\ UNCHANGED <<configured, urls, pruned>>
          /\ \/ lists' = lists
             \/ \E nets \in SUBSET Nets : nets # {} /\ lists' = [lists EXCEPT ![f] = nets]
        BY <1>0, <1>4, FetchReplaces
    <2>2. f \in configured /\ round'.left \subseteq configured' BY <1>0, <2>1 DEF ListsOfFeeds
    <2>3. FeedTypes' BY <1>0, <2>1 DEF FeedTypes
    <2>4. ASSUME NEW g \in FeedNames PROVE lists'[g] # {} => lists[g] # {} \/ g = f
        BY <1>0, <2>1 DEF FeedTypes, ListsOfFeeds
    <2> QED BY <1>0, <2>1, <2>2, <2>3, <2>4, Zenon DEF FeedsInv, ListsOfFeeds
  <1>5. ASSUME NEW c \in Catalogues, FetchCatalogue(c) PROVE FeedsInv'
    <2>1. /\ round' \in [pc : {"prune", "catalogues"}, left : SUBSET Sources]
          /\ UNCHANGED <<configured, urls, lists, pruned>>
        BY <1>0, <1>5, CatalogueStep
    <2>2. FeedTypes' /\ round'.pc # "feeds" BY <1>0, <2>1 DEF FeedTypes
    <2> QED BY <1>0, <2>1, <2>2, Zenon DEF FeedsInv, ListsOfFeeds
  <1>6. CASE NewFetcher
    <2>1. /\ configured' \subseteq FeedNames /\ urls' \subseteq Catalogues /\ round' = Waiting /\ pruned' = FALSE
          /\ UNCHANGED lists
        BY <1>6 DEF NewFetcher
    <2>2. FeedTypes' /\ round'.pc # "feeds" BY <1>0, <2>1 DEF FeedTypes, Waiting
    <2> QED BY <1>0, <2>1, <2>2, Zenon DEF FeedsInv, ListsOfFeeds
  <1>7. CASE UNCHANGED feedVars
    <2>1. UNCHANGED <<configured, urls, lists, round, pruned>> BY <1>7 DEF feedVars
    <2> QED BY <1>0, <2>1, Zenon DEF FeedsInv, FeedTypes, ListsOfFeeds
  <1> QED
      BY <1>1, <1>2, <1>3, <1>4, <1>5, <1>6, <1>7, Zenon DEF FeedsNext, FetcherStep

(* OnlyConfiguredMatch: between two refreshes only configured feeds match  *)
(* traffic, whatever the feeds answer and however the configuration        *)
(* changed with the restarts, as long as it names a feed (RefreshAll).     *)
THEOREM ConfiguredFeedsOnly == FeedsSpec => []OnlyConfiguredMatch
  <1>1. FeedsInv => OnlyConfiguredMatch
      BY Zenon DEF FeedsInv, ListsOfFeeds, OnlyConfiguredMatch
  <1> QED BY <1>1, FeedsInitially, FeedsStep, PTL DEF FeedsSpec

(* OutageKeepsLists: no answer, an unusable answer and a restart never     *)
(* empty the list of a configured feed (Fetch, RefreshAll).                *)
THEOREM ListsOutliveOutages == FeedsSpec => OutageKeepsLists
  <1> DEFINE Keeps == \A f \in configured : lists[f] # {} => lists'[f] # {}
  <1>1. ASSUME FeedsInv, FeedsNext PROVE Keeps
    <2>0. FeedTypes
        BY <1>1 DEF FeedsInv
    <2>1. CASE RefreshAll \/ RefreshLOLBins \/ NewFetcher
        BY <2>1 DEF RefreshAll, RefreshLOLBins, NewFetcher
    <2>2. CASE PruneLists
      <3>1. \A f \in configured : lists'[f] = lists[f]
          BY <2>0, <2>2 DEF PruneLists, FeedTypes
      <3> QED BY <3>1
    <2>3. ASSUME NEW f \in FeedNames, FetchFeed(f) PROVE Keeps
      <3>1. \/ lists' = lists
            \/ \E nets \in SUBSET Nets : nets # {} /\ lists' = [lists EXCEPT ![f] = nets]
          BY <2>0, <2>3, FetchReplaces
      <3> QED BY <2>0, <3>1 DEF FeedTypes
    <2>4. ASSUME NEW c \in Catalogues, FetchCatalogue(c) PROVE Keeps
        BY <2>0, <2>4, CatalogueStep
    <2> QED BY <1>1, <2>1, <2>2, <2>3, <2>4, Zenon DEF FeedsNext, FetcherStep
  <1>2. FeedsInv /\ [FeedsNext]_feedVars => [Keeps]_feedVars
      BY <1>1
  <1> QED BY <1>2, FeedsInitially, FeedsStep, PTL DEF FeedsSpec, OutageKeepsLists
---------------------------------------------------------------------------
(* The Suricata listener *)

ReaderStates ==
    [pc : {"read", "note", "handle", "count", "raise", "answers"}, line : Lines \cup {0}, left : Int, id : Nat]

IdsTypes ==
    /\ reader \in [Readers -> ReaderStates]
    /\ \A w \in Readers : reader[w].pc # "read" => reader[w].line \in Lines
    /\ counter \in [Counters -> Nat]
    /\ idsEvents \in Seq(Lines)
    /\ IsFiniteSet(raised)

(* A reader that has stored its event knows the row of it.                 *)
RowsKnown ==
    \A w \in Readers : reader[w].pc \in {"count", "raise"} =>
        reader[w].id \in 1..Len(idsEvents) /\ idsEvents[reader[w].id] = reader[w].line

RaisedLink == \A f \in raised : f.id \in 1..Len(idsEvents) /\ f = finding(idsEvents[f.id], f.id)

(* A stored event is counted, or its reader is about to; a counted one was *)
(* raised, dropped, or its reader is about to raise it.                    *)
AlertsCounted ==
    /\ Len(idsEvents) = counter["alerts"] + ReadersAt({"count"})
    /\ Cardinality(raised) + ReadersAt({"raise"}) <= counter["alerts"]

IdsInv == IdsTypes /\ RowsKnown /\ RaisedLink /\ AlertsCounted

(* How many readers are at a stage changes with the one that moves.        *)
LEMMA ReadersMove ==
    ASSUME IdsTypes, NEW w \in Readers, NEW r \in ReaderStates, reader' = [reader EXCEPT ![w] = r], NEW pc
    PROVE  /\ ReadersAt({pc}) \in Nat /\ ReadersAt({pc})' \in Nat
           /\ (reader[w].pc = pc <=> r.pc = pc) => ReadersAt({pc})' = ReadersAt({pc})
           /\ reader[w].pc # pc /\ r.pc = pc => ReadersAt({pc})' = ReadersAt({pc}) + 1
           /\ reader[w].pc = pc /\ r.pc # pc => ReadersAt({pc})' = ReadersAt({pc}) - 1
  <1> DEFINE S == {u \in Readers : reader[u].pc \in {pc}}
             T == {u \in Readers : reader'[u].pc \in {pc}}
  <1>1. ReadersAt({pc}) = Cardinality(S) /\ ReadersAt({pc})' = Cardinality(T)
      BY DEF ReadersAt
  <1>2. IsFiniteSet(S) /\ IsFiniteSet(T)
    <2>1. IsFiniteSet(Readers) /\ S \subseteq Readers /\ T \subseteq Readers
        BY SuricataAssumption
    <2> QED BY <2>1, FS_Subset
  <1>3. reader'[w] = r /\ \A u \in Readers : u # w => reader'[u] = reader[u]
      BY DEF IdsTypes
  <1>4. w \in S <=> reader[w].pc = pc
      OBVIOUS
  <1>5. w \in T <=> r.pc = pc
      BY <1>3
  <1>6. \A u : u # w => (u \in T <=> u \in S)
      BY <1>3
  <1> HIDE DEF S, T
  <1>7. Cardinality(S) \in Nat /\ Cardinality(T) \in Nat
      BY <1>2, FS_CardinalityType
  <1>8. CASE w \in S <=> w \in T
    <2>1. S = T BY <1>6, <1>8
    <2> QED BY <1>1, <1>4, <1>5, <1>7, <1>8, <2>1
  <1>9. CASE w \notin S /\ w \in T
    <2>1. T = S \cup {w} BY <1>6, <1>9
    <2>2. Cardinality(T) = Cardinality(S) + 1 BY <1>2, <1>9, <2>1, FS_AddElement
    <2> QED BY <1>1, <1>4, <1>5, <1>7, <1>9, <2>2
  <1>10. CASE w \in S /\ w \notin T
    <2>1. T = S \ {w} BY <1>6, <1>10
    <2>2. Cardinality(T) = Cardinality(S) - 1 BY <1>2, <1>10, <2>1, FS_RemoveElement
    <2> QED BY <1>1, <1>4, <1>5, <1>7, <1>10, <2>2
  <1> QED BY <1>8, <1>9, <1>10

(* The invariant holds of a new listener.                                  *)
LEMMA IdsInitially == SuricataInit => IdsInv
  <1> SUFFICES ASSUME SuricataInit PROVE IdsInv
      OBVIOUS
  <1>1. \A w \in Readers : reader[w] = Reading /\ reader[w].pc = "read"
      BY DEF SuricataInit, Reading
  <1>2. idsEvents = <<>> /\ raised = {} /\ counter = [c \in Counters |-> 0]
      BY DEF SuricataInit
  <1>3. IsFiniteSet(raised) /\ Cardinality(raised) = 0
      BY <1>2, FS_EmptySet
  <1>4. reader \in [Readers -> ReaderStates]
    <2>1. Reading \in ReaderStates BY DEF Reading, ReaderStates
    <2> QED BY <2>1 DEF SuricataInit
  <1>5. IdsTypes
      BY <1>1, <1>2, <1>3, <1>4 DEF IdsTypes
  <1>6. RowsKnown /\ RaisedLink
      BY <1>1, <1>2 DEF RowsKnown, RaisedLink
  <1>7. ReadersAt({"count"}) = 0 /\ ReadersAt({"raise"}) = 0
    <2>1. {w \in Readers : reader[w].pc \in {"count"}} = {} /\ {w \in Readers : reader[w].pc \in {"raise"}} = {}
        BY <1>1
    <2> QED BY <2>1, FS_EmptySet DEF ReadersAt
  <1>8. counter["alerts"] = 0 /\ Len(idsEvents) = 0
      BY <1>2 DEF Counters
  <1> QED BY <1>3, <1>5, <1>6, <1>7, <1>8 DEF IdsInv, AlertsCounted

(* A move between stages without a stored event changes none of the links. *)
LEMMA MovesElsewhere ==
    ASSUME IdsInv, NEW w \in Readers, NEW r \in ReaderStates, reader' = [reader EXCEPT ![w] = r],
           r.pc # "read" => r.line \in Lines,
           r.pc \notin {"count", "raise"}, reader[w].pc \notin {"count", "raise"},
           counter' \in [Counters -> Nat], counter'["alerts"] = counter["alerts"],
           UNCHANGED <<idsEvents, raised>>
    PROVE  IdsInv'
  <1>1. reader' \in [Readers -> ReaderStates] /\ reader'[w] = r /\ \A u \in Readers : u # w => reader'[u] = reader[u]
      BY DEF IdsInv, IdsTypes
  <1>2. IdsTypes'
      BY <1>1 DEF IdsInv, IdsTypes
  <1>3. RowsKnown' /\ RaisedLink'
    <2>1. RowsKnown'
        BY <1>1 DEF IdsInv, RowsKnown
    <2> QED BY <2>1, Zenon DEF IdsInv, RaisedLink
  <1>4. ReadersAt({"count"})' = ReadersAt({"count"}) /\ ReadersAt({"raise"})' = ReadersAt({"raise"})
      BY ReadersMove DEF IdsInv
  <1>5. AlertsCounted'
      BY <1>4, Zenon DEF IdsInv, AlertsCounted
  <1> QED BY <1>2, <1>3, <1>5 DEF IdsInv

(* A counter that is counted up is still a number, and the others stay.    *)
LEMMA CountTyped ==
    ASSUME IdsTypes, NEW c \in Counters, Count(c)
    PROVE  /\ counter' \in [Counters -> Nat] /\ counter'[c] = counter[c] + 1
           /\ \A d \in Counters : d # c => counter'[d] = counter[d]
  BY DEF IdsTypes, Count

(* A reader that gives its line up, with the counters still numbers.       *)
LEMMA GivesUp ==
    ASSUME IdsInv, NEW w \in Readers, LineDone(w), reader[w].pc \notin {"count", "raise"},
           counter' \in [Counters -> Nat], counter'["alerts"] = counter["alerts"],
           UNCHANGED <<idsEvents, raised>>
    PROVE  IdsInv'
  <1>1. Reading \in ReaderStates /\ Reading.pc = "read"
      BY DEF Reading, ReaderStates
  <1>2. reader' = [reader EXCEPT ![w] = Reading]
      BY DEF LineDone
  <1> QED BY <1>1, <1>2, MovesElsewhere

(* Storing an alert: its reader knows the row it got.                      *)
LEMMA EventStored ==
    ASSUME IdsInv, NEW w \in Readers, InsertIDSEvent(w)
    PROVE  IdsInv'
  <1>0. IdsTypes /\ RowsKnown /\ RaisedLink /\ AlertsCounted /\ reader[w].pc = "handle"
      BY DEF IdsInv, InsertIDSEvent, AtLine
  <1>1. PICK ev \in Lines : ev = reader[w].line
      BY <1>0 DEF IdsTypes
  <1>2. CASE idsEvents' = Append(idsEvents, ev) /\ UNCHANGED <<counter, raised>>
             /\ reader' = [reader EXCEPT ![w].pc = "count", ![w].id = Len(idsEvents) + 1]
    <2>1. PICK n \in Nat : n = Len(idsEvents)
        BY <1>0 DEF IdsTypes
    <2>2. PICK r : r = [reader[w] EXCEPT !.pc = "count", !.id = n + 1]
        OBVIOUS
    <2>3. r \in ReaderStates /\ r.pc = "count" /\ r.id = n + 1 /\ r.line = ev
      <3>1. reader[w] \in ReaderStates /\ n + 1 \in Nat
          BY <1>0 DEF IdsTypes
      <3>2. r \in ReaderStates /\ r.pc = "count" /\ r.id = n + 1 /\ r.line = reader[w].line
          BY <2>2, <3>1 DEF ReaderStates
      <3> QED BY <1>1, <3>2
    <2>4. reader' = [reader EXCEPT ![w] = r]
      <3>1. reader[w] \in ReaderStates
          BY <1>0 DEF IdsTypes
      <3>2. reader' = [reader EXCEPT ![w] = [reader[w] EXCEPT !.pc = "count", !.id = n + 1]]
          BY <1>0, <1>2, <2>1, <3>1 DEF IdsTypes, ReaderStates
      <3> QED BY <2>2, <3>2, Zenon
    <2>5. reader' \in [Readers -> ReaderStates] /\ reader'[w] = r /\ \A u \in Readers : u # w => reader'[u] = reader[u]
        BY <1>0, <2>3, <2>4 DEF IdsTypes
    <2>6. /\ idsEvents' \in Seq(Lines) /\ Len(idsEvents') = n + 1 /\ idsEvents'[n + 1] = ev
          /\ \A i \in 1..n : idsEvents'[i] = idsEvents[i]
        BY <1>0, <1>2, <2>1 DEF IdsTypes
    <2>7. IdsTypes'
        BY <1>0, <1>2, <2>3, <2>5, <2>6 DEF IdsTypes
    <2>8. RowsKnown'
      <3> SUFFICES ASSUME NEW u \in Readers, reader'[u].pc \in {"count", "raise"}
                   PROVE  reader'[u].id \in 1..Len(idsEvents') /\ idsEvents'[reader'[u].id] = reader'[u].line
          BY DEF RowsKnown
      <3>1. CASE u = w
        <4>1. reader'[u].id = n + 1 /\ reader'[u].line = ev
            BY <2>3, <2>5, <3>1
        <4>2. n + 1 \in 1..(n + 1)
            OBVIOUS
        <4> QED BY <2>6, <4>1, <4>2, Zenon
      <3>2. CASE u # w
        <4>1. reader'[u] = reader[u] /\ reader[u].id \in 1..n /\ idsEvents[reader[u].id] = reader[u].line
            BY <1>0, <2>1, <2>5, <3>2 DEF RowsKnown
        <4>2. reader[u].id \in 1..(n + 1) /\ idsEvents'[reader[u].id] = reader[u].line
            BY <2>6, <4>1
        <4> QED BY <2>6, <4>1, <4>2, Zenon
      <3> QED BY <3>1, <3>2
    <2>9. RaisedLink'
      <3> SUFFICES ASSUME NEW f \in raised
                   PROVE  f.id \in 1..Len(idsEvents') /\ f = finding(idsEvents'[f.id], f.id)
          BY <1>2, Zenon DEF RaisedLink
      <3>1. f.id \in 1..n /\ f = finding(idsEvents[f.id], f.id)
          BY <1>0, <2>1, Zenon DEF RaisedLink
      <3>2. f.id \in 1..(n + 1) /\ idsEvents'[f.id] = idsEvents[f.id]
          BY <2>6, <3>1
      <3> QED BY <2>6, <3>1, <3>2, Zenon
    <2>10. AlertsCounted'
      <3>1. ReadersAt({"count"})' = ReadersAt({"count"}) + 1 /\ ReadersAt({"raise"})' = ReadersAt({"raise"})
            /\ ReadersAt({"count"}) \in Nat
          BY <1>0, <2>3, <2>4, ReadersMove
      <3>2. n = counter["alerts"] + ReadersAt({"count"}) /\ counter["alerts"] \in Nat
          BY <1>0, <2>1 DEF AlertsCounted, IdsTypes, Counters
      <3>3. n + 1 = counter["alerts"] + (ReadersAt({"count"}) + 1)
          BY <3>1, <3>2
      <3>4. Len(idsEvents') = counter'["alerts"] + ReadersAt({"count"})'
          BY <1>2, <2>6, <3>1, <3>3, Zenon
      <3>5. Cardinality(raised') + ReadersAt({"raise"})' <= counter'["alerts"]
          BY <1>0, <1>2, <3>1, Zenon DEF AlertsCounted
      <3> QED BY <3>4, <3>5 DEF AlertsCounted
    <2> QED BY <2>7, <2>8, <2>9, <2>10 DEF IdsInv
  <1>3. CASE Drop(w) /\ UNCHANGED <<idsEvents, raised>>
    <2>1. Count("dropped") /\ LineDone(w)
        BY <1>3 DEF Drop
    <2>2. counter' \in [Counters -> Nat] /\ counter'["alerts"] = counter["alerts"]
        BY <1>0, <2>1, CountTyped DEF Counters
    <2> QED BY <1>0, <1>3, <2>1, <2>2, GivesUp
  <1> QED BY <1>1, <1>2, <1>3 DEF InsertIDSEvent

(* Counting an alert: its reader goes on to raise it, if the rules engine  *)
(* runs.                                                                   *)
LEMMA AlertCounted ==
    ASSUME IdsInv, NEW w \in Readers, CountAlert(w)
    PROVE  IdsInv'
  <1>0. /\ IdsTypes /\ RowsKnown /\ RaisedLink /\ AlertsCounted /\ reader[w].pc = "count"
        /\ reader[w] \in ReaderStates /\ reader[w].line \in Lines
      BY DEF IdsInv, CountAlert, AtLine, IdsTypes
  <1>1. Count("alerts") /\ UNCHANGED <<idsEvents, raised>>
      BY DEF CountAlert
  <1>2. PICK r \in ReaderStates :
            /\ reader' = [reader EXCEPT ![w] = r]
            /\ r.pc \in {"raise", "read"} /\ (r.pc = "raise" => r.line = reader[w].line /\ r.id = reader[w].id)
    <2>1. CASE reader' = [reader EXCEPT ![w].pc = "raise"]
      <3>1. PICK r : r = [reader[w] EXCEPT !.pc = "raise"]
          OBVIOUS
      <3>2. r \in ReaderStates /\ r.pc = "raise" /\ r.line = reader[w].line /\ r.id = reader[w].id
          BY <1>0, <3>1 DEF ReaderStates
      <3>3. reader' = [reader EXCEPT ![w] = r]
          BY <2>1, <3>1, Zenon
      <3> QED BY <3>2, <3>3
    <2>2. CASE LineDone(w)
      <3>1. Reading \in ReaderStates /\ Reading.pc = "read"
          BY DEF Reading, ReaderStates
      <3> QED BY <2>2, <3>1 DEF LineDone
    <2> QED BY <2>1, <2>2 DEF CountAlert
  <1>3. reader' \in [Readers -> ReaderStates] /\ reader'[w] = r /\ \A u \in Readers : u # w => reader'[u] = reader[u]
      BY <1>0, <1>2 DEF IdsTypes
  <1>4. counter' \in [Counters -> Nat] /\ counter'["alerts"] = counter["alerts"] + 1 /\ counter["alerts"] \in Nat
      BY <1>0, <1>1, CountTyped DEF Counters, IdsTypes
  <1>5. IdsTypes'
      BY <1>0, <1>1, <1>2, <1>3, <1>4 DEF IdsTypes
  <1>6. RowsKnown'
    <2> SUFFICES ASSUME NEW u \in Readers, reader'[u].pc \in {"count", "raise"}
                 PROVE  reader'[u].id \in 1..Len(idsEvents) /\ idsEvents[reader'[u].id] = reader'[u].line
        BY <1>1, Zenon DEF RowsKnown
    <2>1. reader'[u].id = reader[u].id /\ reader'[u].line = reader[u].line /\ reader[u].pc \in {"count", "raise"}
        BY <1>0, <1>2, <1>3
    <2> QED BY <1>0, <2>1, Zenon DEF RowsKnown
  <1>7. RaisedLink'
      BY <1>0, <1>1, Zenon DEF RaisedLink
  <1>8. AlertsCounted'
    <2>1. /\ ReadersAt({"count"})' = ReadersAt({"count"}) - 1 /\ ReadersAt({"count"}) \in Nat
          /\ ReadersAt({"raise"})' \in {ReadersAt({"raise"}), ReadersAt({"raise"}) + 1} /\ ReadersAt({"raise"}) \in Nat
        BY <1>0, <1>2, ReadersMove
    <2>2. Cardinality(raised) \in Nat /\ Len(idsEvents) \in Nat
        BY <1>0, FS_CardinalityType DEF IdsTypes
    <2>3. PICK n \in Nat : n = Len(idsEvents)
        BY <2>2
    <2>4. PICK k \in Nat : k = Cardinality(raised)
        BY <2>2
    <2>5. n = counter["alerts"] + ReadersAt({"count"}) /\ k + ReadersAt({"raise"}) <= counter["alerts"]
        BY <1>0, <2>3, <2>4 DEF AlertsCounted
    <2>6. n = counter'["alerts"] + ReadersAt({"count"})' /\ k + ReadersAt({"raise"})' <= counter'["alerts"]
        BY <1>4, <2>1, <2>5
    <2> QED BY <1>1, <2>3, <2>4, <2>6, Zenon DEF AlertsCounted
  <1> QED BY <1>5, <1>6, <1>7, <1>8 DEF IdsInv

(* Raising a finding: it is the one of the row its reader stored.          *)
LEMMA FindingRaised ==
    ASSUME IdsInv, NEW w \in Readers, RaiseEvent(w)
    PROVE  IdsInv'
  <1>0. /\ IdsTypes /\ RowsKnown /\ RaisedLink /\ AlertsCounted /\ reader[w].pc = "raise"
        /\ reader[w] \in ReaderStates
      BY DEF IdsInv, RaiseEvent, AtLine, IdsTypes
  <1>1. PICK ev : ev = reader[w].line
      OBVIOUS
  <1>2. PICK id \in 1..Len(idsEvents) : id = reader[w].id /\ idsEvents[id] = ev
      BY <1>0, <1>1 DEF RowsKnown
  <1>3. LineDone(w) /\ UNCHANGED idsEvents
      BY DEF RaiseEvent, Drop
  <1>4. counter' \in [Counters -> Nat] /\ counter'["alerts"] = counter["alerts"] /\ counter["alerts"] \in Nat
    <2>1. UNCHANGED counter \/ Count("dropped")
        BY DEF RaiseEvent, Drop
    <2> QED BY <1>0, <2>1, CountTyped DEF Counters, IdsTypes
  <1>5. raised' = raised \/ raised' = raised \cup {finding(ev, id)}
      BY <1>1, <1>2, Zenon DEF RaiseEvent
  <1>6. IsFiniteSet(raised') /\ Cardinality(raised') <= Cardinality(raised) + 1
        /\ Cardinality(raised) \in Nat /\ Cardinality(raised') \in Nat
    <2>1. IsFiniteSet(raised)
        BY <1>0 DEF IdsTypes
    <2> QED BY <1>5, <2>1, FS_AddElement, FS_CardinalityType
  <1>7. reader' = [reader EXCEPT ![w] = Reading] /\ Reading \in ReaderStates /\ Reading.pc = "read"
      BY <1>3 DEF LineDone, Reading, ReaderStates
  <1>8. reader' \in [Readers -> ReaderStates] /\ reader'[w] = Reading /\ \A u \in Readers : u # w => reader'[u] = reader[u]
      BY <1>0, <1>7 DEF IdsTypes
  <1>9. IdsTypes'
      BY <1>0, <1>3, <1>4, <1>6, <1>7, <1>8 DEF IdsTypes
  <1>10. RowsKnown'
      BY <1>0, <1>3, <1>7, <1>8 DEF RowsKnown
  <1>11. RaisedLink'
    <2>1. finding(ev, id).id = id
        BY DEF finding
    <2>2. ASSUME NEW f \in raised' PROVE f.id \in 1..Len(idsEvents) /\ f = finding(idsEvents[f.id], f.id)
      <3>1. CASE f \in raised
          BY <1>0, <3>1, Zenon DEF RaisedLink
      <3>2. CASE f = finding(ev, id)
          BY <1>2, <2>1, <3>2, Zenon
      <3> QED BY <1>5, <3>1, <3>2
    <2> QED BY <1>3, <2>2, Zenon DEF RaisedLink
  <1>12. AlertsCounted'
    <2>1. /\ ReadersAt({"count"})' = ReadersAt({"count"})
          /\ ReadersAt({"raise"})' = ReadersAt({"raise"}) - 1 /\ ReadersAt({"raise"}) \in Nat
        BY <1>0, <1>7, ReadersMove
    <2>2. Len(idsEvents') = counter'["alerts"] + ReadersAt({"count"})'
        BY <1>0, <1>3, <1>4, <2>1, Zenon DEF AlertsCounted
    <2>3. PICK k \in Nat : k = Cardinality(raised)
        BY <1>6
    <2>4. PICK m \in Nat : m = Cardinality(raised') /\ m <= k + 1
        BY <1>6, <2>3
    <2>5. k + ReadersAt({"raise"}) <= counter["alerts"]
        BY <1>0, <2>3 DEF AlertsCounted
    <2>6. m + ReadersAt({"raise"})' <= counter'["alerts"]
        BY <1>4, <2>1, <2>4, <2>5
    <2> QED BY <2>2, <2>4, <2>6, Zenon DEF AlertsCounted
  <1> QED BY <1>9, <1>10, <1>11, <1>12 DEF IdsInv

(* Reading, noting and naming move a reader between the other stages.      *)
LEMMA OtherLines ==
    ASSUME IdsInv, NEW w \in Readers,
           (\E line \in Lines : HandleLine(w, line)) \/ NoteType(w) \/ HandleName(w) \/ HandleNothing(w)
    PROVE  IdsInv'
  <1>0. IdsTypes /\ reader[w] \in ReaderStates /\ counter \in [Counters -> Nat]
      BY DEF IdsInv, IdsTypes
  <1>1. UNCHANGED <<idsEvents, raised>>
      BY DEF HandleLine, NoteType, HandleName, HandleNothing
  <1>2. counter' \in [Counters -> Nat] /\ counter'["alerts"] = counter["alerts"]
    <2>1. \/ UNCHANGED counter
          \/ \E c \in {"ignored", "malformed", "received", "names"} : Count(c)
          \/ counter' = [counter EXCEPT !["names"] = counter["names"] + 1, !["dropped"] = counter["dropped"] + 1]
        BY DEF HandleLine, NoteType, HandleName, HandleNothing, LearnName, markMalformed
    <2>2. ASSUME NEW c \in {"ignored", "malformed", "received", "names"}, Count(c)
          PROVE  counter' \in [Counters -> Nat] /\ counter'["alerts"] = counter["alerts"]
        BY <1>0, <2>2, CountTyped DEF Counters
    <2>3. CASE counter' = [counter EXCEPT !["names"] = counter["names"] + 1, !["dropped"] = counter["dropped"] + 1]
        BY <1>0, <2>3 DEF Counters
    <2> QED BY <1>0, <2>1, <2>2, <2>3
  <1>3. reader[w].pc \in {"read", "note", "handle", "answers"}
      BY DEF HandleLine, NoteType, HandleName, HandleNothing, AtLine
  <1>4. LineDone(w) => IdsInv'
      BY <1>1, <1>2, <1>3, GivesUp
  <1>5. ASSUME UNCHANGED reader PROVE IdsInv'
    <2>1. reader' = [reader EXCEPT ![w] = reader[w]]
        BY <1>0, <1>5 DEF IdsTypes
    <2>2. reader[w].pc # "read" => reader[w].line \in Lines
        BY <1>0 DEF IdsTypes
    <2> QED BY <1>0, <1>1, <1>2, <1>3, <2>1, <2>2, MovesElsewhere
  <1>6. ASSUME NEW r \in ReaderStates, reader' = [reader EXCEPT ![w] = r],
               r.pc \in {"note", "handle", "answers"}, r.line \in Lines
        PROVE  IdsInv'
      BY <1>1, <1>2, <1>3, <1>6, MovesElsewhere
  <1>7. ASSUME NEW line \in Lines, HandleLine(w, line) PROVE IdsInv'
    <2>1. CASE reader' = [reader EXCEPT ![w] = [pc |-> "note", line |-> line, left |-> 0, id |-> 0]]
      <3>1. PICK r : r = [pc |-> "note", line |-> line, left |-> 0, id |-> 0]
          OBVIOUS
      <3>2. r \in ReaderStates /\ r.pc = "note" /\ r.line = line
          BY <3>1 DEF ReaderStates
      <3> QED BY <1>6, <2>1, <3>1, <3>2, Zenon
    <2> QED BY <1>5, <1>7, <2>1 DEF HandleLine
  <1>8. ASSUME NoteType(w) PROVE IdsInv'
    <2>1. reader[w].line \in Lines /\ reader' = [reader EXCEPT ![w].pc = "handle"]
        BY <1>0, <1>8 DEF NoteType, AtLine, IdsTypes
    <2>2. PICK r : r = [reader[w] EXCEPT !.pc = "handle"]
        OBVIOUS
    <2>3. r \in ReaderStates /\ r.pc = "handle" /\ r.line = reader[w].line
        BY <1>0, <2>2 DEF ReaderStates
    <2>4. reader' = [reader EXCEPT ![w] = r]
        BY <2>1, <2>2, Zenon
    <2>5. r.pc \in {"note", "handle", "answers"} /\ r.line \in Lines
        BY <2>1, <2>3
    <2> QED BY <1>6, <2>3, <2>4, <2>5, Zenon
  <1>9. ASSUME HandleName(w) PROVE IdsInv'
    <2>1. reader[w].line \in Lines /\ reader[w].left \in Int /\ reader[w].line.answers \in Nat
      <3>1. reader[w].line \in Lines
          BY <1>0, <1>9 DEF HandleName, AtLine, IdsTypes
      <3> QED BY <1>0, <3>1, SuricataAssumption DEF ReaderStates
    <2>2. PICK left \in Int : LearnName(w, left)
        BY <1>9, <2>1 DEF HandleName
    <2>3. CASE reader' = [reader EXCEPT ![w].pc = "answers", ![w].left = left]
      <3>1. PICK r : r = [reader[w] EXCEPT !.pc = "answers", !.left = left]
          OBVIOUS
      <3>2. r \in ReaderStates /\ r.pc = "answers" /\ r.line = reader[w].line
          BY <1>0, <3>1 DEF ReaderStates
      <3>3. reader' = [reader EXCEPT ![w] = [reader[w] EXCEPT !.pc = "answers", !.left = left]]
          BY <1>0, <2>3 DEF IdsTypes, ReaderStates
      <3>4. reader' = [reader EXCEPT ![w] = r] /\ r.pc \in {"note", "handle", "answers"} /\ r.line \in Lines
          BY <2>1, <3>1, <3>2, <3>3
      <3> QED BY <1>6, <3>2, <3>4, Zenon
    <2> QED BY <1>4, <2>2, <2>3 DEF LearnName
  <1>10. ASSUME HandleNothing(w) PROVE IdsInv'
      BY <1>4, <1>10 DEF HandleNothing
  <1> QED BY <1>7, <1>8, <1>9, <1>10

(* Every step of a reader keeps the invariant.                             *)
LEMMA IdsStep == IdsInv /\ [SuricataNext]_idsVars => IdsInv'
  <1> SUFFICES ASSUME IdsInv, [SuricataNext]_idsVars PROVE IdsInv'
      OBVIOUS
  <1>1. CASE UNCHANGED idsVars
    <2>1. UNCHANGED <<reader, counter, idsEvents, raised>> BY <1>1 DEF idsVars
    <2> QED BY <2>1, Zenon DEF IdsInv, IdsTypes, RowsKnown, RaisedLink, AlertsCounted, ReadersAt
  <1> QED BY <1>1, EventStored, AlertCounted, FindingRaised, OtherLines, Zenon DEF SuricataNext

(* FindingsLinkToEvents: however many readers store and raise at the same  *)
(* time and whichever database call fails, a finding is made from the      *)
(* stored event whose id it carries, every stored event is counted once    *)
(* its reader has done so, and no more findings are raised than alerts     *)
(* counted (handle, HandleLine).                                           *)
THEOREM FindingsHaveEvents == SuricataSpec => []FindingsLinkToEvents
  <1>1. IdsInv => FindingsLinkToEvents
    <2> SUFFICES ASSUME IdsInv PROVE FindingsLinkToEvents
        OBVIOUS
    <2>1. Cardinality(raised) \in Nat /\ counter["alerts"] \in Nat /\ ReadersAt({"raise"}) \in Nat
      <3>1. IsFiniteSet(raised) /\ counter["alerts"] \in Nat
          BY DEF IdsInv, IdsTypes, Counters
      <3>2. IsFiniteSet({w \in Readers : reader[w].pc \in {"raise"}})
        <4>1. {w \in Readers : reader[w].pc \in {"raise"}} \subseteq Readers /\ IsFiniteSet(Readers)
            BY SuricataAssumption
        <4> QED BY <4>1, FS_Subset
      <3> QED BY <3>1, <3>2, FS_CardinalityType DEF ReadersAt
    <2>2. PICK k \in Nat : k = Cardinality(raised)
        BY <2>1
    <2>3. k + ReadersAt({"raise"}) <= counter["alerts"]
        BY <2>2, Zenon DEF IdsInv, AlertsCounted
    <2>4. Cardinality(raised) <= counter["alerts"]
        BY <2>1, <2>2, <2>3
    <2> QED BY <2>4, Zenon DEF IdsInv, RaisedLink, AlertsCounted, FindingsLinkToEvents
  <1> QED BY <1>1, IdsInitially, IdsStep, PTL DEF SuricataSpec
---------------------------------------------------------------------------
(* The table of types *)

Known == {t \in Types : types[t] > 0}
(* The bound is one of the types that are not "other", which gets a row    *)
(* also when the table is full.                                            *)
TypesInv ==
    /\ types \in [Types -> Nat]
    /\ IsFiniteSet(Known)
    /\ Cardinality(Known \ {"other"}) <= MaxTypes

(* One more event of a type adds at most the row of that type.             *)
LEMMA RowCounted ==
    ASSUME types \in [Types -> Nat], NEW row, types' = [types EXCEPT ![row] = types[row] + 1]
    PROVE  /\ types' \in [Types -> Nat]
           /\ Known' \subseteq Known \cup {row}
           /\ row \notin Types \/ row \in Known => Known' = Known
  <1>1. CASE row \notin Types
    <2>1. types' = types
        BY <1>1
    <2> QED BY <2>1 DEF Known
  <1>2. CASE row \in Types
    <2>1. types' \in [Types -> Nat] /\ types'[row] = types[row] + 1 /\ types[row] \in Nat
          /\ \A t \in Types : t # row => types'[t] = types[t]
        BY <1>2
    <2>2. \A t \in Types : t # row => (t \in Known' <=> t \in Known)
        BY <2>1 DEF Known
    <2>3. row \in Known'
        BY <1>2, <2>1 DEF Known
    <2> QED BY <1>2, <2>1, <2>2, <2>3 DEF Known
  <1> QED BY <1>1, <1>2

(* Noting an event keeps the bound: a new type takes a row only while      *)
(* there is room, the rest goes to "other" (note, maxTypes).               *)
LEMMA NoteKeepsBound ==
    ASSUME TypesInv, NEW key, note(key)
    PROVE  TypesInv'
  <1> DEFINE full == types[key] = 0 /\ Cardinality(Known) >= MaxTypes
  <1>1. PICK row : row = IF full THEN "other" ELSE key
      OBVIOUS
  <1>2. types' = [types EXCEPT ![row] = types[row] + 1]
      BY <1>1 DEF note, Known
  <1>3. /\ types' \in [Types -> Nat] /\ Known' \subseteq Known \cup {row}
        /\ row \notin Types \/ row \in Known => Known' = Known
      BY <1>2, RowCounted DEF TypesInv
  <1>4. IsFiniteSet(Known) /\ IsFiniteSet(Known \cup {row}) /\ IsFiniteSet(Known')
      BY <1>3, FS_AddElement, FS_Subset DEF TypesInv
  <1>5. /\ Cardinality(Known) \in Nat /\ Cardinality(Known') \in Nat
        /\ Cardinality(Known \cup {row}) <= Cardinality(Known) + 1
        /\ Cardinality(Known') <= Cardinality(Known \cup {row})
      BY <1>3, <1>4, FS_AddElement, FS_Subset, FS_CardinalityType
  <1>6. Cardinality(Known' \ {"other"}) <= MaxTypes
    <2>1. CASE row \notin Types \/ row \in Known
        BY <1>3, <2>1 DEF TypesInv
    <2>2. CASE row = "other"
      <3>1. Known' \ {"other"} \subseteq Known \ {"other"}
          BY <1>3, <2>2
      <3>2. IsFiniteSet(Known \ {"other"})
          BY <1>4, FS_Subset
      <3>3. /\ Cardinality(Known' \ {"other"}) <= Cardinality(Known \ {"other"})
            /\ Cardinality(Known' \ {"other"}) \in Nat /\ Cardinality(Known \ {"other"}) \in Nat
          BY <3>1, <3>2, FS_Subset, FS_CardinalityType
      <3>4. Cardinality(Known \ {"other"}) <= MaxTypes /\ MaxTypes \in Nat
          BY SuricataAssumption DEF TypesInv
      <3> HIDE DEF full
      <3> QED BY <3>3, <3>4, SMT
    <2>3. CASE row # "other" /\ row \in Types /\ row \notin Known
      <3>1. row = key /\ ~full
          BY <1>1, <2>3
      <3>2. types[key] = 0
          BY <2>3, <3>1 DEF TypesInv, Known
      <3>3. Cardinality(Known) < MaxTypes /\ MaxTypes \in Nat
          BY <1>5, <3>1, <3>2, SuricataAssumption
      <3>4. /\ Cardinality(Known' \ {"other"}) <= Cardinality(Known')
            /\ Cardinality(Known' \ {"other"}) \in Nat
        <4>1. IsFiniteSet(Known' \ {"other"})
            BY <1>4, FS_Subset
        <4> QED BY <1>4, <4>1, FS_Subset, FS_CardinalityType
      <3> DEFINE A == Cardinality(Known' \ {"other"})
                 B == Cardinality(Known')
                 C == Cardinality(Known \cup {row})
                 D == Cardinality(Known)
      <3>5. Cardinality(Known \cup {row}) \in Nat
          BY <1>4, FS_CardinalityType
      <3>6. A \in Nat /\ B \in Nat /\ C \in Nat /\ D \in Nat /\ A <= B /\ B <= C /\ C <= D + 1 /\ D < MaxTypes
          BY <1>5, <3>3, <3>4, <3>5
      <3>7. A <= MaxTypes
        <4> HIDE DEF A, B, C, D, full
        <4> QED BY <3>3, <3>6
      <3> QED BY <3>7
    <2> QED BY <2>1, <2>2, <2>3
  <1> QED BY <1>3, <1>4, <1>6 DEF TypesInv

(* A new listener has an empty table.                                      *)
LEMMA TypesInitially == SuricataInit => TypesInv
  <1> SUFFICES ASSUME SuricataInit PROVE TypesInv
      OBVIOUS
  <1>1. types \in [Types -> Nat] /\ Known = {}
      BY DEF SuricataInit, Known
  <1>2. Known \ {"other"} = {}
      BY <1>1
  <1>3. IsFiniteSet(Known) /\ Cardinality(Known \ {"other"}) = 0
      BY <1>1, <1>2, FS_EmptySet
  <1> QED BY <1>1, <1>3, SuricataAssumption DEF TypesInv

(* Only noting writes the table.                                           *)
LEMMA TypesStep == TypesInv /\ [SuricataNext]_idsVars => TypesInv'
  <1> SUFFICES ASSUME TypesInv, [SuricataNext]_idsVars PROVE TypesInv'
      OBVIOUS
  <1>1. ASSUME UNCHANGED types PROVE TypesInv'
      BY <1>1 DEF TypesInv, Known
  <1>2. ASSUME NEW w \in Readers, NoteType(w) PROVE TypesInv'
      BY <1>2, NoteKeepsBound DEF NoteType
  <1>3. ASSUME NEW w \in Readers, NEW line \in Lines, HandleLine(w, line) PROVE TypesInv'
      BY <1>1, <1>3 DEF HandleLine
  <1>4. ASSUME NEW w \in Readers, InsertIDSEvent(w) \/ CountAlert(w) \/ RaiseEvent(w) \/ HandleName(w) \/ HandleNothing(w)
        PROVE  TypesInv'
      BY <1>1, <1>4 DEF InsertIDSEvent, CountAlert, RaiseEvent, HandleName, HandleNothing
  <1> QED BY <1>1, <1>2, <1>3, <1>4 DEF SuricataNext, idsVars

(* The bound, and one row for the rest.                                    *)
LEMMA TypesBound == TypesInv => TypesStayBounded
  <1> SUFFICES ASSUME TypesInv PROVE TypesStayBounded
      OBVIOUS
  <1> DEFINE K == Known \ {"other"}
  <1>1. Known \subseteq K \cup {"other"} /\ IsFiniteSet(K)
      BY FS_Subset DEF TypesInv
  <1> HIDE DEF K
  <1>2. IsFiniteSet(K \cup {"other"}) /\ Cardinality(K \cup {"other"}) <= Cardinality(K) + 1
    <2>1. Cardinality(K) \in Nat
        BY <1>1, FS_CardinalityType
    <2>2. /\ IsFiniteSet(K \cup {"other"})
          /\ Cardinality(K \cup {"other"}) = Cardinality(K) \/ Cardinality(K \cup {"other"}) = Cardinality(K) + 1
        BY <1>1, FS_AddElement
    <2> QED BY <2>1, <2>2
  <1>3. Cardinality(Known) <= Cardinality(K \cup {"other"})
      BY <1>1, <1>2, FS_Subset
  <1>4. Cardinality(Known) \in Nat /\ Cardinality(K \cup {"other"}) \in Nat /\ Cardinality(K) \in Nat
      BY <1>1, <1>2, FS_CardinalityType DEF TypesInv
  <1>5. Cardinality(K) <= MaxTypes /\ MaxTypes \in Nat
      BY SuricataAssumption DEF TypesInv, K
  <1>6. Cardinality(Known) <= MaxTypes + 1
      BY <1>2, <1>3, <1>4, <1>5
  <1> QED BY <1>6 DEF TypesStayBounded, Known
---------------------------------------------------------------------------
(* The events in the table *)

(* What is to be noted is an event with a type, and the events received    *)
(* are those the table has counted and those a reader is about to note.    *)
NotedInv ==
    /\ \A w \in Readers : reader[w].pc = "note" => reader[w].line.form = "event" /\ reader[w].line.type # ""
    /\ IsFiniteSet(Noted)
    /\ Cardinality(Noted) + ReadersAt({"note"}) = counter["received"]

(* Noting an event adds one to what the table has counted, be it a type of *)
(* its own, a new one or the row for the rest.                             *)
LEMMA NotesOne ==
    ASSUME types \in [Types -> Nat], IsFiniteSet(Noted), NEW key \in Types, note(key)
    PROVE  IsFiniteSet(Noted') /\ Cardinality(Noted') = Cardinality(Noted) + 1
  <1>1. PICK row \in Types : types' = [types EXCEPT ![row] = types[row] + 1]
      BY SuricataAssumption DEF note
  <1>2. PICK k \in Nat : k = types[row]
      OBVIOUS
  <1>3. types'[row] = k + 1 /\ \A t \in Types : t # row => types'[t] = types[t]
      BY <1>1, <1>2
  <1>4. \A t : \A n : <<t, n>> \in Noted <=> t \in Types /\ n \in 1..types[t]
      BY DEF Noted
  <1>5. \A t : \A n : <<t, n>> \in Noted' <=> t \in Types /\ n \in 1..types'[t]
      BY DEF Noted
  <1>6. <<row, k + 1>> \notin Noted
    <2>1. k + 1 \notin 1..k
        BY <1>2
    <2> QED BY <1>2, <1>4, <2>1
  <1>7. Noted' = Noted \cup {<<row, k + 1>>}
    <2>1. 1..(k + 1) = (1..k) \cup {k + 1}
        BY <1>2
    <2>2. ASSUME NEW t \in Types PROVE \A n : n \in 1..types'[t] <=> n \in 1..types[t] \/ (t = row /\ n = k + 1)
      <3>1. CASE t = row BY <1>2, <1>3, <2>1, <3>1
      <3>2. CASE t # row BY <1>3, <3>2
      <3> QED BY <3>1, <3>2
    <2>3. \A x \in Noted : \E t \in Types : \E n : x = <<t, n>>
        BY DEF Noted
    <2>4. \A x \in Noted' : \E t \in Types : \E n : x = <<t, n>>
        BY DEF Noted
    <2>5. ASSUME NEW x \in Noted' PROVE x \in Noted \cup {<<row, k + 1>>}
      <3>1. PICK t \in Types : \E n : x = <<t, n>>
          BY <2>4
      <3>2. PICK n : x = <<t, n>>
          BY <3>1
      <3>3. n \in 1..types[t] \/ (t = row /\ n = k + 1)
          BY <1>5, <2>2, <2>5, <3>2
      <3> QED BY <1>4, <3>2, <3>3
    <2>6. ASSUME NEW x \in Noted \cup {<<row, k + 1>>} PROVE x \in Noted'
      <3>1. CASE x = <<row, k + 1>>
          BY <1>1, <1>5, <2>2, <3>1
      <3>2. CASE x \in Noted
        <4>1. PICK t \in Types : \E n : x = <<t, n>>
            BY <2>3, <3>2
        <4>2. PICK n : x = <<t, n>>
            BY <4>1
        <4>3. n \in 1..types'[t]
            BY <1>4, <2>2, <3>2, <4>2
        <4> QED BY <1>5, <4>2, <4>3
      <3> QED BY <2>6, <3>1, <3>2
    <2> QED BY <2>5, <2>6
  <1> QED BY <1>6, <1>7, FS_AddElement

(* A new listener has received nothing.                                    *)
LEMMA NotedInitially == SuricataInit => NotedInv
  <1> SUFFICES ASSUME SuricataInit PROVE NotedInv
      OBVIOUS
  <1>1. \A w \in Readers : reader[w].pc = "read"
      BY DEF SuricataInit, Reading
  <1>2. Noted = {}
    <2>1. \A t \in Types : types[t] = 0
        BY DEF SuricataInit
    <2>2. 1..0 = {}
        OBVIOUS
    <2> QED BY <2>1, <2>2 DEF Noted
  <1>3. {w \in Readers : reader[w].pc \in {"note"}} = {}
      BY <1>1
  <1>4. Cardinality(Noted) = 0 /\ IsFiniteSet(Noted) /\ ReadersAt({"note"}) = 0
      BY <1>2, <1>3, FS_EmptySet DEF ReadersAt
  <1>5. counter["received"] = 0
      BY DEF SuricataInit, Counters
  <1>6. Cardinality(Noted) + ReadersAt({"note"}) = 0
      BY <1>4
  <1> QED BY <1>1, <1>4, <1>5, <1>6, Zenon DEF NotedInv

(* A step that neither notes nor receives leaves the account as it is.     *)
LEMMA AccountStays ==
    ASSUME NotedInv, IdsTypes, NEW w \in Readers, NEW r \in ReaderStates,
           reader' = [reader EXCEPT ![w] = r], reader[w].pc # "note", r.pc # "note",
           UNCHANGED types, counter'["received"] = counter["received"]
    PROVE  NotedInv'
  <1>1. reader'[w] = r /\ \A u \in Readers : u # w => reader'[u] = reader[u]
      BY DEF IdsTypes
  <1>2. ReadersAt({"note"})' = ReadersAt({"note"})
      BY ReadersMove
  <1>3. Noted' = Noted
      BY DEF Noted
  <1>4. \A u \in Readers : reader'[u].pc = "note" => reader'[u].line.form = "event" /\ reader'[u].line.type # ""
      BY <1>1 DEF NotedInv
  <1> QED BY <1>2, <1>3, <1>4, Zenon DEF NotedInv

(* Each step of a reader keeps the account.                                *)
LEMMA NotedStep == IdsInv /\ TypesInv /\ NotedInv /\ [SuricataNext]_idsVars => NotedInv'
  <1> SUFFICES ASSUME IdsInv, TypesInv, NotedInv, [SuricataNext]_idsVars PROVE NotedInv'
      OBVIOUS
  <1>0. IdsTypes /\ \A w \in Readers : reader[w] \in ReaderStates
      BY DEF IdsInv, IdsTypes
  <1>1. Reading \in ReaderStates /\ Reading.pc = "read"
      BY DEF Reading, ReaderStates
  <1>2. ASSUME NEW c \in Counters \ {"received"}, Count(c) PROVE counter'["received"] = counter["received"]
      BY <1>0, <1>2, CountTyped DEF Counters
  <1>3. ASSUME NEW w \in Readers, LineDone(w), reader[w].pc # "note", UNCHANGED types,
               counter'["received"] = counter["received"]
        PROVE  NotedInv'
      BY <1>0, <1>1, <1>3, AccountStays DEF LineDone
  <1>4. ASSUME UNCHANGED <<reader, types>>, counter'["received"] = counter["received"]
        PROVE  NotedInv'
    <2>1. Noted' = Noted
        BY <1>4 DEF Noted
    <2>2. ReadersAt({"note"})' = ReadersAt({"note"})
        BY <1>4 DEF ReadersAt
    <2> QED BY <1>4, <2>1, <2>2, Zenon DEF NotedInv
  <1>5. ASSUME NEW w \in Readers, NEW line \in Lines, HandleLine(w, line) PROVE NotedInv'
    <2>1. UNCHANGED types /\ reader[w].pc = "read"
        BY <1>5 DEF HandleLine, AtLine
    <2>2. CASE UNCHANGED reader /\ (UNCHANGED counter \/ Count("ignored") \/ Count("malformed"))
      <3>1. counter'["received"] = counter["received"]
          BY <1>2, <2>2 DEF Counters
      <3> QED BY <1>4, <2>1, <2>2, <3>1
    <2>3. CASE /\ line.form = "event" /\ line.type # "" /\ Count("received")
               /\ reader' = [reader EXCEPT ![w] = [pc |-> "note", line |-> line, left |-> 0, id |-> 0]]
      <3>1. PICK r : r = [pc |-> "note", line |-> line, left |-> 0, id |-> 0]
          OBVIOUS
      <3>2. r \in ReaderStates /\ r.pc = "note" /\ r.line = line
          BY <3>1 DEF ReaderStates
      <3>3. reader' = [reader EXCEPT ![w] = r]
          BY <2>3, <3>1, Zenon
      <3>4. ReadersAt({"note"})' = ReadersAt({"note"}) + 1 /\ ReadersAt({"note"}) \in Nat
          BY <1>0, <2>1, <3>2, <3>3, ReadersMove
      <3>5. counter'["received"] = counter["received"] + 1
          BY <1>0, <2>3, CountTyped DEF Counters
      <3>6. Noted' = Noted
          BY <2>1 DEF Noted
      <3>7. Cardinality(Noted) \in Nat
          BY FS_CardinalityType DEF NotedInv
      <3>8. reader'[w] = r /\ \A u \in Readers : u # w => reader'[u] = reader[u]
          BY <1>0, <3>3 DEF IdsTypes
      <3>9. \A u \in Readers : reader'[u].pc = "note" => reader'[u].line.form = "event" /\ reader'[u].line.type # ""
          BY <2>3, <3>2, <3>8, Zenon DEF NotedInv
      <3>10. Cardinality(Noted) + ReadersAt({"note"})' = counter'["received"]
        <4>1. Cardinality(Noted) + ReadersAt({"note"}) = counter["received"]
            BY DEF NotedInv
        <4> QED BY <3>4, <3>5, <3>7, <4>1
      <3> QED BY <3>6, <3>9, <3>10, Zenon DEF NotedInv
    <2> QED BY <1>5, <2>2, <2>3 DEF HandleLine, markMalformed
  <1>6. ASSUME NEW w \in Readers, NoteType(w) PROVE NotedInv'
    <2>1. /\ reader[w].pc = "note" /\ note(typeKey(reader[w].line)) /\ UNCHANGED counter
          /\ reader' = [reader EXCEPT ![w].pc = "handle"]
        BY <1>6 DEF NoteType, AtLine
    <2>2. typeKey(reader[w].line) \in Types
      <3>1. reader[w].line \in Lines
          BY <1>0, <2>1 DEF IdsTypes
      <3> QED BY <2>1, <3>1, TypesAssumption DEF NotedInv
    <2>3. types \in [Types -> Nat] /\ IsFiniteSet(Noted)
        BY DEF TypesInv, NotedInv
    <2>4. IsFiniteSet(Noted') /\ Cardinality(Noted') = Cardinality(Noted) + 1
        BY <2>1, <2>2, <2>3, NotesOne
    <2>5. PICK r : r = [reader[w] EXCEPT !.pc = "handle"]
        OBVIOUS
    <2>6. r \in ReaderStates /\ r.pc = "handle"
        BY <1>0, <2>5 DEF ReaderStates
    <2>7. reader' = [reader EXCEPT ![w] = r]
        BY <2>1, <2>5, Zenon
    <2>8. ReadersAt({"note"})' = ReadersAt({"note"}) - 1 /\ ReadersAt({"note"}) \in Nat
        BY <1>0, <2>1, <2>6, <2>7, ReadersMove
    <2>9. reader'[w] = r /\ \A u \in Readers : u # w => reader'[u] = reader[u]
        BY <1>0, <2>7 DEF IdsTypes
    <2>10. \A u \in Readers : reader'[u].pc = "note" => reader'[u].line.form = "event" /\ reader'[u].line.type # ""
        BY <2>6, <2>9 DEF NotedInv
    <2>11. Cardinality(Noted) \in Nat
        BY <2>3, FS_CardinalityType
    <2>12. Cardinality(Noted') + ReadersAt({"note"})' = counter'["received"]
      <3>1. Cardinality(Noted) + ReadersAt({"note"}) = counter["received"]
          BY DEF NotedInv
      <3> QED BY <2>1, <2>4, <2>8, <2>11, <3>1
    <2> QED BY <2>4, <2>10, <2>12, Zenon DEF NotedInv
  <1>7. ASSUME NEW w \in Readers, InsertIDSEvent(w) PROVE NotedInv'
    <2>1. UNCHANGED types /\ reader[w].pc = "handle"
        BY <1>7 DEF InsertIDSEvent, AtLine
    <2>2. CASE UNCHANGED counter /\ reader' = [reader EXCEPT ![w].pc = "count", ![w].id = Len(idsEvents) + 1]
      <3>1. PICK n \in Nat : n = Len(idsEvents)
          BY <1>0 DEF IdsTypes
      <3>2. PICK r : r = [reader[w] EXCEPT !.pc = "count", !.id = n + 1]
          OBVIOUS
      <3>3. r \in ReaderStates /\ r.pc = "count"
        <4>1. reader[w] \in ReaderStates /\ n + 1 \in Nat
            BY <1>0
        <4> QED BY <3>2, <4>1 DEF ReaderStates
      <3>4. reader' = [reader EXCEPT ![w] = r]
        <4>1. reader' = [reader EXCEPT ![w] = [reader[w] EXCEPT !.pc = "count", !.id = n + 1]]
            BY <1>0, <2>2, <3>1 DEF IdsTypes, ReaderStates
        <4> QED BY <3>2, <4>1, Zenon
      <3>5. reader[w].pc # "note" /\ r.pc # "note" /\ counter'["received"] = counter["received"]
          BY <2>1, <2>2, <3>3
      <3> QED BY <1>0, <2>1, <3>3, <3>4, <3>5, AccountStays
    <2>3. CASE Drop(w)
        BY <1>2, <1>3, <2>1, <2>3 DEF Drop, Counters
    <2> QED BY <1>7, <2>2, <2>3 DEF InsertIDSEvent
  <1>8. ASSUME NEW w \in Readers, CountAlert(w) PROVE NotedInv'
    <2>1. UNCHANGED types /\ reader[w].pc = "count" /\ counter'["received"] = counter["received"]
        BY <1>2, <1>8 DEF CountAlert, AtLine, Counters
    <2>2. CASE reader' = [reader EXCEPT ![w].pc = "raise"]
      <3>1. PICK r : r = [reader[w] EXCEPT !.pc = "raise"]
          OBVIOUS
      <3>2. r \in ReaderStates /\ r.pc = "raise"
          BY <1>0, <3>1 DEF ReaderStates
      <3>3. reader' = [reader EXCEPT ![w] = r]
          BY <2>2, <3>1, Zenon
      <3> QED BY <1>0, <2>1, <3>2, <3>3, AccountStays
    <2> QED BY <1>3, <1>8, <2>1, <2>2 DEF CountAlert
  <1>9. ASSUME NEW w \in Readers, RaiseEvent(w) PROVE NotedInv'
    <2>1. UNCHANGED types /\ reader[w].pc = "raise" /\ LineDone(w) /\ (UNCHANGED counter \/ Count("dropped"))
        BY <1>9 DEF RaiseEvent, AtLine, Drop
    <2>2. counter'["received"] = counter["received"]
        BY <1>2, <2>1 DEF Counters
    <2> QED BY <1>3, <2>1, <2>2
  <1>10. ASSUME NEW w \in Readers, HandleName(w) PROVE NotedInv'
    <2>1. UNCHANGED types /\ reader[w].pc \in {"handle", "answers"}
        BY <1>10 DEF HandleName, AtLine
    <2>2. reader[w].line \in Lines /\ reader[w].left \in Int /\ reader[w].line.answers \in Nat
      <3>1. reader[w].line \in Lines
          BY <1>0, <2>1 DEF IdsTypes
      <3> QED BY <1>0, <3>1, SuricataAssumption DEF ReaderStates
    <2>3. PICK left \in Int : LearnName(w, left)
        BY <1>10, <2>2 DEF HandleName
    <2>4. counter'["received"] = counter["received"]
      <3>1. CASE Count("names")
          BY <1>2, <3>1 DEF Counters
      <3>2. CASE counter' = [counter EXCEPT !["names"] = counter["names"] + 1, !["dropped"] = counter["dropped"] + 1]
          BY <1>0, <3>2 DEF IdsTypes, Counters
      <3> QED BY <2>3, <3>1, <3>2 DEF LearnName
    <2>5. CASE reader' = [reader EXCEPT ![w].pc = "answers", ![w].left = left]
      <3>1. PICK r : r = [reader[w] EXCEPT !.pc = "answers", !.left = left]
          OBVIOUS
      <3>2. r \in ReaderStates /\ r.pc = "answers"
          BY <1>0, <3>1 DEF ReaderStates
      <3>3. reader' = [reader EXCEPT ![w] = [reader[w] EXCEPT !.pc = "answers", !.left = left]]
          BY <1>0, <2>5 DEF IdsTypes, ReaderStates
      <3>4. reader' = [reader EXCEPT ![w] = r]
          BY <3>1, <3>3, Zenon
      <3> QED BY <1>0, <2>1, <2>4, <3>2, <3>4, AccountStays
    <2> QED BY <1>3, <2>1, <2>3, <2>4, <2>5 DEF LearnName
  <1>11. ASSUME NEW w \in Readers, HandleNothing(w) PROVE NotedInv'
    <2>1. UNCHANGED <<types, counter>> /\ reader[w].pc = "handle" /\ LineDone(w)
        BY <1>11 DEF HandleNothing, AtLine
    <2> QED BY <1>3, <2>1
  <1>12. CASE UNCHANGED idsVars
    <2>1. UNCHANGED <<reader, types, counter>>
        BY <1>12 DEF idsVars
    <2> QED BY <1>4, <2>1, Zenon
  <1> QED
      BY <1>5, <1>6, <1>7, <1>8, <1>9, <1>10, <1>11, <1>12, Zenon DEF SuricataNext

(* Every event received has been counted in the table of types once its    *)
(* reader has noted it, under its own type or in the row for the rest,     *)
(* whichever types come in which order and however many readers note them  *)
(* at the same time, and the table keeps to maxTypes (note, HandleLine).   *)
THEOREM EventsAreAccountedFor == SuricataSpec => []TypesAccountForEvents
  <1>1. NotedInv /\ TypesStayBounded => TypesAccountForEvents
      BY Zenon DEF NotedInv, TypesAccountForEvents
  <1> QED
      BY <1>1, IdsInitially, TypesInitially, NotedInitially, IdsStep, TypesStep, NotedStep, TypesBound, PTL
      DEF SuricataSpec
=============================================================================
