------------------------------- MODULE Feeds -------------------------------
(***************************************************************************)
(* Threat feeds and the catalogues of abused system binaries: download,    *)
(* parsing, replacement and pruning (backend/internal/feeds/feeds.go,      *)
(* feeds/lolbins.go, db/threatlists.go, db/identity.go).                   *)
(*                                                                         *)
(* One goroutine refreshes everything on a ticker.  A body is a set of     *)
(* lines, a line a sequence of columns; a column is a network or a word.   *)
(***************************************************************************)
EXTENDS Integers, Sequences, FiniteSets

CONSTANTS
    FeedNames,    \* names that THREAT_FEEDS may have
    Catalogues,   \* "lolbas" and "gtfobins"
    Nets,         \* networks and addresses
    Private,      \* the ones whose first address is private, loopback, multicast, unspecified or link-local
    Bodies,       \* what the server of a feed may answer with
    Entries,      \* the executables a catalogue may list
    Nameless,     \* the entry whose name is empty
    LOLBinName,   \* the name an entry is stored under: without path, case and .exe, so perhaps ""
    MinEntries,   \* entries a catalogue needs: 20
    Every,        \* ticks between two refreshes of the catalogues: 24 h
    MaxRestarts   \* bound: restarts of the server

ASSUME FeedsAssumption ==
    /\ Private \subseteq Nets /\ Nameless \subseteq Entries /\ LOLBinName \in [Entries -> STRING]
    /\ MinEntries \in Nat \ {0} /\ Every \in Nat /\ MaxRestarts \in Nat

VARIABLES
    configured,  \* Fetcher.Feeds: THREAT_FEEDS of this process
    urls,        \* the catalogues that have a URL
    lists,       \* the threat_lists table: networks of each list
    lolbins,     \* the lolbins table: names of each catalogue
    round,       \* the refresh under way
    lolAge,      \* ticks since LOLBins.last, Every when it is zero
    feedResults, \* Fetcher.results: outcome of each feed and catalogue
    feedRestarts,
    pruned       \* history: the last refresh of this process ended, and its pruning worked

feedVars == <<configured, urls, lists, lolbins, round, lolAge, feedResults, feedRestarts, pruned>>

Waiting == [pc |-> "wait", left |-> {}]
Sources == FeedNames \cup Catalogues
---------------------------------------------------------------------------
(* Parsing *)

(* The first column that is an address decides, and a line whose first     *)
(* address is private is dropped.  Only the first address of a network     *)
(* counts: a wide one may contain private ranges, and reserved ranges that *)
(* are none of the five kinds stay in the list.                            *)
Parse(body) ==
    {n \in Nets \ Private :
        \E line \in body : LET cols == SelectSeq(line, LAMBDA c : c \in Nets)
                           IN  cols # <<>> /\ Head(cols) = n}

(* What each parser makes of an answer: LOLBAS skips an entry without a    *)
(* name, GTFOBins keeps it.                                                *)
CatalogueBodies == SUBSET Entries
ParseLOLBAS(cat) == cat \ Nameless
ParseGTFOBins(cat) == cat
---------------------------------------------------------------------------
FeedsInit ==
    /\ configured = FeedNames /\ urls = Catalogues
    /\ lists = [f \in FeedNames |-> {}]
    /\ lolbins = [c \in Catalogues |-> {}]
    /\ round = Waiting /\ lolAge = Every
    /\ feedResults = [s \in Sources |-> "none"]
    /\ feedRestarts = 0 /\ pruned = FALSE

(* main starts the fetcher only if it has something to fetch.              *)
FetcherRuns == configured # {} \/ urls # {}

(* The ticker (and the first refresh, at once).                            *)
RefreshAll ==
    /\ FetcherRuns /\ round = Waiting
    /\ round' = [pc |-> "feeds", left |-> configured]
    /\ lolAge' = IF lolAge < Every THEN lolAge + 1 ELSE lolAge
    /\ UNCHANGED <<configured, urls, lists, lolbins, feedResults, feedRestarts, pruned>>

(* ReplaceThreatList is one transaction: it replaces the list or, when it  *)
(* fails, leaves it.                                                       *)
ReplaceThreatList(f, nets) == lists' = [lists EXCEPT ![f] = nets]

Outcome(s, r) == feedResults' = [feedResults EXCEPT ![s] = r]

FetchUnchecked(f) ==            \* mutant: an empty answer replaces the list
    \E body \in Bodies : ReplaceThreatList(f, Parse(body)) /\ Outcome(f, "ok")

(* No answer, an answer other than 200 and a failed transaction are errors;*)
(* so is a body without an entry.                                          *)
Fetch(f) ==
    \/ \E body \in Bodies :
         /\ Parse(body) # {}
         /\ ReplaceThreatList(f, Parse(body)) /\ Outcome(f, "ok")
    \/ \E body \in Bodies : Parse(body) = {} /\ Outcome(f, "error") /\ UNCHANGED lists
    \/ Outcome(f, "error") /\ UNCHANGED lists

FetchFeed(f) ==
    /\ round.pc = "feeds" /\ f \in round.left
    /\ Fetch(f)
    /\ round' = [round EXCEPT !.left = @ \ {f}]
    /\ UNCHANGED <<configured, urls, lolbins, lolAge, feedRestarts, pruned>>

(* LOLBins.Due, and Refresh stamps the time before it fetches anything.    *)
RefreshLOLBins ==
    /\ round.pc = "feeds" /\ round.left = {}
    /\ IF urls # {} /\ lolAge >= Every
       THEN round' = [pc |-> "catalogues", left |-> urls] /\ lolAge' = 0
       ELSE round' = [round EXCEPT !.pc = "prune"] /\ UNCHANGED lolAge
    /\ UNCHANGED <<configured, urls, lists, lolbins, feedResults, feedRestarts, pruned>>

(* One transaction.  Entries that come to the same name are merged, one    *)
(* that comes to none is left out: what is stored may be shorter than what *)
(* was counted.                                                            *)
ReplaceLOLBins(c, items) == lolbins' = [lolbins EXCEPT ![c] = {LOLBinName[i] : i \in items} \ {""}]

FetchCatalogue(c) ==
    /\ round.pc = "catalogues" /\ c \in round.left
    /\ \/ \E cat \in CatalogueBodies :
            LET items == IF c = "lolbas" THEN ParseLOLBAS(cat) ELSE ParseGTFOBins(cat)
            IN  IF Cardinality(items) >= MinEntries THEN ReplaceLOLBins(c, items) /\ Outcome(c, "ok")
                ELSE Outcome(c, "error") /\ UNCHANGED lolbins
       \/ Outcome(c, "error") /\ UNCHANGED lolbins
    /\ round' = IF round.left = {c} THEN [pc |-> "prune", left |-> {}] ELSE [round EXCEPT !.left = @ \ {c}]
    /\ UNCHANGED <<configured, urls, lists, lolAge, feedRestarts, pruned>>

(* DeleteThreatListsExcept(names), only when some feed is configured; an   *)
(* error is logged.                                                        *)
PruneListsNever ==              \* mutant: dropped feeds are not pruned
    /\ round.pc = "prune"
    /\ round' = Waiting /\ pruned' = TRUE
    /\ UNCHANGED <<configured, urls, lists, lolbins, lolAge, feedResults, feedRestarts>>

PruneLists ==
    /\ round.pc = "prune"
    /\ \/ /\ lists' = IF configured # {} THEN [f \in FeedNames |-> IF f \in configured THEN lists[f] ELSE {}] ELSE lists
          /\ pruned' = TRUE
       \/ configured # {} /\ pruned' = FALSE /\ UNCHANGED lists
    /\ round' = Waiting
    /\ UNCHANGED <<configured, urls, lolbins, lolAge, feedResults, feedRestarts>>

(* A new process, perhaps with another configuration; the tables stay.     *)
NewFetcher ==
    /\ feedRestarts < MaxRestarts /\ feedRestarts' = feedRestarts + 1
    /\ configured' \in SUBSET FeedNames
    /\ urls' \in {{}, Catalogues}
    /\ round' = Waiting /\ lolAge' = Every
    /\ feedResults' = [s \in Sources |-> "none"]
    /\ pruned' = FALSE
    /\ UNCHANGED <<lists, lolbins>>

FetcherStep ==
    \/ RefreshAll \/ RefreshLOLBins \/ PruneLists
    \/ \E f \in FeedNames : FetchFeed(f)
    \/ \E c \in Catalogues : FetchCatalogue(c)

FeedsNext == FetcherStep \/ NewFetcher
FeedsSpec == FeedsInit /\ [][FeedsNext]_feedVars
---------------------------------------------------------------------------
(* Properties *)

(* A feed that answers with nothing usable, or not at all, never empties   *)
(* the list it filled before, nor does a restart ("keeping previous list", *)
(* feeds.go, Fetch).                                                       *)
OutageKeepsLists == [][\A f \in configured : lists[f] # {} => lists'[f] # {}]_feedVars

(* Between two refreshes of a process that has at least one feed, only     *)
(* lists that are still configured match traffic (RefreshAll's pruning).   *)
(* With no feed at all RefreshAll prunes nothing, and the lists of an      *)
(* earlier configuration go on matching.                                   *)
OnlyConfiguredMatch ==
    round = Waiting /\ pruned /\ configured # {} =>
        \A f \in FeedNames : lists[f] # {} => f \in configured
=============================================================================
