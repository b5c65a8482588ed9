------------------------------- MODULE TlsCA -------------------------------
(***************************************************************************)
(* The server's own certificate authority and its server certificate:      *)
(* creation, storage, renewal (backend/internal/tlsca/tlsca.go).           *)
(*                                                                         *)
(* Time is counted in days; a certificate is known by its issuer, hosts    *)
(* and last day.  Every read and write of the settings table may fail, and *)
(* the process may stop between any two.                                   *)
(***************************************************************************)
EXTENDS Integers

CONSTANTS
    HostLists,     \* values of TLS_HOSTS, normalized
    CaValidity,    \* days of a new CA: 10 years
    LeafValidity,  \* days of a new server certificate: 397
    RenewBefore,   \* days before its end when it is renewed: 30
    MaxDay,        \* bound: days
    MaxStops       \* bound: failing store calls and stops of the process

ASSUME TlsAssumption ==
    /\ RenewBefore \in Nat \ {0} /\ LeafValidity \in Nat /\ RenewBefore < LeafValidity
    /\ CaValidity \in Nat \ {0} /\ MaxDay \in Nat /\ MaxStops \in Nat

VARIABLES
    day,
    tlsPc,       \* "off", the two halves of New, or "on"
    tlsHosts,    \* Manager.hosts
    storedCA,    \* settings["tls_ca"]
    storedLeaf,  \* settings["tls_server"]
    ca,          \* Manager.caCert
    leaf,        \* Manager.leafX, what GetCertificate serves
    checked,     \* today's tick of Run is over
    missed,      \* history: renewals in a row that failed
    stops

tlsVars == <<day, tlsPc, tlsHosts, storedCA, storedLeaf, ca, leaf, checked, missed, stops>>

NoCert == [id |-> 0, issuer |-> 0, hosts |-> {}, last |-> 0]
Stop == stops < MaxStops /\ stops' = stops + 1

TlsInit ==
    /\ day = 1 /\ tlsPc = "off" /\ tlsHosts = {}
    /\ storedCA = NoCert /\ storedLeaf = NoCert /\ ca = NoCert /\ leaf = NoCert
    /\ checked = TRUE /\ missed = 0 /\ stops = 0
---------------------------------------------------------------------------
(* New: normalizeHosts, then the two halves.                               *)
NewManager ==
    /\ tlsPc = "off"
    /\ tlsHosts' \in HostLists
    /\ tlsPc' = "ca"
    /\ UNCHANGED <<day, storedCA, storedLeaf, ca, leaf, checked, missed, stops>>

Usable(c) == c # NoCert /\ day < c.last
NewCA == [id |-> storedCA.id + 1, issuer |-> storedCA.id + 1, hosts |-> {}, last |-> day + CaValidity]

loadOrCreateCA ==
    /\ tlsPc = "ca"
    /\ storedCA' = IF Usable(storedCA) THEN storedCA ELSE NewCA
    /\ ca' = storedCA'
    /\ tlsPc' = "leaf"
    /\ UNCHANGED <<day, tlsHosts, storedLeaf, leaf, checked, missed, stops>>

needsRenewalExpired(c, hosts) ==    \* mutant: renewed once it has expired
    c = NoCert \/ day > c.last \/ c.issuer # ca.id \/ hosts # tlsHosts

(* No certificate is from the future here: the clock does not go back.     *)
needsRenewal(c, hosts) ==
    \/ c = NoCert \/ day + RenewBefore > c.last
    \/ c.issuer # ca.id
    \/ hosts # tlsHosts

(* Stored before it is served.                                             *)
issueLeaf ==
    /\ storedLeaf' = [id |-> storedLeaf.id + 1, issuer |-> ca.id, hosts |-> tlsHosts, last |-> day + LeafValidity]
    /\ leaf' = storedLeaf'

setLeaf == leaf' = storedLeaf /\ UNCHANGED storedLeaf

ensureLeaf ==
    /\ tlsPc = "leaf"
    /\ IF needsRenewal(storedLeaf, storedLeaf.hosts) THEN issueLeaf ELSE setLeaf
    /\ tlsPc' = "on" /\ checked' = TRUE /\ missed' = 0
    /\ UNCHANGED <<day, tlsHosts, storedCA, ca, stops>>

(* An error in New ends the process, like any other stop.                  *)
StopManager ==
    /\ tlsPc # "off"
    /\ Stop
    /\ tlsPc' = "off" /\ ca' = NoCert /\ leaf' = NoCert
    /\ UNCHANGED <<day, tlsHosts, storedCA, storedLeaf, checked, missed>>

(* Run looks once a day; an error is logged and the old one stays.         *)
RenewalTick ==
    /\ tlsPc = "on" /\ ~checked
    /\ \/ needsRenewal(leaf, tlsHosts) /\ issueLeaf /\ missed' = 0 /\ UNCHANGED stops
       \/ ~needsRenewal(leaf, tlsHosts) /\ UNCHANGED <<storedLeaf, leaf, missed, stops>>
       \/ needsRenewal(leaf, tlsHosts) /\ Stop /\ missed' = missed + 1 /\ UNCHANGED <<storedLeaf, leaf>>
    /\ checked' = TRUE
    /\ UNCHANGED <<day, tlsPc, tlsHosts, storedCA, ca>>

NextDay ==
    /\ day < MaxDay /\ tlsPc \in {"off", "on"}
    /\ tlsPc = "on" => checked
    /\ day' = day + 1 /\ checked' = FALSE
    /\ UNCHANGED <<tlsPc, tlsHosts, storedCA, storedLeaf, ca, leaf, missed, stops>>

TlsNext == NewManager \/ loadOrCreateCA \/ ensureLeaf \/ StopManager \/ RenewalTick \/ NextDay
TlsSpec == TlsInit /\ [][TlsNext]_tlsVars
---------------------------------------------------------------------------
(* Properties *)

(* What is served is the stored certificate, signed by the CA that clients *)
(* can fetch, for the configured hosts, and it has not expired unless as   *)
(* many renewals in a row have failed as there are days before its end     *)
(* (ensureLeaf, Run, needsRenewal).                                        *)
ServedLeafFits ==
    tlsPc = "on" =>
        /\ ca = storedCA /\ leaf = storedLeaf
        /\ leaf.issuer = ca.id /\ leaf.hosts = tlsHosts
        /\ missed < RenewBefore => day <= leaf.last
=============================================================================
