------------------------------ MODULE Suricata ------------------------------
(***************************************************************************)
(* The Suricata listener: syslog lines over UDP and TCP, their counters,   *)
(* the stored events, the names learnt and the findings raised             *)
(* (backend/internal/suricata/suricata.go, db/ids.go).                     *)
(*                                                                         *)
(* One goroutine reads UDP and one each TCP connection; they share atomic  *)
(* counters, the table of types under a mutex, and the database.           *)
(***************************************************************************)
EXTENDS Integers, Sequences, FiniteSets

CONSTANTS
    Readers,    \* goroutines that read lines
    Lines,      \* lines they may read
    Types,      \* event types, and "other"
    MaxTypes,   \* rows of the table of types: 24
    HasSink,    \* the rules engine runs
    MaxLines,   \* bound: lines read
    MaxRefused  \* bound: failing database calls

ASSUME SuricataAssumption ==
    /\ IsFiniteSet(Readers) /\ \A line \in Lines : line.answers \in Nat /\ (line.answers > 0 => line.reply)
    /\ "other" \in Types /\ MaxTypes \in Nat \ {0} /\ HasSink \in BOOLEAN
    /\ MaxLines \in Nat /\ MaxRefused \in Nat

VARIABLES
    reader,    \* what each goroutine is doing
    counter,   \* the atomic counters
    types,     \* Listener.types: how often each type was seen
    idsEvents, \* the ids_events table
    ipNames,   \* the ip_names table: hits
    raised,    \* findings handed to the rules engine
    lines, refused

idsVars == <<reader, counter, types, idsEvents, ipNames, raised, lines, refused>>

Reading == [pc |-> "read", line |-> 0, left |-> 0, id |-> 0]
Counters == {"received", "alerts", "names", "dropped", "malformed", "ignored"}
Count(c) == counter' = [counter EXCEPT ![c] = @ + 1]
Refuse == refused < MaxRefused /\ refused' = refused + 1

SuricataInit ==
    /\ reader = [w \in Readers |-> Reading]
    /\ counter = [c \in Counters |-> 0]
    /\ types = [t \in Types |-> 0]
    /\ idsEvents = <<>> /\ ipNames = 0 /\ raised = {}
    /\ lines = 0 /\ refused = 0

AtLine(w, pc) == reader[w].pc = pc
LineDone(w) == reader' = [reader EXCEPT ![w] = Reading]
---------------------------------------------------------------------------
(* A line is plain text, text with a brace, a record cut short, a record   *)
(* that does not parse, or an event; only an event has the other fields.   *)
ExtractJSON(line) == line.form \in {"broken", "event"}

(* DNS is split: only answers carry names, though perhaps no address.      *)
typeKey(ev) ==
    IF ev.type # "dns" THEN ev.type
    ELSE IF ev.body /\ ev.reply THEN "dns.answer" ELSE "dns.query"

(* Types has the type of every event.                                      *)
ASSUME TypesAssumption ==
    \A line \in Lines : line.form = "event" /\ line.type # "" => typeKey(line) \in Types

(* A new type goes to "other" once the table is full.                      *)
noteForgetful(key) ==           \* mutant: "other" starts again each time
    LET known == {t \in Types : types[t] > 0}
        full  == types[key] = 0 /\ Cardinality(known) >= MaxTypes
    IN  types' = IF full THEN [types EXCEPT !["other"] = 1] ELSE [types EXCEPT ![key] = @ + 1]

note(key) ==
    LET known == {t \in Types : types[t] > 0}
        row   == IF types[key] = 0 /\ Cardinality(known) >= MaxTypes THEN "other" ELSE key
    IN  types' = [types EXCEPT ![row] = @ + 1]

markMalformed == Count("malformed")

HandleLine(w, line) ==
    /\ AtLine(w, "read")
    /\ lines < MaxLines /\ lines' = lines + 1
    /\ \/ line.form \in {"plain", "braced"} /\ Count("ignored") /\ UNCHANGED reader
       \/ line.form \in {"cut", "broken"} /\ markMalformed /\ UNCHANGED reader
       \/ line.form = "event" /\ line.type = "" /\ UNCHANGED <<counter, reader>>
       \/ /\ ExtractJSON(line) /\ line.form = "event" /\ line.type # ""
          /\ Count("received")
          /\ reader' = [reader EXCEPT ![w] = [pc |-> "note", line |-> line, left |-> 0, id |-> 0]]
    /\ UNCHANGED <<types, idsEvents, ipNames, raised, refused>>

NoteType(w) ==
    /\ AtLine(w, "note")
    /\ note(typeKey(reader[w].line))
    /\ reader' = [reader EXCEPT ![w].pc = "handle"]
    /\ UNCHANGED <<counter, idsEvents, ipNames, raised, lines, refused>>

(* An error of handle drops the event and is shown.                        *)
Drop(w) == Refuse /\ Count("dropped") /\ LineDone(w)
---------------------------------------------------------------------------
(* The machine of the network is the host when only the other side is not. *)
finding(ev, id) ==
    [id |-> id, sid |-> ev.sid,
     severity |-> CASE ev.severity = 1 -> "critical" [] ev.severity = 2 -> "warning" [] OTHER -> "info",
     host |-> IF ~ev.srcLocal /\ ev.dstLocal THEN "dst" ELSE "src"]

(* An alert is stored, counted and raised, in this order.                  *)
InsertIDSEvent(w) ==
    LET ev == reader[w].line
    IN  /\ AtLine(w, "handle") /\ ev.type = "alert" /\ ev.body
        /\ \/ /\ idsEvents' = Append(idsEvents, ev)
              /\ reader' = [reader EXCEPT ![w].pc = "count", ![w].id = Len(idsEvents) + 1]
              /\ UNCHANGED <<counter, refused>>
           \/ Drop(w) /\ UNCHANGED idsEvents
        /\ UNCHANGED <<types, ipNames, raised, lines>>

CountAlert(w) ==
    /\ AtLine(w, "count")
    /\ Count("alerts")
    /\ IF HasSink THEN reader' = [reader EXCEPT ![w].pc = "raise"] ELSE LineDone(w)
    /\ UNCHANGED <<types, idsEvents, ipNames, raised, lines, refused>>

RaiseLastEvent(w) ==            \* mutant: the link takes the newest row
    /\ AtLine(w, "raise")
    /\ raised' = raised \cup {finding(reader[w].line, Len(idsEvents))}
    /\ LineDone(w)
    /\ UNCHANGED <<counter, types, idsEvents, ipNames, lines, refused>>

RaiseEvent(w) ==
    /\ AtLine(w, "raise")
    /\ \/ /\ raised' = raised \cup {finding(reader[w].line, reader[w].id)}
          /\ LineDone(w)
          /\ UNCHANGED <<counter, refused>>
       \/ Drop(w) /\ UNCHANGED raised
    /\ UNCHANGED <<types, idsEvents, ipNames, lines>>

(* One name of a dns, tls or http event is counted and stored; an error    *)
(* gives up the answers that are left.                                     *)
LearnName(w, left) ==
    \/ /\ ipNames' = ipNames + 1 /\ Count("names") /\ UNCHANGED refused
       /\ IF left = 0 THEN LineDone(w) ELSE reader' = [reader EXCEPT ![w].pc = "answers", ![w].left = left]
    \/ /\ Refuse /\ LineDone(w) /\ UNCHANGED ipNames
       /\ counter' = [counter EXCEPT !["names"] = @ + 1, !["dropped"] = @ + 1]

Resolves(ev) == ev.type = "dns" /\ ev.body /\ ev.answers > 0
Named(ev) ==
    \/ ev.type = "tls" /\ ev.body
    \/ ev.type = "http" /\ ev.body /\ ~ev.literal   \* not a Host header that is an address

HandleName(w) ==
    LET ev == reader[w].line
    IN  /\ \/ AtLine(w, "handle") /\ Named(ev) /\ LearnName(w, 0)
           \/ AtLine(w, "handle") /\ Resolves(ev) /\ LearnName(w, ev.answers - 1)
           \/ AtLine(w, "answers") /\ LearnName(w, reader[w].left - 1)
        /\ UNCHANGED <<types, idsEvents, raised, lines>>

(* Everything else is only counted.                                        *)
HandleNothing(w) ==
    LET ev == reader[w].line
    IN  /\ AtLine(w, "handle")
        /\ ~(ev.type = "alert" /\ ev.body) /\ ~Named(ev) /\ ~Resolves(ev)
        /\ LineDone(w)
        /\ UNCHANGED <<counter, types, idsEvents, ipNames, raised, lines, refused>>

SuricataNext ==
    \E w \in Readers :
        \/ \E line \in Lines : HandleLine(w, line)
        \/ NoteType(w) \/ InsertIDSEvent(w) \/ CountAlert(w) \/ RaiseEvent(w) \/ HandleName(w) \/ HandleNothing(w)

SuricataSpec == SuricataInit /\ [][SuricataNext]_idsVars
---------------------------------------------------------------------------
(* Properties *)

ReadersAt(pcs) == Cardinality({w \in Readers : reader[w].pc \in pcs})

(* The table keeps to its bound and one row for the rest, whichever types  *)
(* come in which order, "other" as a type of its own among them.           *)
TypesStayBounded == Cardinality({t \in Types : types[t] > 0}) <= MaxTypes + 1

(* The events the table has counted: the first, the second, ... of a type. *)
Noted == UNION {{<<t, n>> : n \in 1..types[t]} : t \in Types}

(* Every event received is in the table of types once its reader has noted *)
(* it, however many readers fill the table (note, maxTypes), and the table *)
(* keeps to its bound.                                                     *)
TypesAccountForEvents ==
    /\ Cardinality(Noted) + ReadersAt({"note"}) = counter["received"]
    /\ TypesStayBounded

(* A finding links back to the stored event it was made from, and alerts   *)
(* are counted exactly when they are stored ("lets the alert link back to  *)
(* the exact stored event", handle).                                       *)
FindingsLinkToEvents ==
    /\ \A f \in raised : f.id \in 1..Len(idsEvents) /\ f = finding(idsEvents[f.id], f.id)
    /\ Len(idsEvents) = counter["alerts"] + ReadersAt({"count"})
    /\ Cardinality(raised) <= counter["alerts"]
=============================================================================
