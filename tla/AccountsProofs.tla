--------------------------- MODULE AccountsProofs ---------------------------
(***************************************************************************)
(* Proofs about accounts, sessions, login and the address rules, for every *)
(* number of accounts, clients, tokens and addresses and every order of    *)
(* requests, failing writes and expiries.                                  *)
(***************************************************************************)
EXTENDS Accounts, SequenceTheorems, FiniteSetTheorems, TLAPS

UserRows == [state : {"absent", "enabled", "disabled", "deleted"}, admin : BOOLEAN, must : BOOLEAN, pw : Nat]
SessionRows == [user : Users \cup {None}, pw : Int, live : BOOLEAN]
LoginPcs == {"gate", "check", "good", "bad", "disabled", "maybelock"}
HandlerPcs == AdminOps \cup OwnOps \cup {"dodelete", "setpassword", "revoke"}
Requests == [pc : {"none"} \cup LoginPcs \cup HandlerPcs, me : Users \cup {None}, user : Users \cup {None}, pw : Int]

(* What a request may still rely on when its next step comes: an account   *)
(* is not taken back into the table, a password only moves on.             *)
Sane(r) ==
    /\ r.pc \in LoginPcs \cup UserOps \cup {"dodelete"} => r.user \in Users
    /\ r.pc \in HandlerPcs => r.me \in Users
    /\ r.me # None => users[r.me].state # "absent"
    /\ r.pc = "good" => users[r.user].state # "absent" /\ (Exists(r.user) => r.pw <= users[r.user].pw)
    /\ r.pc \in {"disable", "delete", "dodelete"} => r.user # r.me

(* A session is of an account that exists and of a password it has had.    *)
Owned(s) == s = NoSession \/ (s.user \in Users /\ Exists(s.user) /\ s.pw <= users[s.user].pw)

UsersTyped    == users \in [Users -> UserRows]
SessionsTyped == sessions \in [Tokens -> SessionRows] /\ \A t \in Tokens : Owned(sessions[t])
AddressTyped  ==
    /\ attempts \in [Addresses -> Seq({"bad", "disabled", "locked"})]
    /\ rules \in [Addresses -> {"none", "allow", "deny", "auto"}]
RequestsTyped == req \in [Clients -> Requests] /\ \A c \in Clients : Sane(req[c])
RestTyped ==
    /\ cookie \in [Clients -> Tokens \cup {None}]
    /\ begun \in 0..MaxRequests /\ misses \in 0..MaxMisses
    /\ stale \in BOOLEAN /\ raced \subseteq Tokens

TypeInv == UsersTyped /\ SessionsTyped /\ AddressTyped /\ RequestsTyped /\ RestTyped
---------------------------------------------------------------------------
(* Lemmas about the parts *)

(* No account comes back and no password goes back.                        *)
Grow ==
    \A u \in Users : users[u].state # "absent" =>
        /\ users'[u].state # "absent"
        /\ Exists(u)' => Exists(u) /\ users'[u].pw \in Nat /\ users[u].pw <= users'[u].pw

(* What the run checks follows.                                            *)
LEMMA TypesFollow == TypeInv => AccountsTypeOK
  <1> SUFFICES ASSUME TypeInv PROVE AccountsTypeOK
      OBVIOUS
  <1>1. \A c \in Clients : req[c].me = None \/ users[req[c].me].state # "absent"
      BY DEF TypeInv, RequestsTyped, Sane
  <1>2. \A t \in Tokens :
         \/ sessions[t] = NoSession
         \/ sessions[t].user \in Users /\ Exists(sessions[t].user) /\ sessions[t].pw <= users[sessions[t].user].pw
      BY DEF TypeInv, SessionsTyped, Owned
  <1> QED
      BY <1>1, <1>2, Zenon DEF TypeInv, UsersTyped, UserRows, AddressTyped, RestTyped, AccountsTypeOK

(* Nothing happens to the accounts and the sessions.                       *)
LEMMA TablesKept ==
    ASSUME TypeInv, users' = users, sessions' = sessions
    PROVE  UsersTyped' /\ SessionsTyped' /\ Grow
  <1>1. UsersTyped' /\ SessionsTyped'
      BY DEF TypeInv, UsersTyped, SessionsTyped, Owned, Exists
  <1>2. \A u \in Users : users[u].pw \in Nat
      BY DEF TypeInv, UsersTyped, UserRows
  <1> QED
      BY <1>1, <1>2 DEF Grow, Exists

(* The accounts stay and some sessions end, or only stop being valid.      *)
LEMMA SessionsEnd ==
    ASSUME TypeInv, users' = users, sessions' \in [Tokens -> SessionRows],
           \A t \in Tokens : sessions'[t] = NoSession \/ (sessions[t] # NoSession /\ sessions'[t].user = sessions[t].user /\ sessions'[t].pw = sessions[t].pw)
    PROVE  UsersTyped' /\ SessionsTyped' /\ Grow
  <1>1. UsersTyped' /\ Grow
    <2>1. \A u \in Users : users[u].pw \in Nat
        BY DEF TypeInv, UsersTyped, UserRows
    <2> QED BY <2>1 DEF TypeInv, UsersTyped, Grow, Exists
  <1>2. ASSUME NEW t \in Tokens PROVE Owned(sessions[t])'
      BY DEF TypeInv, SessionsTyped, Owned, Exists
  <1> QED
      BY <1>1, <1>2 DEF SessionsTyped

(* NoSession is a row, and so is one that stops being valid.               *)
LEMMA SessionTyped ==
    /\ NoSession \in SessionRows /\ NoSession.user = None /\ NoSession.live = FALSE
    /\ \A s \in SessionRows : [s EXCEPT !.live = FALSE] \in SessionRows
    /\ \A u \in Users, p \in Int : [user |-> u, pw |-> p, live |-> TRUE] \in SessionRows
  <1>1. NoSession \in SessionRows /\ NoSession.user = None /\ NoSession.live = FALSE
      BY DEF NoSession, SessionRows
  <1>2. \A s \in SessionRows : [s EXCEPT !.live = FALSE] \in SessionRows
      BY DEF SessionRows
  <1>3. \A u \in Users, p \in Int : [user |-> u, pw |-> p, live |-> TRUE] \in SessionRows
      BY DEF SessionRows
  <1> QED
      BY <1>1, <1>2, <1>3

(* The addresses are not touched.                                          *)
LEMMA AddressesKept == ASSUME TypeInv, UNCHANGED <<attempts, rules>> PROVE AddressTyped'
  BY DEF TypeInv, AddressTyped

(* A write fails or does not.                                              *)
LEMMA MissesBounded ==
    ASSUME TypeInv, Miss \/ UNCHANGED misses PROVE misses' \in 0..MaxMisses
  BY AccountsAssumption DEF TypeInv, RestTyped, Miss

(* The rest of the state is not touched.                                   *)
LEMMA RestKept ==
    ASSUME TypeInv, UNCHANGED <<cookie, begun, stale, raced>>, Miss \/ UNCHANGED misses
    PROVE  RestTyped'
  <1>1. misses' \in 0..MaxMisses
      BY MissesBounded
  <1> QED
      BY <1>1, Zenon DEF TypeInv, RestTyped

(* One request moves on or ends; the accounts only grow.                   *)
LEMMA RequestMoves ==
    ASSUME TypeInv, Grow, NEW c \in Clients, NEW r \in Requests, req' = [req EXCEPT ![c] = r], Sane(r)'
    PROVE  RequestsTyped'
  <1>1. /\ req' \in [Clients -> Requests] /\ req'[c] = r
        /\ \A d \in Clients : d # c => req'[d] = req[d]
      BY DEF TypeInv, RequestsTyped
  <1>2. ASSUME NEW d \in Clients, d # c PROVE Sane(req[d])'
    <2>1. req'[d] = req[d] /\ req[d] \in Requests /\ Sane(req[d])
        BY <1>1, <1>2 DEF TypeInv, RequestsTyped
    <2>2. \A u \in Users : users[u].pw \in Nat
        BY DEF TypeInv, UsersTyped, UserRows
    <2>3. req[d].me # None => req[d].me \in Users /\ users'[req[d].me].state # "absent"
        BY <2>1 DEF Sane, Grow, Requests
    <2>4. ASSUME req[d].pc = "good"
          PROVE  /\ users'[req[d].user].state # "absent"
                 /\ Exists(req[d].user)' => req[d].pw <= users'[req[d].user].pw
      <3>1. req[d].user \in Users /\ users[req[d].user].state # "absent"
            /\ (Exists(req[d].user) => req[d].pw <= users[req[d].user].pw)
          BY <2>1, <2>4 DEF Sane, LoginPcs
      <3> QED BY <2>1, <2>2, <3>1 DEF Grow, Exists, Requests
    <2> QED BY <2>1, <2>3, <2>4 DEF Sane, Exists
  <1> QED
      BY <1>1, <1>2 DEF RequestsTyped

(* The request ends.                                                       *)
LEMMA RequestEnds ==
    ASSUME TypeInv, Grow, NEW c \in Clients, Done(c) PROVE RequestsTyped'
  <1>1. NoRequest \in Requests /\ Sane(NoRequest)'
      BY DEF NoRequest, Requests, Sane, LoginPcs, HandlerPcs, AdminOps, UserOps, RuleOps, OwnOps
  <1> QED
      BY <1>1, RequestMoves DEF Done

(* The request goes on.                                                    *)
LEMMA RequestGoesOn ==
    ASSUME TypeInv, Grow, NEW c \in Clients, NEW pc \in LoginPcs \cup HandlerPcs, Goto(c, pc),
           pc \in HandlerPcs => req[c].pc \in HandlerPcs,
           pc \in LoginPcs => req[c].pc \in LoginPcs,
           pc \notin {"good", "disable", "delete"} \cup UserOps,
           pc = "dodelete" => req[c].pc = "delete"
    PROVE  RequestsTyped'
  <1> DEFINE r == [req[c] EXCEPT !.pc = pc]
  <1>1. req[c] \in Requests /\ Sane(req[c])
      BY DEF TypeInv, RequestsTyped
  <1>2. r \in Requests /\ r.pc = pc /\ r.me = req[c].me /\ r.user = req[c].user
      BY <1>1 DEF Requests
  <1>3. req' = [req EXCEPT ![c] = r]
      BY DEF Goto
  <1>4. PICK q : q = r
      OBVIOUS
  <1> HIDE DEF r
  <1>5. /\ q.pc \in LoginPcs \cup UserOps \cup {"dodelete"} => q.user \in Users
        /\ q.pc \in HandlerPcs => q.me \in Users
        /\ q.pc \in {"disable", "delete", "dodelete"} => q.user # q.me
        /\ q.pc # "good"
      BY <1>1, <1>2, <1>4 DEF Sane, UserOps
  <1>6. q.me # None => q.me \in Users /\ users'[q.me].state # "absent"
      BY <1>1, <1>2, <1>4 DEF Sane, Grow, Requests
  <1>7. Sane(q)'
      BY <1>5, <1>6 DEF Sane
  <1> QED
      BY <1>2, <1>3, <1>4, <1>7, RequestMoves
---------------------------------------------------------------------------
(* Types *)

(* The rows that are written are rows.                                     *)
LEMMA UserTyped ==
    /\ Absent \in UserRows /\ Absent.state = "absent" /\ Gone \in UserRows /\ Gone.state = "deleted"
    /\ EnsureAdmin \in UserRows /\ EnsureAdmin.state = "enabled" /\ EnsureAdmin.pw = 0
    /\ [EnsureAdmin EXCEPT !.must = FALSE] \in UserRows
    /\ [EnsureAdmin EXCEPT !.must = FALSE].state = "enabled" /\ [EnsureAdmin EXCEPT !.must = FALSE].pw = 0
    /\ \A on \in BOOLEAN : [Absent EXCEPT !.state = "enabled", !.admin = on, !.must = TRUE] \in UserRows
  <1>1. Absent \in UserRows /\ Absent.state = "absent" /\ Gone \in UserRows /\ Gone.state = "deleted"
      BY DEF Absent, Gone, UserRows
  <1>2. EnsureAdmin \in UserRows /\ EnsureAdmin.state = "enabled" /\ EnsureAdmin.pw = 0
      BY AccountsAssumption DEF Absent, EnsureAdmin, UserRows
  <1>3. /\ [EnsureAdmin EXCEPT !.must = FALSE] \in UserRows
        /\ [EnsureAdmin EXCEPT !.must = FALSE].state = "enabled" /\ [EnsureAdmin EXCEPT !.must = FALSE].pw = 0
      BY <1>2 DEF UserRows
  <1>4. \A on \in BOOLEAN : [Absent EXCEPT !.state = "enabled", !.admin = on, !.must = TRUE] \in UserRows
      BY DEF Absent, UserRows
  <1> QED
      BY <1>1, <1>2, <1>3, <1>4

(* The invariant holds of a server just set up and of one at work.         *)
LEMMA AccountsStart == AccountsInit => TypeInv
  <1> SUFFICES ASSUME AccountsInit PROVE TypeInv
      OBVIOUS
  <1>1. ASSUME Fresh PROVE UsersTyped /\ SessionsTyped /\ cookie \in [Clients -> Tokens \cup {None}]
    <2>1. UsersTyped
        BY <1>1, UserTyped DEF Fresh, UsersTyped
    <2>2. SessionsTyped
        BY <1>1, SessionTyped DEF Fresh, SessionsTyped, Owned
    <2>3. cookie \in [Clients -> Tokens \cup {None}]
        BY <1>1 DEF Fresh
    <2> QED BY <2>1, <2>2, <2>3
  <1>2. ASSUME AtWork PROVE UsersTyped /\ SessionsTyped /\ cookie \in [Clients -> Tokens \cup {None}]
    <2>1. PICK owner \in [Staff -> Users], tok \in [Staff -> Tokens] :
            /\ users = [u \in Users |-> IF \E c \in Staff : owner[c] = u
                                        THEN [EnsureAdmin EXCEPT !.must = FALSE] ELSE Absent]
            /\ sessions = [t \in Tokens |-> IF \E c \in Staff : tok[c] = t
                            THEN [user |-> owner[CHOOSE c \in Staff : tok[c] = t], pw |-> 0, live |-> TRUE]
                            ELSE NoSession]
            /\ cookie = [c \in Clients |-> IF c \in Staff THEN tok[c] ELSE None]
        BY <1>2 DEF AtWork
    <2>2. UsersTyped
        BY <2>1, UserTyped DEF UsersTyped
    <2>3. \A c \in Staff : Exists(owner[c]) /\ users[owner[c]].pw = 0
        BY <2>1, UserTyped DEF Exists
    <2>4. sessions \in [Tokens -> SessionRows]
        BY <2>1, SessionTyped
    <2>5. ASSUME NEW t \in Tokens, sessions[t] # NoSession PROVE Owned(sessions[t])
      <3>1. PICK c \in Staff : sessions[t] = [user |-> owner[c], pw |-> 0, live |-> TRUE]
          BY <2>1, <2>5
      <3> QED BY <2>3, <3>1 DEF Owned
    <2>6. SessionsTyped
        BY <2>4, <2>5 DEF SessionsTyped, Owned
    <2>7. cookie \in [Clients -> Tokens \cup {None}]
        BY <2>1
    <2> QED BY <2>2, <2>6, <2>7
  <1>3. UsersTyped /\ SessionsTyped /\ cookie \in [Clients -> Tokens \cup {None}]
      BY <1>1, <1>2, Zenon DEF AccountsInit
  <1>4. AddressTyped
      BY EmptySeq DEF AccountsInit, AddressTyped
  <1>5. RequestsTyped
      BY DEF AccountsInit, RequestsTyped, NoRequest, Requests, Sane, LoginPcs, HandlerPcs, AdminOps, UserOps, RuleOps, OwnOps
  <1>6. RestTyped
    <2>1. begun \in 0..MaxRequests /\ misses \in 0..MaxMisses
        BY AccountsAssumption DEF AccountsInit
    <2>2. stale \in BOOLEAN /\ raced \subseteq Tokens
        BY DEF AccountsInit
    <2> QED BY <1>3, <2>1, <2>2, Zenon DEF RestTyped
  <1> QED
      BY <1>3, <1>4, <1>5, <1>6 DEF TypeInv

(* The failed attempts of an address, one more or one less.                *)
LEMMA AttemptsTyped ==
    ASSUME TypeInv, NEW a \in Addresses,
           \/ UNCHANGED attempts
           \/ \E k \in {"bad", "disabled", "locked"} : attempts' = [attempts EXCEPT ![a] = Append(@, k)]
           \/ attempts[a] # <<>> /\ attempts' = [attempts EXCEPT ![a] = Tail(@)]
    PROVE  attempts' \in [Addresses -> Seq({"bad", "disabled", "locked"})]
  <1> DEFINE K == {"bad", "disabled", "locked"}
  <1>1. attempts \in [Addresses -> Seq(K)]
      BY DEF TypeInv, AddressTyped
  <1>2. CASE UNCHANGED attempts
      BY <1>1, <1>2
  <1>3. ASSUME NEW k \in K, attempts' = [attempts EXCEPT ![a] = Append(@, k)] PROVE attempts' \in [Addresses -> Seq(K)]
    <2>1. Append(attempts[a], k) \in Seq(K)
        BY <1>1, AppendProperties
    <2> QED BY <1>1, <1>3, <2>1
  <1>4. CASE attempts[a] # <<>> /\ attempts' = [attempts EXCEPT ![a] = Tail(@)]
    <2>1. Tail(attempts[a]) \in Seq(K)
        BY <1>1, <1>4, HeadTailProperties
    <2> QED BY <1>1, <1>4, <2>1
  <1> QED
      BY <1>2, <1>3, <1>4

(* A rule on an address.                                                   *)
LEMMA RulesTyped ==
    ASSUME TypeInv, NEW a \in Addresses, UNCHANGED rules \/ AutoBlock(a)
    PROVE  rules' \in [Addresses -> {"none", "allow", "deny", "auto"}]
  BY DEF TypeInv, AddressTyped, AutoBlock

(* A request of the login begins.                                          *)
LEMMA LoginBegins ==
    ASSUME TypeInv, NEW c \in Clients, NEW u \in Users, NEW p \in Int, login(c, u, p)
    PROVE  TypeInv'
  <1> DEFINE r == [pc |-> "gate", me |-> None, user |-> u, pw |-> p]
  <1>1. /\ begun < MaxRequests /\ begun' = begun + 1 /\ req' = [req EXCEPT ![c] = r]
        /\ UNCHANGED <<tables, cookie, history>> /\ (Miss \/ UNCHANGED misses)
      BY DEF login, Begin, enforceIPAccess
  <1>2. UsersTyped' /\ SessionsTyped' /\ Grow /\ AddressTyped'
      BY <1>1, TablesKept, AddressesKept DEF tables
  <1>3. RestTyped'
    <2>1. begun' \in 0..MaxRequests /\ misses' \in 0..MaxMisses
        BY <1>1, MissesBounded, AccountsAssumption DEF TypeInv, RestTyped
    <2> QED BY <1>1, <2>1, Zenon DEF TypeInv, RestTyped, history
  <1>4. r \in Requests
      BY DEF Requests, LoginPcs
  <1>5. Sane(r)'
      BY DEF Sane, LoginPcs, HandlerPcs, AdminOps, UserOps, RuleOps, OwnOps
  <1>6. RequestsTyped'
      BY <1>1, <1>2, <1>4, <1>5, RequestMoves
  <1> QED
      BY <1>2, <1>3, <1>6 DEF TypeInv

(* The middleware lets a request through.                                  *)
LEMMA MiddlewareBegins ==
    ASSUME TypeInv, NEW c \in Clients, NEW op \in AdminOps \cup OwnOps, NEW u \in Users \cup {None}, NEW p \in Int,
           op \in UserOps => u \in Users, Middleware(c, op, u, p)
    PROVE  TypeInv'
  <1>1. PICK me : me = SessionUser(cookie[c])
      OBVIOUS
  <1>2. PICK v : v = IF op \in OwnOps THEN me ELSE u
      OBVIOUS
  <1> DEFINE r == [pc |-> op, me |-> me, user |-> v, pw |-> p]
  <1>3. /\ begun < MaxRequests /\ begun' = begun + 1 /\ req' = [req EXCEPT ![c] = r]
        /\ UNCHANGED <<tables, cookie, history>> /\ (Miss \/ UNCHANGED misses)
        /\ me # None /\ (op \in {"disable", "delete"} => u # me)
      BY <1>1, <1>2 DEF Middleware, Begin, enforceIPAccess
  <1>4. UsersTyped' /\ SessionsTyped' /\ Grow /\ AddressTyped'
      BY <1>3, TablesKept, AddressesKept DEF tables
  <1>5. RestTyped'
    <2>1. begun' \in 0..MaxRequests /\ misses' \in 0..MaxMisses
        BY <1>3, MissesBounded, AccountsAssumption DEF TypeInv, RestTyped
    <2> QED BY <1>3, <2>1, Zenon DEF TypeInv, RestTyped, history
  <1>6. me \in Users /\ users[me].state # "absent"
    <2>1. cookie[c] # None /\ Enabled(sessions[cookie[c]].user) /\ me = sessions[cookie[c]].user
        BY <1>1, <1>3, Zenon DEF SessionUser
    <2>2. sessions[cookie[c]] \in SessionRows
        BY <2>1 DEF TypeInv, RestTyped, SessionsTyped
    <2> QED BY <1>3, <2>1, <2>2 DEF Enabled, SessionRows
  <1>7. v \in Users \cup {None} /\ (op \in UserOps => v \in Users) /\ (op \in {"disable", "delete"} => v # me)
      BY <1>2, <1>3, <1>6 DEF OwnOps, UserOps
  <1>8. r \in Requests
      BY <1>6, <1>7 DEF Requests, HandlerPcs
  <1>9. Sane(r)'
    <2>1. users' = users /\ op \notin LoginPcs
        BY <1>3 DEF tables, LoginPcs, AdminOps, OwnOps, UserOps, RuleOps
    <2> QED BY <1>6, <1>7, <2>1 DEF Sane, AdminOps, OwnOps, UserOps, RuleOps, LoginPcs
  <1> HIDE DEF r
  <1>10. RequestsTyped'
      BY <1>3, <1>4, <1>8, <1>9, RequestMoves
  <1> QED
      BY <1>4, <1>5, <1>10 DEF TypeInv

(* The accounts change, and none that has a session goes.                  *)
LEMMA SessionsStay ==
    ASSUME TypeInv, UsersTyped', sessions' = sessions,
           \A u \in Users : Exists(u) => Exists(u)' /\ users[u].pw <= users'[u].pw
    PROVE  SessionsTyped'
  <1>1. \A u \in Users : users[u].pw \in Nat /\ users'[u].pw \in Nat
      BY DEF TypeInv, UsersTyped, UserRows
  <1>2. ASSUME NEW t \in Tokens PROVE Owned(sessions[t])'
    <2>1. sessions[t] \in SessionRows /\ Owned(sessions[t])
        BY DEF TypeInv, SessionsTyped
    <2> QED BY <1>1, <2>1 DEF Owned, SessionRows
  <1> QED
      BY <1>2 DEF TypeInv, SessionsTyped

(* A handler writes, with or without the right to.                         *)
LEMMA RestActing ==
    ASSUME TypeInv, NEW c \in Clients, Acting(c), UNCHANGED <<cookie, begun, misses>>, raced' \subseteq Tokens
    PROVE  RestTyped'
  <1>1. stale' \in BOOLEAN
      BY DEF Acting
  <1> QED
      BY <1>1, Zenon DEF TypeInv, RestTyped

(* A step of the login keeps the types.                                    *)
LEMMA LoginTypes == ASSUME TypeInv, NEW c \in Clients, LoginStep(c) PROVE TypeInv'
  <1>0. AddressOf[c] \in Addresses \cup {None} /\ req[c] \in Requests /\ Sane(req[c])
      BY AccountsAssumption DEF TypeInv, RequestsTyped
  <1>1. CASE Gate(c)
    <2>1. UNCHANGED <<users, sessions, cookie, begun, stale, raced>> /\ (Miss \/ UNCHANGED misses)
        BY <1>1 DEF Gate, RejectLocked, RecordAttempt
    <2>2. UsersTyped' /\ SessionsTyped' /\ Grow /\ RestTyped'
        BY <2>1, TablesKept, RestKept
    <2>3. attempts' \in [Addresses -> Seq({"bad", "disabled", "locked"})]
      <3>1. AddressOf[c] \in Addresses \/ attempts' = attempts
          BY <1>0, <1>1 DEF Gate, RecentFailures
      <3>2. CASE AddressOf[c] \in Addresses
        <4>1. AddressOf[c] # None
            BY <3>2, AccountsAssumption
        <4> QED BY <1>1, <3>2, <4>1, AttemptsTyped DEF Gate, RejectLocked, RecordAttempt
      <3> QED BY <3>1, <3>2 DEF TypeInv, AddressTyped
    <2>4. rules' \in [Addresses -> {"none", "allow", "deny", "auto"}]
      <3>1. rules' = rules \/ (AddressOf[c] \in Addresses /\ AutoBlock(AddressOf[c]))
          BY <1>0, <1>1 DEF Gate, RejectLocked, RecentFailures
      <3> QED BY <3>1, RulesTyped DEF TypeInv, AddressTyped
    <2>5. RequestsTyped'
      <3>1. CASE Done(c)
          BY <2>2, <3>1, RequestEnds
      <3>2. CASE At(c, "gate") /\ Goto(c, "check")
          BY <2>2, <3>2, RequestGoesOn DEF At, LoginPcs, HandlerPcs, AdminOps, UserOps, RuleOps, OwnOps
      <3> QED BY <1>1, <3>1, <3>2 DEF Gate
    <2> QED BY <2>2, <2>3, <2>4, <2>5 DEF TypeInv, AddressTyped
  <1>2. CASE Check(c)
    <2>1. UNCHANGED <<tables, cookie, begun, misses, history>>
        BY <1>2 DEF Check
    <2>2. UsersTyped' /\ SessionsTyped' /\ Grow /\ AddressTyped' /\ RestTyped'
        BY <2>1, TablesKept, RestKept, AddressesKept DEF tables, history
    <2>3. RequestsTyped'
      <3>1. CASE At(c, "check") /\ (Goto(c, "bad") \/ Goto(c, "disabled"))
          BY <2>2, <3>1, RequestGoesOn DEF At, LoginPcs, HandlerPcs, AdminOps, UserOps, RuleOps, OwnOps
      <3>2. CASE At(c, "check") /\ Goto(c, "good") /\ Exists(req[c].user) /\ req[c].pw = users[req[c].user].pw
        <4>1. PICK q : q = [req[c] EXCEPT !.pc = "good"]
            OBVIOUS
        <4>2. q \in Requests /\ q.pc = "good" /\ q.me = req[c].me /\ q.user = req[c].user /\ q.pw = req[c].pw
            BY <1>0, <4>1 DEF Requests, LoginPcs
        <4>3. q.user \in Users /\ users' = users /\ users[q.user].pw \in Nat
            BY <1>0, <2>1, <3>2, <4>2 DEF Sane, At, LoginPcs, tables, TypeInv, UsersTyped, UserRows
        <4>4. Sane(q)'
            BY <1>0, <3>2, <4>2, <4>3 DEF Sane, Exists, LoginPcs, HandlerPcs, AdminOps, UserOps, RuleOps, OwnOps
        <4>5. req' = [req EXCEPT ![c] = q]
            BY <3>2, <4>1 DEF Goto
        <4> QED BY <2>2, <4>2, <4>4, <4>5, RequestMoves
      <3> QED BY <1>2, <3>1, <3>2 DEF Check
    <2> QED BY <2>2, <2>3 DEF TypeInv
  <1>3. CASE Bad(c)
    <2>1. UNCHANGED <<users, sessions, rules, cookie, begun, stale, raced>> /\ (Miss \/ UNCHANGED misses)
        BY <1>3 DEF Bad, RecordAttempt
    <2>2. UsersTyped' /\ SessionsTyped' /\ Grow /\ RestTyped'
        BY <2>1, TablesKept, RestKept
    <2>3. attempts' \in [Addresses -> Seq({"bad", "disabled", "locked"})]
      <3>1. CASE AddressOf[c] \in Addresses
        <4>1. AddressOf[c] # None
            BY <3>1, AccountsAssumption
        <4> QED BY <1>3, <3>1, <4>1, AttemptsTyped DEF Bad, RecordAttempt
      <3>2. CASE AddressOf[c] = None
        <4>1. attempts' = attempts
            BY <1>3, <3>2 DEF Bad, RecordAttempt
        <4> QED BY <4>1 DEF TypeInv, AddressTyped
      <3> QED BY <1>0, <3>1, <3>2
    <2>4. RequestsTyped'
      <3>1. CASE Done(c)
          BY <2>2, <3>1, RequestEnds
      <3>2. CASE At(c, "bad") /\ Goto(c, "maybelock")
          BY <2>2, <3>2, RequestGoesOn DEF At, LoginPcs, HandlerPcs, AdminOps, UserOps, RuleOps, OwnOps
      <3> QED BY <1>3, <3>1, <3>2 DEF Bad
    <2> QED BY <2>1, <2>2, <2>3, <2>4 DEF TypeInv, AddressTyped
  <1>4. CASE maybeLock(c)
    <2>1. UNCHANGED <<users, sessions, attempts, cookie, begun, history>> /\ (Miss \/ UNCHANGED misses)
        BY <1>4 DEF maybeLock
    <2>2. UsersTyped' /\ SessionsTyped' /\ Grow /\ RestTyped'
        BY <2>1, TablesKept, RestKept DEF history
    <2>3. rules' \in [Addresses -> {"none", "allow", "deny", "auto"}]
      <3>1. rules' = rules \/ (AddressOf[c] \in Addresses /\ AutoBlock(AddressOf[c]))
          BY <1>0, <1>4 DEF maybeLock, RecentFailures
      <3> QED BY <3>1, RulesTyped DEF TypeInv, AddressTyped
    <2>4. RequestsTyped'
        BY <1>4, <2>2, RequestEnds DEF maybeLock
    <2> QED BY <2>1, <2>2, <2>3, <2>4 DEF TypeInv, AddressTyped
  <1>5. CASE CreateSession(c)
    <2>1. UNCHANGED <<users, attempts, rules, begun, misses, stale>> /\ At(c, "good") /\ Done(c)
        BY <1>5 DEF CreateSession
    <2>2. CASE UNCHANGED <<sessions, cookie, raced>>
        BY <2>1, <2>2, TablesKept, AddressesKept, RestKept, RequestEnds DEF TypeInv
    <2>3. ASSUME NEW t \in Tokens, Exists(req[c].user),
                 sessions' = [sessions EXCEPT ![t] = [user |-> req[c].user, pw |-> req[c].pw, live |-> TRUE]],
                 cookie' = [cookie EXCEPT ![c] = t], raced' = raced \cup {t} \/ raced' = raced \ {t}
          PROVE  TypeInv'
      <3>1. req[c].user \in Users /\ req[c].pw <= users[req[c].user].pw /\ req[c].pw \in Int
          BY <1>0, <2>1, <2>3 DEF Sane, At, LoginPcs, Requests
      <3>2. UsersTyped' /\ Grow
        <4>1. \A u \in Users : users[u].pw \in Nat
            BY DEF TypeInv, UsersTyped, UserRows
        <4> QED BY <2>1, <4>1 DEF TypeInv, UsersTyped, Grow, Exists
      <3>3. sessions' \in [Tokens -> SessionRows]
          BY <2>3, <3>1, SessionTyped DEF TypeInv, SessionsTyped
      <3>4. \A n \in Tokens : Owned(sessions[n])'
          BY <2>1, <2>3, <3>1 DEF TypeInv, SessionsTyped, Owned, Exists
      <3>5. cookie' \in [Clients -> Tokens \cup {None}] /\ raced' \subseteq Tokens
          BY <2>3 DEF TypeInv, RestTyped
      <3>6. RestTyped'
          BY <2>1, <3>5, Zenon DEF TypeInv, RestTyped
      <3> QED BY <2>1, <3>2, <3>3, <3>4, <3>6, AddressesKept, RequestEnds DEF TypeInv, SessionsTyped
    <2> QED BY <1>5, <2>2, <2>3 DEF CreateSession
  <1> QED
      BY <1>1, <1>2, <1>3, <1>4, <1>5 DEF LoginStep

(* One account of the table changes.                                       *)
LEMMA UserChanges ==
    ASSUME TypeInv, NEW u \in Users, NEW row \in UserRows, users' = [users EXCEPT ![u] = row], sessions' = sessions,
           row.state # "absent",
           Exists(u) => row.state \in {"enabled", "disabled"} /\ users[u].pw <= row.pw,
           row.state \in {"enabled", "disabled"} => Exists(u) \/ users[u].state = "absent"
    PROVE  UsersTyped' /\ SessionsTyped' /\ Grow
  <1>1. UsersTyped' /\ users'[u] = row /\ \A v \in Users : v # u => users'[v] = users[v]
      BY DEF TypeInv, UsersTyped
  <1>2. \A v \in Users : users[v].pw \in Nat /\ users'[v].pw \in Nat
      BY <1>1 DEF TypeInv, UsersTyped, UserRows
  <1>3. Grow
      BY <1>1, <1>2 DEF Grow, Exists
  <1>4. \A v \in Users : Exists(v) => Exists(v)' /\ users[v].pw <= users'[v].pw
      BY <1>1, <1>2 DEF Exists
  <1> QED
      BY <1>1, <1>3, <1>4, SessionsStay

(* A handler's step keeps the types.                                       *)
LEMMA HandlerTypes == ASSUME TypeInv, NEW c \in Clients, HandlerStep(c) PROVE TypeInv'
  <1>0. /\ req[c] \in Requests /\ Sane(req[c])
        /\ users \in [Users -> UserRows] /\ raced \subseteq Tokens /\ sessions \in [Tokens -> SessionRows]
      BY DEF TypeInv, RequestsTyped, UsersTyped, RestTyped, SessionsTyped
  <1>a. /\ UserOps \cup RuleOps \cup OwnOps \cup {"dodelete", "setpassword", "revoke"} = HandlerPcs
        /\ "none" \notin HandlerPcs /\ \A pc \in HandlerPcs : pc \notin LoginPcs
      BY DEF HandlerPcs, AdminOps, LoginPcs, UserOps, RuleOps, OwnOps
  <1>1. CASE CreateUser(c)
    <2>1. At(c, "create") /\ Acting(c) /\ Done(c) /\ UNCHANGED <<sessions, attempts, rules, cookie, begun, misses, raced>>
        BY <1>1 DEF CreateUser
    <2>2. req[c].user \in Users
        BY <1>0, <2>1 DEF Sane, At, UserOps
    <2>3. UsersTyped' /\ SessionsTyped' /\ Grow
      <3>1. CASE users' = users
          BY <2>1, <3>1, TablesKept
      <3>2. ASSUME NEW admin \in BOOLEAN, users[req[c].user].state = "absent",
                   users' = [users EXCEPT ![req[c].user] = [Absent EXCEPT !.state = "enabled", !.admin = admin, !.must = TRUE]]
            PROVE  UsersTyped' /\ SessionsTyped' /\ Grow
        <4>1. PICK row : row = [Absent EXCEPT !.state = "enabled", !.admin = admin, !.must = TRUE]
            OBVIOUS
        <4>2. row \in UserRows /\ row.state = "enabled"
            BY <4>1, UserTyped DEF Absent
        <4>3. PICK u \in Users : u = req[c].user
            BY <2>2
        <4>4. ~Exists(u) /\ users' = [users EXCEPT ![u] = row] /\ users[u].state = "absent"
            BY <3>2, <4>1, <4>3 DEF Exists
        <4> QED BY <2>1, <4>2, <4>4, UserChanges
      <3> QED BY <1>1, <3>1, <3>2 DEF CreateUser
    <2> QED BY <2>1, <2>3, <1>0, AddressesKept, RestActing, RequestEnds DEF TypeInv
  <1>2. CASE SetUserDisabled(c)
    <2>1. /\ Acting(c) /\ Done(c) /\ UNCHANGED <<sessions, attempts, rules, cookie, begun, misses, raced>>
          /\ req[c].pc \in {"disable", "enable"}
        BY <1>2 DEF SetUserDisabled
    <2>2. PICK u \in Users : u = req[c].user
        BY <1>0, <2>1 DEF Sane, UserOps
    <2>3. UsersTyped' /\ SessionsTyped' /\ Grow
      <3>1. CASE users' = users
          BY <2>1, <3>1, TablesKept
      <3>2. ASSUME NEW st \in {"enabled", "disabled"}, Exists(u), users' = [users EXCEPT ![u].state = st]
            PROVE  UsersTyped' /\ SessionsTyped' /\ Grow
        <4>1. PICK row : row = [users[u] EXCEPT !.state = st]
            OBVIOUS
        <4>2. row \in UserRows /\ row.state = st /\ row.pw = users[u].pw /\ row.pw \in Nat
          <5>1. row.state = st /\ row.pw = users[u].pw /\ row.pw \in Nat
              BY <1>0, <4>1 DEF UserRows
          <5>2. row \in UserRows
              BY <1>0, <4>1 DEF UserRows
          <5> QED BY <5>1, <5>2
        <4>3. users' = [users EXCEPT ![u] = row]
            BY <3>2, <4>1
        <4>4. /\ row \in UserRows /\ row.state \in {"enabled", "disabled"} /\ row.state # "absent"
              /\ sessions' = sessions /\ users[u].pw <= row.pw
            BY <2>1, <3>2, <4>2
        <4> QED BY <3>2, <4>3, <4>4, UserChanges
      <3> QED BY <1>2, <2>2, <3>1, <3>2 DEF SetUserDisabled
    <2> QED BY <2>1, <2>3, <1>0, AddressesKept, RestActing, RequestEnds DEF TypeInv
  <1>b. ASSUME NEW u \in Users, NEW must \in BOOLEAN, sessions' = sessions,
               users' = (IF Exists(u) THEN [users EXCEPT ![u].pw = NewPassword(u), ![u].must = must] ELSE users)
        PROVE  UsersTyped' /\ SessionsTyped' /\ Grow
    <2>1. CASE users' = users
        BY <1>b, <2>1, TablesKept
    <2>2. CASE Exists(u) /\ users' = [users EXCEPT ![u].pw = NewPassword(u), ![u].must = must]
      <3>1. PICK row : row = [users[u] EXCEPT !.pw = NewPassword(u), !.must = must]
          OBVIOUS
      <3>2. NewPassword(u) \in Nat /\ users[u].pw \in Nat /\ users[u].pw <= NewPassword(u)
          BY <1>0 DEF UserRows, NewPassword
      <3>3. row.state = users[u].state /\ row.pw = NewPassword(u)
          BY <1>0, <3>1 DEF UserRows
      <3>4. row \in UserRows
          BY <1>0, <3>1, <3>2 DEF UserRows
      <3>5. users' = [users EXCEPT ![u] = row]
          BY <1>0, <2>2, <3>1 DEF UserRows
      <3> QED BY <1>b, <2>2, <3>2, <3>3, <3>4, <3>5, UserChanges DEF Exists
    <2> QED BY <1>b, <2>1, <2>2
  <1>3. CASE ResetUserPassword(c)
    <2>1. /\ Acting(c) /\ Done(c) /\ UNCHANGED <<sessions, attempts, rules, cookie, begun, misses>>
          /\ raced' = raced \cup TokensOf(req[c].user) /\ At(c, "reset")
        BY <1>3 DEF ResetUserPassword
    <2>2. PICK u \in Users : u = req[c].user
        BY <1>0, <2>1 DEF Sane, At, UserOps
    <2>3. UsersTyped' /\ SessionsTyped' /\ Grow
        BY <1>b, <1>3, <2>1, <2>2 DEF ResetUserPassword
    <2>4. raced' \subseteq Tokens
        BY <1>0, <2>1 DEF TokensOf
    <2> QED BY <2>1, <2>3, <2>4, AddressesKept, RestActing, RequestEnds DEF TypeInv
  <1>4. CASE deleteUser(c)
    <2>1. UNCHANGED <<tables, cookie, begun, misses, history>> /\ At(c, "delete") /\ (Done(c) \/ Goto(c, "dodelete"))
        BY <1>4 DEF deleteUser
    <2>2. UsersTyped' /\ SessionsTyped' /\ Grow /\ AddressTyped' /\ RestTyped'
        BY <2>1, TablesKept, RestKept, AddressesKept DEF tables, history
    <2>3. CASE Done(c)
        BY <2>2, <2>3, RequestEnds DEF TypeInv
    <2>4. CASE Goto(c, "dodelete")
        BY <1>a, <2>1, <2>2, <2>4, RequestGoesOn DEF At, TypeInv, UserOps
    <2> QED BY <2>1, <2>3, <2>4
  <1>5. CASE DeleteUser(c)
    <2>1. /\ Acting(c) /\ Done(c) /\ UNCHANGED <<attempts, rules, cookie, begun, misses, raced>> /\ At(c, "dodelete")
        BY <1>5 DEF DeleteUser
    <2>2. PICK u \in Users : u = req[c].user
        BY <1>0, <2>1 DEF Sane, At
    <2>3. /\ users' = users \/ (Exists(u) /\ users' = [users EXCEPT ![u] = Gone])
          /\ sessions' = [t \in Tokens |-> IF sessions[t].user = u THEN NoSession ELSE sessions[t]]
        BY <1>5, <2>2 DEF DeleteUser
    <2>4. UsersTyped'
        BY <2>3, UserTyped DEF TypeInv, UsersTyped
    <2>5. Grow
      <3>1. \A v \in Users : users[v].pw \in Nat
          BY <1>0 DEF UserRows
      <3>2. CASE users' = users
          BY <3>1, <3>2 DEF Grow, Exists
      <3>3. CASE users' = [users EXCEPT ![u] = Gone]
        <4>1. users'[u] = Gone /\ \A v \in Users : v # u => users'[v] = users[v]
            BY <1>0, <3>3
        <4>2. users'[u].state = "deleted"
            BY <4>1 DEF Gone
        <4>3. ASSUME NEW v \in Users, users[v].state # "absent"
              PROVE  /\ users'[v].state # "absent"
                     /\ Exists(v)' => Exists(v) /\ users'[v].pw \in Nat /\ users[v].pw <= users'[v].pw
          <5>1. CASE v = u
              BY <4>2, <5>1 DEF Exists
          <5>2. CASE v # u
              BY <3>1, <4>1, <4>3, <5>2 DEF Exists
          <5> QED BY <5>1, <5>2
        <4> QED BY <4>3 DEF Grow
      <3> QED BY <2>3, <3>2, <3>3
    <2>6. SessionsTyped'
      <3>1. sessions' \in [Tokens -> SessionRows]
          BY <1>0, <2>3, SessionTyped
      <3>2. ASSUME NEW t \in Tokens PROVE Owned(sessions[t])'
          BY <1>0, <2>3 DEF Owned, Exists, TypeInv, SessionsTyped
      <3> QED BY <3>1, <3>2 DEF SessionsTyped
    <2> QED BY <1>0, <2>1, <2>4, <2>5, <2>6, AddressesKept, RestActing, RequestEnds DEF TypeInv
  <1>6. CASE UpsertIPRule(c) \/ DeleteIPRule(c)
    <2>1. UNCHANGED <<users, sessions, attempts, cookie, begun, misses, history>> /\ Done(c)
        BY <1>6 DEF UpsertIPRule, DeleteIPRule
    <2>2. UsersTyped' /\ SessionsTyped' /\ Grow /\ RestTyped'
        BY <2>1, TablesKept, RestKept DEF history
    <2>3. rules' \in [Addresses -> {"none", "allow", "deny", "auto"}]
        BY <1>6 DEF UpsertIPRule, DeleteIPRule, TypeInv, AddressTyped
    <2> QED BY <2>1, <2>2, <2>3, RequestEnds DEF TypeInv, AddressTyped
  <1>7. CASE changePassword(c)
    <2>1. UNCHANGED <<tables, cookie, begun, misses, history>> /\ At(c, "password") /\ (Done(c) \/ Goto(c, "setpassword"))
        BY <1>7 DEF changePassword
    <2>2. UsersTyped' /\ SessionsTyped' /\ Grow /\ AddressTyped' /\ RestTyped'
        BY <2>1, TablesKept, RestKept, AddressesKept DEF tables, history
    <2>3. CASE Done(c)
        BY <2>2, <2>3, RequestEnds DEF TypeInv
    <2>4. CASE Goto(c, "setpassword")
        BY <1>a, <2>1, <2>2, <2>4, RequestGoesOn DEF At, TypeInv, UserOps, OwnOps
    <2> QED BY <2>1, <2>3, <2>4
  <1>8. CASE SetPassword(c)
    <2>1. UNCHANGED <<sessions, attempts, rules, cookie, begun, misses, history>> /\ At(c, "setpassword") /\ Goto(c, "revoke")
        BY <1>8 DEF SetPassword
    <2>2. PICK u \in Users : u = req[c].me
        BY <1>0, <1>a, <2>1 DEF Sane, At
    <2>3. UsersTyped' /\ SessionsTyped' /\ Grow
        BY <1>b, <1>8, <2>1, <2>2 DEF SetPassword
    <2>4. RestTyped' /\ AddressTyped'
        BY <2>1, RestKept, AddressesKept DEF history
    <2> QED BY <1>a, <2>1, <2>3, <2>4, RequestGoesOn DEF At, TypeInv, UserOps
  <1>9. CASE DeleteUserSessions(c)
    <2>1. UNCHANGED <<users, attempts, rules, cookie, begun, stale>> /\ Done(c)
        BY <1>9 DEF DeleteUserSessions
    <2>2. PICK S : sessions' = [t \in Tokens |-> IF t \in S THEN NoSession ELSE sessions[t]] \/ sessions' = sessions
        BY <1>9 DEF DeleteUserSessions
    <2>3. UsersTyped' /\ SessionsTyped' /\ Grow
      <3>1. CASE sessions' = sessions
          BY <2>1, <3>1, TablesKept
      <3>2. CASE sessions' = [t \in Tokens |-> IF t \in S THEN NoSession ELSE sessions[t]]
        <4>1. sessions' \in [Tokens -> SessionRows]
            BY <1>0, <3>2, SessionTyped
        <4> QED BY <2>1, <3>2, <4>1, SessionsEnd
      <3> QED BY <2>2, <3>1, <3>2
    <2>4. raced' \subseteq Tokens /\ misses' \in 0..MaxMisses
      <3>1. raced' \subseteq Tokens
          BY <1>0, <1>9 DEF DeleteUserSessions, TokensOf
      <3> QED BY <1>9, <3>1, MissesBounded DEF DeleteUserSessions
    <2>5. RestTyped'
        BY <2>1, <2>4, Zenon DEF TypeInv, RestTyped
    <2> QED BY <2>1, <2>3, <2>5, AddressesKept, RequestEnds DEF TypeInv
  <1>10. CASE DeleteSession(c)
    <2>1. UNCHANGED <<users, attempts, rules, begun, history>> /\ Done(c) /\ cookie' = [cookie EXCEPT ![c] = None]
        BY <1>10 DEF DeleteSession
    <2>2. UsersTyped' /\ SessionsTyped' /\ Grow
      <3>1. CASE sessions' = sessions
          BY <2>1, <3>1, TablesKept
      <3>2. CASE sessions' = [sessions EXCEPT ![cookie[c]] = NoSession]
        <4>1. sessions' \in [Tokens -> SessionRows]
            BY <1>0, <3>2, SessionTyped
        <4>2. \A t \in Tokens : sessions'[t] = NoSession \/ sessions'[t] = sessions[t]
            BY <1>0, <3>2
        <4> QED BY <2>1, <4>1, <4>2, SessionsEnd
      <3> QED BY <1>10, <3>1, <3>2 DEF DeleteSession
    <2>3. cookie' \in [Clients -> Tokens \cup {None}] /\ misses' \in 0..MaxMisses
      <3>1. cookie' \in [Clients -> Tokens \cup {None}]
          BY <2>1 DEF TypeInv, RestTyped
      <3> QED BY <1>10, <3>1, MissesBounded DEF DeleteSession
    <2>4. RestTyped'
        BY <2>1, <2>3, Zenon DEF TypeInv, RestTyped, history
    <2> QED BY <2>1, <2>2, <2>4, AddressesKept, RequestEnds DEF TypeInv
  <1> QED
      BY <1>1, <1>2, <1>3, <1>4, <1>5, <1>6, <1>7, <1>8, <1>9, <1>10 DEF HandlerStep, userAction

(* Every step keeps the types.                                             *)
LEMMA AccountsStep == TypeInv /\ [AccountsNext]_accountVars => TypeInv'
  <1> SUFFICES ASSUME TypeInv, [AccountsNext]_accountVars PROVE TypeInv'
      OBVIOUS
  <1>1. ASSUME NEW c \in Clients, NEW u \in Users, NEW p \in Passwords(u), login(c, u, p) PROVE TypeInv'
    <2>1. PICK q \in Int : q = p
        BY DEF Passwords, Wrong, TypeInv, UsersTyped, UserRows
    <2> QED BY <1>1, <2>1, LoginBegins
  <1>2. ASSUME NEW c \in Clients, NEW p \in {Wrong, PasswordOf(cookie[c])}, Middleware(c, "password", None, p)
        PROVE  TypeInv'
    <2>1. p \in Int
      <3>1. CASE p = Wrong
          BY <3>1 DEF Wrong
      <3>2. CASE p = PasswordOf(cookie[c]) /\ p # Wrong
        <4>1. cookie[c] \in Tokens /\ sessions[cookie[c]] # NoSession /\ p = users[sessions[cookie[c]].user].pw
            BY <3>2 DEF PasswordOf, TypeInv, RestTyped
        <4> QED BY <4>1 DEF TypeInv, SessionsTyped, Owned, UsersTyped, UserRows
      <3> QED BY <3>1, <3>2
    <2>2. PICK q \in Int : q = p
        BY <2>1
    <2>3. Middleware(c, "password", None, q) /\ "password" \in AdminOps \cup OwnOps /\ "password" \notin UserOps
        BY <1>2, <2>2 DEF AdminOps, OwnOps, UserOps
    <2> QED BY <2>3, MiddlewareBegins
  <1>3. ASSUME NEW c \in Clients, NEW op \in RuleOps \cup {"logout"}, Middleware(c, op, None, 0) PROVE TypeInv'
    <2>1. op \in AdminOps \cup OwnOps /\ op \notin UserOps /\ 0 \in Int
        BY DEF AdminOps, OwnOps, UserOps, RuleOps
    <2> QED BY <1>3, <2>1, MiddlewareBegins
  <1>4. ASSUME NEW c \in Clients, NEW u \in Users, NEW op \in UserOps, Middleware(c, op, u, 0) PROVE TypeInv'
    <2>1. op \in AdminOps \cup OwnOps /\ u \in Users \cup {None} /\ 0 \in Int
        BY DEF AdminOps
    <2> QED BY <1>4, <2>1, MiddlewareBegins
  <1>5. ASSUME NEW c \in Clients, LoginStep(c) \/ HandlerStep(c) PROVE TypeInv'
      BY <1>5, LoginTypes, HandlerTypes
  <1>6. ASSUME NEW c \in Clients, fail(c) PROVE TypeInv'
    <2>1. UNCHANGED <<tables, cookie, begun, history>> /\ Miss /\ Done(c)
        BY <1>6 DEF fail
    <2>2. UsersTyped' /\ SessionsTyped' /\ Grow /\ AddressTyped' /\ RestTyped'
        BY <2>1, TablesKept, RestKept, AddressesKept DEF tables, history
    <2> QED BY <2>1, <2>2, RequestEnds DEF TypeInv
  <1>a. ASSUME UNCHANGED <<cookie, req, begun, misses, history>>, UsersTyped', SessionsTyped', AddressTyped', users' = users
        PROVE  TypeInv'
    <2>1. RestTyped'
        BY <1>a, RestKept DEF history
    <2>2. RequestsTyped'
        BY <1>a DEF TypeInv, RequestsTyped, Sane, Exists
    <2> QED BY <1>a, <2>1, <2>2 DEF TypeInv
  <1>7. ASSUME NEW a \in Addresses, LockoutEnds(a) \/ AttemptAges(a) PROVE TypeInv'
    <2>1. UNCHANGED <<users, sessions, cookie, req, begun, misses, history>>
        BY <1>7 DEF LockoutEnds, AttemptAges
    <2>2. attempts' \in [Addresses -> Seq({"bad", "disabled", "locked"})]
        BY <1>7, AttemptsTyped DEF LockoutEnds, AttemptAges
    <2>3. rules' \in [Addresses -> {"none", "allow", "deny", "auto"}]
        BY <1>7 DEF LockoutEnds, AttemptAges, TypeInv, AddressTyped
    <2> QED BY <1>a, <2>1, <2>2, <2>3, TablesKept DEF AddressTyped
  <1>8. ASSUME NEW t \in Tokens, SessionExpires(t) PROVE TypeInv'
    <2>1. UNCHANGED <<users, attempts, rules, cookie, req, begun, misses, history>>
        BY <1>8 DEF SessionExpires
    <2>2. PICK s : s = [sessions[t] EXCEPT !.live = FALSE]
        OBVIOUS
    <2>3. sessions[t] \in SessionRows /\ sessions \in [Tokens -> SessionRows]
        BY DEF TypeInv, SessionsTyped
    <2>4. s \in SessionRows /\ s.user = sessions[t].user /\ s.pw = sessions[t].pw
      <3>1. s \in SessionRows
          BY <2>2, <2>3, SessionTyped
      <3> QED BY <2>2, <2>3, <3>1 DEF SessionRows
    <2>5. sessions' = [sessions EXCEPT ![t] = s] /\ sessions[t].live
        BY <1>8, <2>2 DEF SessionExpires
    <2>6. sessions[t] # NoSession
        BY <2>5 DEF NoSession
    <2>7. sessions' \in [Tokens -> SessionRows]
        BY <2>3, <2>4, <2>5
    <2>8. \A n \in Tokens : \/ sessions'[n] = NoSession
                            \/ sessions[n] # NoSession /\ sessions'[n].user = sessions[n].user /\ sessions'[n].pw = sessions[n].pw
        BY <2>3, <2>4, <2>5, <2>6
    <2> QED BY <1>a, <2>1, <2>7, <2>8, SessionsEnd, AddressesKept
  <1>9. CASE PurgeExpiredSessions
    <2>1. UNCHANGED <<users, attempts, rules, cookie, req, begun, misses, history>>
        BY <1>9 DEF PurgeExpiredSessions
    <2>2. \A t \in Tokens : sessions'[t] = NoSession \/ sessions'[t] = sessions[t]
        BY <1>9 DEF PurgeExpiredSessions
    <2>3. sessions' \in [Tokens -> SessionRows]
        BY <1>9, SessionTyped DEF PurgeExpiredSessions, TypeInv, SessionsTyped
    <2> QED BY <1>a, <2>1, <2>2, <2>3, SessionsEnd, AddressesKept
  <1>10. CASE UNCHANGED accountVars
    <2>1. UNCHANGED <<users, sessions, attempts, rules, cookie, req, begun, misses, history>>
        BY <1>10 DEF accountVars, tables
    <2> QED BY <1>a, <2>1, TablesKept, AddressesKept
  <1> QED
      BY <1>1, <1>2, <1>3, <1>4, <1>5, <1>6, <1>7, <1>8, <1>9, <1>10 DEF AccountsNext, Clock

(* Type correctness, with what a session and a request in hand may rely on *)
(* (db/auth.go, the foreign key of sessions and its cascade).              *)
THEOREM AccountsTypeCorrect == AccountsSpec => []AccountsTypeOK
  BY AccountsStart, AccountsStep, TypesFollow, PTL DEF AccountsSpec
---------------------------------------------------------------------------
(* Manual rules *)

(* What a step of the rules may do, unless it is one of their handlers.    *)
LEMMA RulesMove ==
    ASSUME TypeInv, AccountsNext, NEW a \in Addresses, rules[a] \in {"allow", "deny"}, rules'[a] # rules[a]
    PROVE  \E c \in Clients : UpsertIPRule(c) \/ DeleteIPRule(c)
  <1>0. rules \in [Addresses -> {"none", "allow", "deny", "auto"}]
      BY DEF TypeInv, AddressTyped
  <1>1. ASSUME NEW b \in Addresses, AutoBlock(b) \/ UNCHANGED rules PROVE FALSE
      BY <1>0, <1>1 DEF AutoBlock
  <1>2. ASSUME NEW c \in Clients, LoginStep(c) PROVE FALSE
    <2>1. RecentFailures(AddressOf[c]) => AddressOf[c] \in Addresses
        BY AccountsAssumption DEF RecentFailures
    <2> QED BY <1>1, <1>2, <2>1 DEF LoginStep, Gate, RejectLocked, Check, Bad, maybeLock, CreateSession, tables
  <1>3. ASSUME NEW c \in Clients, HandlerStep(c) PROVE UpsertIPRule(c) \/ DeleteIPRule(c)
      BY <1>3 DEF HandlerStep, CreateUser, userAction, SetUserDisabled, ResetUserPassword, deleteUser, DeleteUser,
                  changePassword, SetPassword, DeleteUserSessions, DeleteSession, tables
  <1>4. ASSUME NEW c \in Clients, fail(c) PROVE FALSE
      BY <1>4 DEF fail, tables
  <1>5. ASSUME NEW c \in Clients, NEW r, Begin(c, r) PROVE FALSE
      BY <1>5 DEF Begin, tables
  <1>6. ASSUME Clock PROVE FALSE
    <2>1. ASSUME NEW b \in Addresses, LockoutEnds(b) PROVE FALSE
        BY <1>0, <2>1 DEF LockoutEnds
    <2> QED BY <1>6, <2>1 DEF Clock, AttemptAges, SessionExpires, PurgeExpiredSessions
  <1>7. ASSUME NEW c \in Clients, NEW op, NEW u, NEW p, Middleware(c, op, u, p) PROVE FALSE
      BY <1>5, <1>7 DEF Middleware
  <1>8. ASSUME NEW c \in Clients, NEW u, NEW p, login(c, u, p) PROVE FALSE
      BY <1>5, <1>8 DEF login
  <1> QED
      BY <1>2, <1>3, <1>4, <1>6, <1>7, <1>8 DEF AccountsNext

(* No failed login, lockout or expiry takes a manual rule away: only the   *)
(* handlers of the rules do (AutoBlock and its DO UPDATE ... WHERE).       *)
THEOREM ManualRulesKept == AccountsSpec => ManualRulesStand
  <1>1. ASSUME TypeInv, [AccountsNext]_accountVars
        PROVE  [\A a \in Addresses : rules[a] \in {"allow", "deny"} /\ rules'[a] # rules[a] =>
                  \E c \in Clients : req[c].pc \in {"allow", "deny", "unrule"} /\ req'[c] = NoRequest]_accountVars
    <2>1. ASSUME AccountsNext, NEW a \in Addresses, rules[a] \in {"allow", "deny"}, rules'[a] # rules[a]
          PROVE  \E c \in Clients : req[c].pc \in {"allow", "deny", "unrule"} /\ req'[c] = NoRequest
      <3>1. PICK c \in Clients : UpsertIPRule(c) \/ DeleteIPRule(c)
          BY <1>1, <2>1, RulesMove
      <3>2. req[c].pc \in {"allow", "deny", "unrule"} /\ req' = [req EXCEPT ![c] = NoRequest]
          BY <3>1 DEF UpsertIPRule, DeleteIPRule, At, Done
      <3> QED BY <1>1, <3>2 DEF TypeInv, RequestsTyped
    <2> QED BY <1>1, <2>1
  <1> QED
      BY <1>1, AccountsStart, AccountsStep, PTL DEF AccountsSpec, ManualRulesStand
---------------------------------------------------------------------------
(* Administrators *)

(* What the rights of an account depend on.                                *)
LEMMA AuthorityKept ==
    ASSUME NEW u \in Users, Authority(u), users'[u].state = users[u].state, users'[u].admin = users[u].admin
    PROVE  Authority(u)'
  BY Zenon DEF Authority, Enabled

(* A change of the password is no change of the rights.                    *)
LEMMA PasswordsOnly ==
    ASSUME TypeInv, NEW u \in Users, NEW p, NEW m \in BOOLEAN,
           users' = [users EXCEPT ![u].pw = p, ![u].must = m],
           NEW v \in Users
    PROVE  users'[v].state = users[v].state /\ users'[v].admin = users[v].admin
  <1>1. users \in [Users -> UserRows]
      BY DEF TypeInv, UsersTyped
  <1>2. PICK row : row = [users[u] EXCEPT !.pw = p, !.must = m]
      OBVIOUS
  <1>3. row.state = users[u].state /\ row.admin = users[u].admin
      BY <1>1, <1>2, Zenon DEF UserRows
  <1>4. users' = [users EXCEPT ![u] = row]
      BY <1>1, <1>2 DEF UserRows
  <1>5. v = u => users'[v] = row
      BY <1>1, <1>4
  <1>6. v # u => users'[v] = users[v]
      BY <1>1, <1>4
  <1> QED
      BY <1>3, <1>5, <1>6, Zenon

(* Some administrator is there when the server starts.                     *)
LEMMA AdminAtStart == AccountsInit => AdminRemains
  <1> SUFFICES ASSUME AccountsInit PROVE \E u \in Users : Authority(u)
      BY DEF AdminRemains
  <1>1. EnsureAdmin.state = "enabled" /\ EnsureAdmin.admin = TRUE
      BY DEF EnsureAdmin, Absent
  <1>2. [EnsureAdmin EXCEPT !.must = FALSE].state = "enabled" /\ [EnsureAdmin EXCEPT !.must = FALSE].admin = TRUE
      BY DEF EnsureAdmin, Absent
  <1>3. CASE Fresh
    <2>1. Seeded \in Users /\ users[Seeded] = EnsureAdmin
        BY <1>3, AccountsAssumption DEF Fresh
    <2> QED BY <1>1, <2>1, Zenon DEF Authority, Enabled
  <1>4. CASE AtWork
    <2>1. PICK owner \in [Staff -> Users] :
            users = [u \in Users |-> IF \E c \in Staff : owner[c] = u
                                     THEN [EnsureAdmin EXCEPT !.must = FALSE] ELSE Absent]
        BY <1>4 DEF AtWork
    <2>2. PICK c \in Staff : TRUE
        BY AccountsAssumption
    <2>3. owner[c] \in Users /\ users[owner[c]] = [EnsureAdmin EXCEPT !.must = FALSE]
        BY <2>1, <2>2
    <2> QED BY <1>2, <2>3, Zenon DEF Authority, Enabled
  <1> QED
      BY <1>3, <1>4 DEF AccountsInit

(* A handler that writes with the right to leaves an administrator: of two *)
(* accounts that could be the last one, one is its own caller's.           *)
LEMMA AdminStays ==
    ASSUME TypeInv, AdminRemains, NEW c \in Clients,
           CreateUser(c) \/ SetUserDisabled(c) \/ ResetUserPassword(c) \/ DeleteUser(c) \/ SetPassword(c)
    PROVE  AdminRemains'
  <1>0. /\ users \in [Users -> UserRows] /\ req[c] \in Requests /\ Sane(req[c])
        /\ stale' \in BOOLEAN /\ stale \in BOOLEAN
    <2>1. stale' \in BOOLEAN /\ stale \in BOOLEAN
        BY Zenon DEF CreateUser, SetUserDisabled, ResetUserPassword, DeleteUser, SetPassword, Acting, history, TypeInv, RestTyped
    <2> QED BY <2>1 DEF TypeInv, UsersTyped, RequestsTyped
  <1> SUFFICES ASSUME ~stale' PROVE \E u \in Users : Authority(u)'
      BY DEF AdminRemains, Authority, Enabled
  <1>1. ~stale /\ (~SetPassword(c) => Authority(req[c].me))
    <2>1. ASSUME Acting(c) PROVE ~stale /\ Authority(req[c].me)
        BY <2>1, Zenon DEF Acting
    <2>2. Acting(c) \/ (SetPassword(c) /\ stale' = stale)
        BY Zenon DEF CreateUser, SetUserDisabled, ResetUserPassword, DeleteUser, SetPassword, history
    <2>3. CASE Acting(c)
        BY <2>1, <2>3
    <2>4. CASE SetPassword(c) /\ stale' = stale
        BY <2>4, Zenon
    <2> QED BY <2>2, <2>3, <2>4
  <1>2. PICK a \in Users : Authority(a)
      BY <1>1 DEF AdminRemains
  <1>3. users[a].state = "enabled" /\ users[a] \in UserRows
      BY <1>0, <1>2, Zenon DEF Authority, Enabled
  <1>4. CASE CreateUser(c)
    <2>1. req[c].user \in Users
        BY <1>0, <1>4 DEF CreateUser, At, Sane, UserOps
    <2>2. users'[a] = users[a]
        BY <1>0, <1>3, <1>4, <2>1 DEF CreateUser
    <2> QED BY <1>2, <2>2, AuthorityKept
  <1>5. CASE SetUserDisabled(c)
    <2>1. PICK u \in Users : u = req[c].user
        BY <1>0, <1>5 DEF SetUserDisabled, Sane, UserOps
    <2>2. CASE At(c, "disable")
      <3>1. PICK me \in Users : me = req[c].me /\ Authority(me) /\ me # u
          BY <1>0, <1>1, <1>5, <2>1, <2>2 DEF SetUserDisabled, At, Sane, HandlerPcs, AdminOps, UserOps, SetPassword
      <3>2. users'[me] = users[me]
          BY <1>0, <1>5, <2>1, <3>1 DEF SetUserDisabled
      <3> QED BY <3>1, <3>2, AuthorityKept
    <2>3. CASE ~At(c, "disable")
      <3>1. users' = IF Exists(u) THEN [users EXCEPT ![u].state = "enabled"] ELSE users
          BY <1>5, <2>1, <2>3 DEF SetUserDisabled
      <3>2. PICK row : row = [users[u] EXCEPT !.state = "enabled"]
          OBVIOUS
      <3>3. row.state = "enabled" /\ row.admin = users[u].admin
          BY <1>0, <3>2, Zenon DEF UserRows
      <3>4. users' = IF Exists(u) THEN [users EXCEPT ![u] = row] ELSE users
          BY <1>0, <3>1, <3>2 DEF UserRows
      <3>5. users'[a] = users[a] \/ (a = u /\ users'[a] = row)
          BY <1>0, <3>4
      <3>6. users'[a].state = users[a].state /\ users'[a].admin = users[a].admin
          BY <1>3, <3>3, <3>5, Zenon
      <3> QED BY <1>2, <3>6, AuthorityKept
    <2> QED BY <2>2, <2>3
  <1>6. CASE ResetUserPassword(c)
    <2>1. PICK u \in Users : u = req[c].user
        BY <1>0, <1>6 DEF ResetUserPassword, At, Sane, UserOps
    <2>2. PICK p : p = NewPassword(u)
        OBVIOUS
    <2>3. users' = users \/ users' = [users EXCEPT ![u].pw = p, ![u].must = TRUE]
        BY <1>6, <2>1, <2>2 DEF ResetUserPassword
    <2>4. users'[a].state = users[a].state /\ users'[a].admin = users[a].admin
        BY <2>3, PasswordsOnly
    <2> QED BY <1>2, <2>4, AuthorityKept
  <1>7. CASE DeleteUser(c)
    <2>1. PICK u \in Users : u = req[c].user
        BY <1>0, <1>7 DEF DeleteUser, At, Sane
    <2>2. PICK me \in Users : me = req[c].me /\ Authority(me) /\ me # u
      <3>1. Authority(req[c].me)
          BY <1>1, <1>7 DEF DeleteUser, SetPassword, At
      <3> QED BY <1>0, <1>7, <2>1, <3>1 DEF DeleteUser, At, Sane, HandlerPcs
    <2>3. users'[me] = users[me]
        BY <1>0, <1>7, <2>1, <2>2 DEF DeleteUser
    <2> QED BY <2>2, <2>3, AuthorityKept
  <1>8. CASE SetPassword(c)
    <2>1. PICK u \in Users : u = req[c].me
        BY <1>0, <1>8 DEF SetPassword, At, Sane, HandlerPcs
    <2>2. PICK p : p = NewPassword(u)
        OBVIOUS
    <2>3. users' = users \/ users' = [users EXCEPT ![u].pw = p, ![u].must = FALSE]
        BY <1>8, <2>1, <2>2 DEF SetPassword
    <2>4. users'[a].state = users[a].state /\ users'[a].admin = users[a].admin
        BY <2>3, PasswordsOnly
    <2> QED BY <1>2, <2>4, AuthorityKept
  <1> QED
      BY <1>4, <1>5, <1>6, <1>7, <1>8

(* The accounts are written by the handlers of the accounts only.          *)
LEMMA UsersMove ==
    ASSUME [AccountsNext]_accountVars
    PROVE  \/ UNCHANGED <<users, stale>>
           \/ \E c \in Clients : CreateUser(c) \/ SetUserDisabled(c) \/ ResetUserPassword(c) \/ DeleteUser(c) \/ SetPassword(c)
  <1>1. ASSUME NEW c \in Clients, LoginStep(c) PROVE UNCHANGED <<users, stale>>
      BY <1>1 DEF LoginStep, Gate, Check, Bad, maybeLock, CreateSession, tables, history
  <1>2. ASSUME NEW c \in Clients, HandlerStep(c)
        PROVE  UNCHANGED <<users, stale>> \/ CreateUser(c) \/ SetUserDisabled(c) \/ ResetUserPassword(c) \/ DeleteUser(c) \/ SetPassword(c)
      BY <1>2 DEF HandlerStep, userAction, deleteUser, UpsertIPRule, DeleteIPRule,
                  changePassword, DeleteUserSessions, DeleteSession, tables, history
  <1>3. ASSUME NEW c \in Clients, fail(c) PROVE UNCHANGED <<users, stale>>
      BY <1>3 DEF fail, tables, history
  <1>4. ASSUME NEW c \in Clients, NEW r, Begin(c, r) PROVE UNCHANGED <<users, stale>>
      BY <1>4 DEF Begin, tables, history
  <1>5. ASSUME Clock PROVE UNCHANGED <<users, stale>>
      BY <1>5 DEF Clock, LockoutEnds, AttemptAges, SessionExpires, PurgeExpiredSessions, history
  <1>6. ASSUME NEW c \in Clients, NEW op, NEW u, NEW p, Middleware(c, op, u, p) PROVE UNCHANGED <<users, stale>>
      BY <1>4, <1>6 DEF Middleware
  <1>7. ASSUME NEW c \in Clients, NEW u, NEW p, login(c, u, p) PROVE UNCHANGED <<users, stale>>
      BY <1>4, <1>7 DEF login
  <1>8. CASE UNCHANGED accountVars
      BY <1>8 DEF accountVars, tables, history
  <1> QED
      BY <1>1, <1>2, <1>3, <1>5, <1>6, <1>7, <1>8 DEF AccountsNext

(* Some enabled administrator is left, whatever the order of the requests, *)
(* unless a handler wrote for an account that had lost its own rights      *)
(* (userAction and deleteUser, api/api.go).                                *)
THEOREM AnAdministratorRemains == AccountsSpec => []AdminRemains
  <1>1. TypeInv /\ AdminRemains /\ [AccountsNext]_accountVars => AdminRemains'
    <2> SUFFICES ASSUME TypeInv, AdminRemains, [AccountsNext]_accountVars PROVE AdminRemains'
        OBVIOUS
    <2>1. CASE UNCHANGED <<users, stale>>
        BY <2>1, Zenon DEF AdminRemains, Authority, Enabled
    <2> QED BY <2>1, AdminStays, UsersMove
  <1> QED
      BY <1>1, AdminAtStart, AccountsStart, AccountsStep, PTL DEF AccountsSpec
---------------------------------------------------------------------------
(* Sessions of an older password *)

(* One step of one request.                                                *)
LEMMA RequestsMove ==
    ASSUME TypeInv, [AccountsNext]_accountVars, NEW c \in Clients, At(c, "revoke")
    PROVE  req'[c] = req[c] \/ DeleteUserSessions(c)
  <1>0. req \in [Clients -> Requests]
      BY DEF TypeInv, RequestsTyped
  <1>1. ASSUME NEW d \in Clients, ~At(d, "revoke"), NEW r, Done(d) \/ Goto(d, r) \/ req' = [req EXCEPT ![d] = r]
        PROVE  req'[c] = req[c]
      BY <1>0, <1>1 DEF Done, Goto, At
  <1>2. ASSUME NEW d \in Clients, LoginStep(d) PROVE req'[c] = req[c]
      BY <1>1, <1>2 DEF LoginStep, Gate, Check, Bad, maybeLock, CreateSession, At
  <1>3. ASSUME NEW d \in Clients, HandlerStep(d), ~DeleteUserSessions(d) PROVE req'[c] = req[c]
    <2>1. ~At(d, "revoke") /\ (Done(d) \/ \E r : Goto(d, r))
        BY <1>3 DEF HandlerStep, CreateUser, userAction, SetUserDisabled, ResetUserPassword, deleteUser, DeleteUser,
                    UpsertIPRule, DeleteIPRule, changePassword, SetPassword, DeleteSession, At
    <2> QED BY <1>1, <2>1
  <1>4. ASSUME NEW d \in Clients, DeleteUserSessions(d), d # c PROVE req'[c] = req[c]
      BY <1>0, <1>4 DEF DeleteUserSessions, Done
  <1>5. ASSUME NEW d \in Clients, fail(d) PROVE req'[c] = req[c]
      BY <1>1, <1>5 DEF fail, At, AdminOps, UserOps, RuleOps
  <1>6. ASSUME NEW d \in Clients, NEW r, Begin(d, r) PROVE req'[c] = req[c]
      BY <1>1, <1>6 DEF Begin, At
  <1>7. ASSUME Clock PROVE req'[c] = req[c]
      BY <1>7 DEF Clock, LockoutEnds, AttemptAges, SessionExpires, PurgeExpiredSessions
  <1>8. ASSUME NEW d \in Clients, NEW op, NEW u, NEW p, Middleware(d, op, u, p) PROVE req'[c] = req[c]
      BY <1>6, <1>8 DEF Middleware
  <1>9. ASSUME NEW d \in Clients, NEW u, NEW p, login(d, u, p) PROVE req'[c] = req[c]
      BY <1>6, <1>9 DEF login
  <1>10. CASE UNCHANGED accountVars
      BY <1>10 DEF accountVars
  <1> QED
      BY <1>2, <1>3, <1>4, <1>5, <1>7, <1>8, <1>9, <1>10 DEF AccountsNext

(* No password changes, and no session comes to be.                        *)
Calm ==
    /\ \A u \in Users : users'[u].pw = users[u].pw
    /\ \A t \in Tokens : \/ sessions'[t] = NoSession
                         \/ sessions'[t].user = sessions[t].user /\ sessions'[t].pw = sessions[t].pw
    /\ raced' = raced
    /\ ~\E c \in Clients : DeleteUserSessions(c)

(* A calm step makes no session one of an older password.                  *)
LEMMA CalmStep ==
    ASSUME TypeInv, OldPasswordSessions, [AccountsNext]_accountVars, Calm PROVE OldPasswordSessions'
  <1> SUFFICES ASSUME NEW t \in Tokens, sessions'[t].user # None, sessions'[t].pw # users'[sessions'[t].user].pw
               PROVE  t \in raced' \/ \E c \in Clients : At(c, "revoke")' /\ req'[c].me = sessions'[t].user
      BY DEF OldPasswordSessions
  <1>1. sessions'[t].user = sessions[t].user /\ sessions'[t].pw = sessions[t].pw
      BY SessionTyped DEF Calm
  <1>2. sessions[t].user \in Users
      BY <1>1 DEF TypeInv, SessionsTyped, SessionRows
  <1>3. t \in raced \/ \E c \in Clients : At(c, "revoke") /\ req[c].me = sessions[t].user
      BY <1>1, <1>2 DEF OldPasswordSessions, Calm
  <1>4. \A c \in Clients : At(c, "revoke") => req'[c] = req[c]
      BY RequestsMove DEF Calm
  <1> QED
      BY <1>1, <1>3, <1>4 DEF Calm, At

(* The steps that are not calm.                                            *)
Stirs(c) ==
    CreateSession(c) \/ CreateUser(c) \/ ResetUserPassword(c) \/ DeleteUser(c) \/ SetPassword(c) \/ DeleteUserSessions(c)

(* Every other step is calm.                                               *)
LEMMA CalmOrNot ==
    ASSUME TypeInv, [AccountsNext]_accountVars, \A c \in Clients : ~Stirs(c) PROVE Calm
  <1>0. users \in [Users -> UserRows] /\ sessions \in [Tokens -> SessionRows]
      BY DEF TypeInv, UsersTyped, SessionsTyped
  <1>a. ~\E c \in Clients : DeleteUserSessions(c)
      BY DEF Stirs
  <1>b. ASSUME UNCHANGED <<users, sessions, raced>> PROVE Calm
      BY <1>a, <1>b DEF Calm
  <1>1. ASSUME NEW c \in Clients, LoginStep(c) PROVE Calm
      BY <1>b, <1>1 DEF LoginStep, Gate, Check, Bad, maybeLock, tables, history, Stirs
  <1>2. ASSUME NEW c \in Clients, HandlerStep(c), ~SetUserDisabled(c), ~DeleteSession(c) PROVE Calm
      BY <1>b, <1>2 DEF HandlerStep, userAction, deleteUser, UpsertIPRule, DeleteIPRule, changePassword, tables, history, Stirs
  <1>3. ASSUME NEW c \in Clients, SetUserDisabled(c) PROVE Calm
    <2>1. PICK u, s : users' = IF Exists(u) THEN [users EXCEPT ![u].state = s] ELSE users
        BY <1>3 DEF SetUserDisabled
    <2>2. PICK row : row = [users[u] EXCEPT !.state = s]
        OBVIOUS
    <2>3. u \in Users => row.pw = users[u].pw
        BY <1>0, <2>2, Zenon DEF UserRows
    <2>4. \A v \in Users : users'[v] = users[v] \/ (v = u /\ users'[v] = row)
        BY <1>0, <2>1, <2>2 DEF UserRows
    <2>5. \A v \in Users : users'[v].pw = users[v].pw
        BY <2>3, <2>4, Zenon
    <2> QED BY <1>3, <1>a, <2>5 DEF SetUserDisabled, Calm
  <1>4. ASSUME NEW c \in Clients, DeleteSession(c) PROVE Calm
    <2>1. \A t \in Tokens : sessions'[t] = NoSession \/ sessions'[t] = sessions[t]
        BY <1>0, <1>4 DEF DeleteSession
    <2>2. users' = users /\ raced' = raced
        BY <1>4 DEF DeleteSession, history
    <2> QED BY <1>a, <2>1, <2>2 DEF Calm
  <1>5. ASSUME NEW c \in Clients, fail(c) PROVE Calm
      BY <1>b, <1>5 DEF fail, tables, history
  <1>6. ASSUME NEW c \in Clients, NEW r, Begin(c, r) PROVE Calm
      BY <1>b, <1>6 DEF Begin, tables, history
  <1>7. ASSUME NEW t \in Tokens, SessionExpires(t) PROVE Calm
    <2>1. PICK s : s = [sessions[t] EXCEPT !.live = FALSE]
        OBVIOUS
    <2>2. s.user = sessions[t].user /\ s.pw = sessions[t].pw
        BY <1>0, <2>1, Zenon DEF SessionRows
    <2>3. \A n \in Tokens : sessions'[n] = sessions[n] \/ (n = t /\ sessions'[n] = s)
        BY <1>0, <1>7, <2>1 DEF SessionExpires
    <2>4. users' = users /\ raced' = raced
        BY <1>7 DEF SessionExpires, history
    <2>5. \A n \in Tokens : sessions'[n].user = sessions[n].user /\ sessions'[n].pw = sessions[n].pw
        BY <2>2, <2>3, Zenon
    <2> QED BY <1>a, <2>4, <2>5 DEF Calm
  <1>8. ASSUME PurgeExpiredSessions PROVE Calm
    <2>1. \A t \in Tokens : sessions'[t] = NoSession \/ sessions'[t] = sessions[t]
        BY <1>8 DEF PurgeExpiredSessions
    <2> QED BY <1>a, <1>8, <2>1 DEF Calm, PurgeExpiredSessions, history
  <1>9. ASSUME NEW a \in Addresses, LockoutEnds(a) \/ AttemptAges(a) PROVE Calm
      BY <1>b, <1>9 DEF LockoutEnds, AttemptAges, history
  <1>10. ASSUME NEW c \in Clients, NEW op, NEW u, NEW p, Middleware(c, op, u, p) PROVE Calm
      BY <1>6, <1>10 DEF Middleware
  <1>11. ASSUME NEW c \in Clients, NEW u, NEW p, login(c, u, p) PROVE Calm
      BY <1>6, <1>11 DEF login
  <1>12. CASE UNCHANGED accountVars
      BY <1>b, <1>12 DEF accountVars, tables, history
  <1> QED
      BY <1>1, <1>2, <1>3, <1>4, <1>5, <1>7, <1>8, <1>9, <1>10, <1>11, <1>12 DEF AccountsNext, Clock

(* The others cover what they leave behind.                                *)
LEMMA StirStep ==
    ASSUME TypeInv, TypeInv', OldPasswordSessions, [AccountsNext]_accountVars, NEW c \in Clients, Stirs(c)
    PROVE  OldPasswordSessions'
  <1>0. /\ users \in [Users -> UserRows] /\ sessions \in [Tokens -> SessionRows] /\ req \in [Clients -> Requests]
        /\ Sane(req[c]) /\ cookie \in [Clients -> Tokens \cup {None}]
      BY DEF TypeInv, UsersTyped, SessionsTyped, RequestsTyped, RestTyped
  <1>a. \A t \in Tokens : sessions[t].user # None => sessions[t].user \in Users /\ Exists(sessions[t].user)
      BY SessionTyped DEF TypeInv, SessionsTyped, Owned
  <1>b. None \notin Users
      BY AccountsAssumption
  <1> SUFFICES ASSUME NEW t \in Tokens, sessions'[t].user # None, sessions'[t].pw # users'[sessions'[t].user].pw
               PROVE  t \in raced' \/ \E d \in Clients : At(d, "revoke")' /\ req'[d].me = sessions'[t].user
      BY DEF OldPasswordSessions
  <1>c. ASSUME ~DeleteUserSessions(c), t \in raced => t \in raced',
               sessions'[t] = sessions[t], users'[sessions[t].user].pw = users[sessions[t].user].pw
        PROVE  t \in raced' \/ \E d \in Clients : At(d, "revoke")' /\ req'[d].me = sessions'[t].user
    <2>1. t \in raced \/ \E d \in Clients : At(d, "revoke") /\ req[d].me = sessions[t].user
        BY <1>c DEF OldPasswordSessions
    <2>2. ASSUME NEW d \in Clients, At(d, "revoke"), req[d].me = sessions[t].user
          PROVE  At(d, "revoke")' /\ req'[d].me = sessions'[t].user
      <3>1. ~DeleteUserSessions(d)
        <4>1. CASE d = c
            BY <1>c, <4>1
        <4>2. CASE d # c
          <5>1. req'[d] = req[d]
            <6>1. Done(c) \/ Goto(c, "revoke")
                BY <1>c DEF Stirs, CreateSession, CreateUser, ResetUserPassword, DeleteUser, SetPassword
            <6> QED BY <1>0, <4>2, <6>1 DEF Done, Goto
          <5>2. DeleteUserSessions(d) => req'[d] = NoRequest
              BY <1>0 DEF DeleteUserSessions, Done
          <5> QED BY <2>2, <5>1, <5>2 DEF At, NoRequest
        <4> QED BY <4>1, <4>2
      <3> QED BY <1>c, <2>2, <3>1, RequestsMove DEF At
    <2> QED BY <1>c, <2>1, <2>2
  <1>1. CASE CreateSession(c)
    <2>1. ~DeleteUserSessions(c) /\ users' = users
        BY <1>1 DEF CreateSession, DeleteUserSessions, At
    <2>2. CASE UNCHANGED <<sessions, cookie, raced>>
        BY <1>c, <2>1, <2>2
    <2>3. ASSUME NEW n \in Tokens,
                 sessions' = [sessions EXCEPT ![n] = [user |-> req[c].user, pw |-> req[c].pw, live |-> TRUE]],
                 raced' = IF users[req[c].user].pw # req[c].pw THEN raced \cup {n} ELSE raced \ {n}
          PROVE  t \in raced' \/ \E d \in Clients : At(d, "revoke")' /\ req'[d].me = sessions'[t].user
      <3>1. CASE t = n
        <4>1. sessions'[t] = [user |-> req[c].user, pw |-> req[c].pw, live |-> TRUE]
            BY <1>0, <2>3, <3>1
        <4>2. sessions'[t].user = req[c].user /\ sessions'[t].pw = req[c].pw
            BY <4>1
        <4> QED BY <2>1, <2>3, <3>1, <4>2
      <3>2. CASE t # n
        <4>1. sessions'[t] = sessions[t] /\ (t \in raced => t \in raced')
            BY <1>0, <2>3, <3>2
        <4> QED BY <1>c, <2>1, <4>1
      <3> QED BY <3>1, <3>2
    <2> QED BY <1>1, <2>2, <2>3, Zenon DEF CreateSession
  <1>2. CASE CreateUser(c)
    <2>1. PICK u \in Users : u = req[c].user
        BY <1>0, <1>2 DEF CreateUser, At, Sane, UserOps
    <2>2. /\ ~DeleteUserSessions(c) /\ raced' = raced /\ sessions' = sessions
          /\ users' = users \/ (users[u].state = "absent" /\ \E row : users' = [users EXCEPT ![u] = row])
        BY <1>2, <2>1 DEF CreateUser, DeleteUserSessions, At
    <2>3. users'[sessions[t].user] = users[sessions[t].user]
        BY <1>0, <1>a, <2>2 DEF Exists
    <2> QED BY <1>c, <2>2, <2>3
  <1>3. CASE ResetUserPassword(c)
    <2>1. PICK u \in Users : u = req[c].user
        BY <1>0, <1>3 DEF ResetUserPassword, At, Sane, UserOps
    <2>2. /\ ~DeleteUserSessions(c) /\ raced' = raced \cup TokensOf(u) /\ sessions' = sessions
          /\ users' = users \/ \E row : users' = [users EXCEPT ![u] = row]
        BY <1>0, <1>3, <2>1 DEF ResetUserPassword, DeleteUserSessions, At, UserRows
    <2>3. CASE sessions[t].user = u
        BY <2>2, <2>3 DEF TokensOf
    <2>4. CASE sessions[t].user # u
      <3>1. users'[sessions[t].user] = users[sessions[t].user]
          BY <1>0, <1>a, <2>2, <2>4
      <3> QED BY <1>c, <2>2, <3>1
    <2> QED BY <2>3, <2>4
  <1>4. CASE DeleteUser(c)
    <2>1. PICK u \in Users : u = req[c].user
        BY <1>0, <1>4 DEF DeleteUser, At, Sane
    <2>2. /\ ~DeleteUserSessions(c) /\ raced' = raced
          /\ sessions' = [n \in Tokens |-> IF sessions[n].user = u THEN NoSession ELSE sessions[n]]
          /\ users' = users \/ users' = [users EXCEPT ![u] = Gone]
        BY <1>4, <2>1 DEF DeleteUser, DeleteUserSessions, At
    <2>3. sessions[t].user # u /\ sessions'[t] = sessions[t]
        BY <2>2, SessionTyped
    <2>4. users'[sessions[t].user] = users[sessions[t].user]
        BY <1>0, <1>a, <2>2, <2>3
    <2> QED BY <1>c, <2>2, <2>3, <2>4
  <1>5. CASE SetPassword(c)
    <2>1. PICK u \in Users : u = req[c].me
        BY <1>0, <1>5 DEF SetPassword, At, Sane, HandlerPcs
    <2>2. /\ ~DeleteUserSessions(c) /\ raced' = raced /\ sessions' = sessions /\ Goto(c, "revoke")
          /\ users' = users \/ \E row : users' = [users EXCEPT ![u] = row]
        BY <1>0, <1>5, <2>1 DEF SetPassword, DeleteUserSessions, At, history, UserRows
    <2>3. CASE sessions[t].user = u
      <3>1. req[c] \in Requests
          BY DEF TypeInv, RequestsTyped
      <3>2. req'[c].pc = "revoke" /\ req'[c].me = req[c].me
          BY <1>0, <2>2, <3>1 DEF Goto, Requests
      <3> QED BY <2>1, <2>2, <2>3, <3>2 DEF At
    <2>4. CASE sessions[t].user # u
      <3>1. users'[sessions[t].user] = users[sessions[t].user]
          BY <1>0, <1>a, <2>2, <2>4
      <3> QED BY <1>c, <2>2, <3>1
    <2> QED BY <2>3, <2>4
  <1>6. CASE DeleteUserSessions(c)
    <2>1. PICK u \in Users : u = req[c].me
        BY <1>0, <1>6 DEF DeleteUserSessions, At, Sane, HandlerPcs
    <2>2. /\ users' = users /\ Done(c) /\ raced \subseteq raced'
          /\ \/ /\ sessions' = [n \in Tokens |-> IF n \in TokensOf(u) \ {cookie[c]} THEN NoSession ELSE sessions[n]]
                /\ raced' = raced \cup (TokensOf(u) \cap {cookie[c]})
             \/ sessions' = sessions /\ raced' = raced \cup TokensOf(u)
        BY <1>6, <2>1 DEF DeleteUserSessions
    <2>3. sessions'[t] = sessions[t] /\ (sessions[t].user = u => t \in raced')
        BY <2>2, SessionTyped DEF TokensOf
    <2>4. CASE sessions[t].user = u
        BY <2>3, <2>4
    <2>5. CASE sessions[t].user # u
      <3>1. t \in raced \/ \E d \in Clients : At(d, "revoke") /\ req[d].me = sessions[t].user
          BY <2>2, <2>3 DEF OldPasswordSessions
      <3>2. ASSUME NEW d \in Clients, req[d].me = sessions[t].user PROVE req'[d] = req[d]
          BY <1>0, <2>1, <2>2, <2>5, <3>2 DEF Done
      <3> QED BY <2>2, <2>3, <3>1, <3>2 DEF At
    <2> QED BY <2>4, <2>5
  <1> QED
      BY <1>1, <1>2, <1>3, <1>4, <1>5, <1>6 DEF Stirs

(* A session of an older password is an exception that can be named: it    *)
(* carried the change, its login had read the old hash, a reset or a       *)
(* failed revocation left it, or it is about to be revoked                 *)
(* (changePassword, auth.go).                                              *)
THEOREM OldPasswordsAreKnown == AccountsSpec => []OldPasswordSessions
  <1>1. AccountsInit => OldPasswordSessions
    <2> SUFFICES ASSUME AccountsInit, NEW t \in Tokens, sessions[t].user # None
                 PROVE  sessions[t].pw = users[sessions[t].user].pw
        BY DEF OldPasswordSessions
    <2>1. CASE Fresh
        BY <2>1, SessionTyped DEF Fresh
    <2>2. CASE AtWork
      <3>1. PICK owner \in [Staff -> Users], tok \in [Staff -> Tokens] :
              /\ users = [u \in Users |-> IF \E c \in Staff : owner[c] = u
                                          THEN [EnsureAdmin EXCEPT !.must = FALSE] ELSE Absent]
              /\ sessions = [n \in Tokens |-> IF \E c \in Staff : tok[c] = n
                              THEN [user |-> owner[CHOOSE c \in Staff : tok[c] = n], pw |-> 0, live |-> TRUE]
                              ELSE NoSession]
          BY <2>2 DEF AtWork
      <3>2. PICK c \in Staff : sessions[t] = [user |-> owner[c], pw |-> 0, live |-> TRUE]
          BY <3>1, SessionTyped
      <3>3. users[owner[c]].pw = 0
          BY <3>1, UserTyped
      <3> QED BY <3>2, <3>3
    <2> QED BY <2>1, <2>2 DEF AccountsInit
  <1>2. TypeInv /\ TypeInv' /\ OldPasswordSessions /\ [AccountsNext]_accountVars => OldPasswordSessions'
    <2> SUFFICES ASSUME TypeInv, TypeInv', OldPasswordSessions, [AccountsNext]_accountVars PROVE OldPasswordSessions'
        OBVIOUS
    <2>1. CASE \E c \in Clients : Stirs(c)
        BY <2>1, StirStep
    <2>2. CASE \A c \in Clients : ~Stirs(c)
        BY <2>2, CalmOrNot, CalmStep
    <2> QED BY <2>1, <2>2
  <1> QED
      BY <1>1, <1>2, AccountsStart, AccountsStep, PTL DEF AccountsSpec
---------------------------------------------------------------------------
(* Guesses *)

Outcomes == {"bad", "disabled", "locked"}
BadOnes(s) == {i \in DOMAIN s : s[i] = "bad"}

(* The wrong passwords of a list of attempts are no more than its entries. *)
LEMMA BadOnesCounted ==
    ASSUME NEW s \in Seq(Outcomes)
    PROVE  IsFiniteSet(BadOnes(s)) /\ Cardinality(BadOnes(s)) \in Nat /\ Cardinality(BadOnes(s)) <= Len(s)
  <1>1. DOMAIN s = 1..Len(s) /\ Len(s) \in Nat
      OBVIOUS
  <1>2. IsFiniteSet(1..Len(s)) /\ Cardinality(1..Len(s)) = Len(s)
      BY <1>1, FS_Interval
  <1>3. BadOnes(s) \in SUBSET (1..Len(s))
      BY <1>1 DEF BadOnes
  <1>4. IsFiniteSet(BadOnes(s)) /\ Cardinality(BadOnes(s)) <= Cardinality(1..Len(s))
      BY <1>2, <1>3, FS_Subset
  <1> QED
      BY <1>2, <1>4, FS_CardinalityType

(* One more attempt is at most one more wrong password.                    *)
LEMMA BadOnesAppend ==
    ASSUME NEW s \in Seq(Outcomes), NEW k \in Outcomes
    PROVE  Cardinality(BadOnes(Append(s, k))) = IF k = "bad" THEN Cardinality(BadOnes(s)) + 1 ELSE Cardinality(BadOnes(s))
  <1>1. IsFiniteSet(BadOnes(s)) /\ DOMAIN s = 1..Len(s) /\ Len(s) \in Nat
      BY BadOnesCounted
  <1>2. /\ DOMAIN Append(s, k) = 1..(Len(s) + 1)
        /\ \A i \in 1..Len(s) : Append(s, k)[i] = s[i]
        /\ Append(s, k)[Len(s) + 1] = k
      OBVIOUS
  <1>3. CASE k = "bad"
    <2>1. BadOnes(Append(s, k)) = BadOnes(s) \cup {Len(s) + 1} /\ Len(s) + 1 \notin BadOnes(s)
        BY <1>1, <1>2, <1>3 DEF BadOnes
    <2> QED BY <1>1, <1>3, <2>1, FS_AddElement
  <1>4. CASE k # "bad"
    <2>1. BadOnes(Append(s, k)) = BadOnes(s)
        BY <1>1, <1>2, <1>4 DEF BadOnes
    <2> QED BY <1>4, <2>1
  <1> QED
      BY <1>3, <1>4

(* An attempt that leaves the window adds none.                            *)
LEMMA BadOnesTail ==
    ASSUME NEW s \in Seq(Outcomes), s # <<>>
    PROVE  Cardinality(BadOnes(Tail(s))) <= Cardinality(BadOnes(s))
  <1>1. IsFiniteSet(BadOnes(s)) /\ DOMAIN s = 1..Len(s) /\ Len(s) \in Nat \ {0}
      BY BadOnesCounted, EmptySeq
  <1>2. /\ DOMAIN Tail(s) = 1..(Len(s) - 1)
        /\ \A i \in 1..(Len(s) - 1) : Tail(s)[i] = s[i + 1]
      BY <1>1
  <1> DEFINE f == [i \in BadOnes(Tail(s)) |-> i + 1]
  <1>3. \A i \in BadOnes(Tail(s)) : i \in Int /\ i + 1 \in BadOnes(s)
      BY <1>1, <1>2 DEF BadOnes
  <1>4. f \in Injection(BadOnes(Tail(s)), BadOnes(s))
    <2>1. f \in [BadOnes(Tail(s)) -> BadOnes(s)]
        BY <1>3
    <2>2. \A i, j \in BadOnes(Tail(s)) : f[i] = f[j] => i = j
        BY <1>3
    <2> QED BY <2>1, <2>2 DEF Injection, IsInjective
  <1> HIDE DEF f
  <1> QED
      BY <1>1, <1>4, FS_Injection

(* The clients of an address, and those of them between count and record.  *)
From(a) == {c \in Clients : AddressOf[c] = a}
Guessing(r) == r.pc \in {"check", "bad"}

(* There are finitely many of either.                                      *)
LEMMA FromCounted ==
    ASSUME NEW a, NEW S \in SUBSET From(a)
    PROVE  /\ IsFiniteSet(S) /\ Cardinality(S) \in Nat /\ Cardinality(From(a)) \in Nat
           /\ Cardinality(S) <= Cardinality(From(a))
  <1>1. IsFiniteSet(From(a))
      BY AccountsAssumption, FS_Subset DEF From
  <1> QED
      BY <1>1, FS_Subset, FS_CardinalityType

(* The bound, with the sets named.                                         *)
LEMMA BoundRead ==
    /\ BoundedGuesses <=> \A a \in Addresses : Cardinality(BadOnes(attempts[a])) + Cardinality({c \in From(a) : Guessing(req[c])})
                                          <= MaxFailures - 1 + Cardinality(From(a))
    /\ BoundedGuesses' <=> \A a \in Addresses : Cardinality(BadOnes(attempts'[a])) + Cardinality({c \in From(a) : Guessing(req'[c])})
                                          <= MaxFailures - 1 + Cardinality(From(a))
  <1>1. \A a : /\ Pending(a) = {c \in From(a) : Guessing(req[c])}
               /\ Pending(a)' = {c \in From(a) : Guessing(req'[c])}
      BY DEF Pending, From, Guessing
  <1>2. \A a : Guesses(a) = Cardinality(BadOnes(attempts[a])) /\ Guesses(a)' = Cardinality(BadOnes(attempts'[a]))
      BY DEF Guesses, BadOnes
  <1> QED
      BY <1>1, <1>2, Zenon DEF BoundedGuesses, From

(* No address has more wrong passwords, and no more clients are guessing.  *)
Fewer ==
    /\ \A a \in Addresses : Cardinality(BadOnes(attempts'[a])) <= Cardinality(BadOnes(attempts[a]))
    /\ \A c \in Clients : Guessing(req'[c]) => Guessing(req[c])

(* Then the bound stays.                                                   *)
LEMMA FewerGuesses == ASSUME TypeInv, TypeInv', BoundedGuesses, Fewer PROVE BoundedGuesses'
  <1> SUFFICES ASSUME NEW a \in Addresses
               PROVE  Cardinality(BadOnes(attempts'[a])) + Cardinality({c \in From(a) : Guessing(req'[c])})
                          <= MaxFailures - 1 + Cardinality(From(a))
      BY BoundRead
  <1>1. PICK P : P = {c \in From(a) : Guessing(req[c])}
      OBVIOUS
  <1>2. PICK Q : Q = {c \in From(a) : Guessing(req'[c])}
      OBVIOUS
  <1>3. IsFiniteSet(P) /\ Cardinality(P) \in Nat /\ Cardinality(From(a)) \in Nat
      BY <1>1, FromCounted
  <1>4. Q \in SUBSET P
      BY <1>1, <1>2 DEF Fewer, From
  <1>5. Cardinality(Q) \in Nat /\ Cardinality(Q) <= Cardinality(P)
      BY <1>3, <1>4, FS_Subset, FS_CardinalityType
  <1>6. Cardinality(BadOnes(attempts[a])) \in Nat /\ Cardinality(BadOnes(attempts'[a])) \in Nat
      BY BadOnesCounted DEF TypeInv, AddressTyped, Outcomes
  <1>7. Cardinality(BadOnes(attempts[a])) + Cardinality(P) <= MaxFailures - 1 + Cardinality(From(a))
      BY <1>1, BoundRead
  <1>8. Cardinality(BadOnes(attempts'[a])) <= Cardinality(BadOnes(attempts[a]))
      BY DEF Fewer
  <1>9. MaxFailures \in Nat
      BY AccountsAssumption
  <1> QED
      BY <1>2, <1>3, <1>5, <1>6, <1>7, <1>8, <1>9

(* A login passes the gate: what the address has is under the limit, and   *)
(* no more than its clients can be past it.                                *)
LEMMA GatePassed ==
    ASSUME TypeInv, TypeInv', BoundedGuesses, NEW c \in Clients, Gate(c), ~RecentFailures(AddressOf[c])
    PROVE  BoundedGuesses'
  <1>0. AddressOf[c] \in Addresses \cup {None} /\ MaxFailures \in Nat /\ None \notin Addresses
      BY AccountsAssumption
  <1>1. attempts' = attempts /\ Goto(c, "check")
      BY DEF Gate
  <1> SUFFICES ASSUME NEW a \in Addresses
               PROVE  Cardinality(BadOnes(attempts'[a])) + Cardinality({d \in From(a) : Guessing(req'[d])})
                          <= MaxFailures - 1 + Cardinality(From(a))
      BY BoundRead
  <1>2. PICK Q \in SUBSET From(a) : Q = {d \in From(a) : Guessing(req'[d])}
      OBVIOUS
  <1>3. Cardinality(Q) \in Nat /\ Cardinality(From(a)) \in Nat /\ Cardinality(Q) <= Cardinality(From(a))
      BY FromCounted
  <1>4. attempts[a] \in Seq(Outcomes)
      BY DEF TypeInv, AddressTyped, Outcomes
  <1>5. /\ Cardinality(BadOnes(attempts[a])) \in Nat /\ Len(attempts[a]) \in Nat
        /\ Cardinality(BadOnes(attempts[a])) <= Len(attempts[a])
      BY <1>4, BadOnesCounted
  <1>6. CASE a = AddressOf[c]
    <2>1. Len(attempts[a]) < MaxFailures
        BY <1>0, <1>5, <1>6 DEF RecentFailures, Failures
    <2>2. Cardinality(BadOnes(attempts[a])) <= MaxFailures - 1
        BY <1>0, <1>5, <2>1
    <2>3. Cardinality(BadOnes(attempts[a])) + Cardinality(Q) <= MaxFailures - 1 + Cardinality(From(a))
        BY <1>0, <1>3, <1>5, <2>2
    <2> QED BY <1>1, <1>2, <2>3, Zenon
  <1>7. CASE a # AddressOf[c]
    <2>1. \A d \in From(a) : req'[d] = req[d]
        BY <1>1, <1>7 DEF From, Goto, TypeInv, RequestsTyped
    <2>2. Q = {d \in From(a) : Guessing(req[d])}
        BY <1>2, <2>1
    <2>3. Cardinality(BadOnes(attempts[a])) + Cardinality(Q) <= MaxFailures - 1 + Cardinality(From(a))
        BY <2>2, BoundRead
    <2> QED BY <1>1, <1>2, <2>3, Zenon
  <1> QED
      BY <1>6, <1>7

(* A wrong password is recorded: the client is no longer guessing.         *)
LEMMA BadRecorded ==
    ASSUME TypeInv, TypeInv', BoundedGuesses, NEW c \in Clients, Bad(c), At(c, "bad")
    PROVE  BoundedGuesses'
  <1>0. MaxFailures \in Nat /\ None \notin Addresses /\ c \in From(AddressOf[c])
      BY AccountsAssumption DEF From
  <1>1. /\ Goto(c, "maybelock")
        /\ attempts' = attempts \/ (AddressOf[c] # None /\ attempts' = [attempts EXCEPT ![AddressOf[c]] = Append(@, "bad")])
      BY DEF Bad, RecordAttempt
  <1>2. req[c] \in Requests /\ req \in [Clients -> Requests]
      BY DEF TypeInv, RequestsTyped
  <1>3. /\ Guessing(req[c]) /\ ~Guessing(req'[c])
        /\ \A d \in Clients : d # c => req'[d] = req[d]
      BY <1>1, <1>2 DEF Guessing, At, Goto, Requests
  <1> SUFFICES ASSUME NEW a \in Addresses
               PROVE  Cardinality(BadOnes(attempts'[a])) + Cardinality({d \in From(a) : Guessing(req'[d])})
                          <= MaxFailures - 1 + Cardinality(From(a))
      BY BoundRead
  <1>4. PICK P \in SUBSET From(a) : P = {d \in From(a) : Guessing(req[d])}
      OBVIOUS
  <1>5. PICK Q : Q = {d \in From(a) : Guessing(req'[d])}
      OBVIOUS
  <1>6. IsFiniteSet(P) /\ Cardinality(P) \in Nat /\ Cardinality(From(a)) \in Nat
      BY FromCounted
  <1>7. Cardinality(BadOnes(attempts[a])) + Cardinality(P) <= MaxFailures - 1 + Cardinality(From(a))
      BY <1>4, BoundRead
  <1>8. attempts[a] \in Seq(Outcomes) /\ attempts \in [Addresses -> Seq(Outcomes)]
      BY DEF TypeInv, AddressTyped, Outcomes
  <1>9. Cardinality(BadOnes(attempts[a])) \in Nat
      BY <1>8, BadOnesCounted
  <1>10. CASE a = AddressOf[c]
    <2>1. c \in P /\ Q = P \ {c}
        BY <1>0, <1>3, <1>4, <1>5, <1>10 DEF From
    <2>2. Cardinality(Q) = Cardinality(P) - 1
        BY <1>6, <2>1, FS_RemoveElement
    <2>3. attempts'[a] = attempts[a] \/ attempts'[a] = Append(attempts[a], "bad")
        BY <1>1, <1>8, <1>10
    <2>4. Cardinality(BadOnes(Append(attempts[a], "bad"))) = Cardinality(BadOnes(attempts[a])) + 1
        BY <1>8, BadOnesAppend DEF Outcomes
    <2>5. PICK n : n = Cardinality(BadOnes(attempts'[a]))
        OBVIOUS
    <2>6. n = Cardinality(BadOnes(attempts[a])) \/ n = Cardinality(BadOnes(attempts[a])) + 1
        BY <2>3, <2>4, <2>5, Zenon
    <2>7. n + Cardinality(Q) <= MaxFailures - 1 + Cardinality(From(a))
        BY <1>0, <1>6, <1>7, <1>9, <2>2, <2>6
    <2> QED BY <1>5, <2>5, <2>7, Zenon
  <1>11. CASE a # AddressOf[c]
    <2>1. attempts'[a] = attempts[a]
        BY <1>1, <1>8, <1>11
    <2>2. Q = P
        BY <1>3, <1>4, <1>5, <1>11 DEF From
    <2> QED BY <1>5, <1>7, <2>1, <2>2
  <1> QED
      BY <1>10, <1>11

(* Every other step takes guesses away or leaves them.                     *)
LEMMA FewerOrNot ==
    ASSUME TypeInv, [AccountsNext]_accountVars,
           \A c \in Clients : ~(Gate(c) /\ ~RecentFailures(AddressOf[c])) /\ ~(Bad(c) /\ At(c, "bad"))
    PROVE  Fewer
  <1>0. /\ req \in [Clients -> Requests] /\ attempts \in [Addresses -> Seq(Outcomes)]
        /\ AddressOf \in [Clients -> Addresses \cup {None}]
      BY AccountsAssumption DEF TypeInv, RequestsTyped, AddressTyped, Outcomes
  <1>1. \A a \in Addresses : Cardinality(BadOnes(attempts[a])) \in Nat
      BY <1>0, BadOnesCounted
  <1>a. ASSUME NEW d \in Clients,
               \/ Done(d)
               \/ \E pc : Goto(d, pc) /\ pc \notin {"check", "bad"}
               \/ Goto(d, "bad") /\ At(d, "check")
               \/ \E r : req' = [req EXCEPT ![d] = r] /\ ~Guessing(r)
        PROVE  \A c \in Clients : Guessing(req'[c]) => Guessing(req[c])
    <2>1. PICK q : req' = [req EXCEPT ![d] = q] /\ (Guessing(q) => Guessing(req[d]))
      <3>1. CASE Done(d)
        <4>1. ~Guessing(NoRequest)
            BY DEF Guessing, NoRequest
        <4> QED BY <3>1, <4>1, Zenon DEF Done
      <3>2. ASSUME NEW pc, Goto(d, pc), pc \notin {"check", "bad"} \/ At(d, "check")
            PROVE  \E r : req' = [req EXCEPT ![d] = r] /\ (Guessing(r) => Guessing(req[d]))
        <4>1. PICK r : r = [req[d] EXCEPT !.pc = pc]
            OBVIOUS
        <4>2. r.pc = pc
            BY <1>0, <4>1 DEF Requests
        <4> QED BY <3>2, <4>1, <4>2 DEF Goto, Guessing, At
      <3>3. CASE \E r : req' = [req EXCEPT ![d] = r] /\ ~Guessing(r)
          BY <3>3
      <3>4. CASE Goto(d, "bad") /\ At(d, "check")
          BY <3>2, <3>4
      <3>5. CASE \E pc : Goto(d, pc) /\ pc \notin {"check", "bad"}
          BY <3>2, <3>5
      <3> QED BY <1>a, <3>1, <3>3, <3>4, <3>5
    <2> QED BY <1>0, <2>1
  <1>b. ASSUME attempts' = attempts, \A c \in Clients : Guessing(req'[c]) => Guessing(req[c]) PROVE Fewer
      BY <1>1, <1>b DEF Fewer
  <1>c. ASSUME NEW a \in Addresses, NEW k \in Outcomes, k # "bad", attempts' = [attempts EXCEPT ![a] = Append(@, k)]
        PROVE  \A b \in Addresses : Cardinality(BadOnes(attempts'[b])) <= Cardinality(BadOnes(attempts[b]))
    <2>1. Cardinality(BadOnes(Append(attempts[a], k))) = Cardinality(BadOnes(attempts[a]))
        BY <1>0, <1>c, BadOnesAppend
    <2>2. \A b \in Addresses : attempts'[b] = attempts[b] \/ (b = a /\ attempts'[b] = Append(attempts[a], k))
        BY <1>0, <1>c
    <2>3. ASSUME NEW b \in Addresses PROVE Cardinality(BadOnes(attempts'[b])) = Cardinality(BadOnes(attempts[b]))
        BY <2>1, <2>2, Zenon
    <2> QED BY <1>1, <2>3
  <1>2. ASSUME NEW c \in Clients, Gate(c) PROVE Fewer
    <2>1. RejectLocked(AddressOf[c]) /\ Done(c) /\ RecentFailures(AddressOf[c])
        BY <1>2 DEF Gate
    <2>2. attempts' = attempts \/ (AddressOf[c] # None /\ attempts' = [attempts EXCEPT ![AddressOf[c]] = Append(@, "locked")])
        BY <2>1 DEF RejectLocked, RecordAttempt, RecentFailures
    <2> QED BY <1>0, <1>a, <1>b, <1>c, <2>1, <2>2 DEF Fewer, Outcomes
  <1>3. ASSUME NEW c \in Clients, Check(c) PROVE Fewer
    <2>1. attempts' = attempts /\ At(c, "check") /\ (Goto(c, "bad") \/ Goto(c, "disabled") \/ Goto(c, "good"))
        BY <1>3 DEF Check, tables
    <2> QED BY <1>a, <1>b, <2>1
  <1>4. ASSUME NEW c \in Clients, Bad(c) PROVE Fewer
    <2>1. ~At(c, "bad") /\ Done(c)
        BY <1>4 DEF Bad
    <2>2. attempts' = attempts \/ (AddressOf[c] # None /\ attempts' = [attempts EXCEPT ![AddressOf[c]] = Append(@, "disabled")])
        BY <1>4, <2>1 DEF Bad, RecordAttempt
    <2> QED BY <1>0, <1>a, <1>b, <1>c, <2>1, <2>2 DEF Fewer, Outcomes
  <1>5. ASSUME NEW c \in Clients, maybeLock(c) \/ CreateSession(c) \/ fail(c) PROVE Fewer
    <2>1. attempts' = attempts /\ Done(c)
        BY <1>5 DEF maybeLock, CreateSession, fail, tables
    <2> QED BY <1>a, <1>b, <2>1
  <1>6. ASSUME NEW c \in Clients, HandlerStep(c) PROVE Fewer
    <2>1. attempts' = attempts /\ (Done(c) \/ Goto(c, "dodelete") \/ Goto(c, "setpassword") \/ Goto(c, "revoke"))
        BY <1>6 DEF HandlerStep, CreateUser, userAction, SetUserDisabled, ResetUserPassword, deleteUser, DeleteUser,
                    UpsertIPRule, DeleteIPRule, changePassword, SetPassword, DeleteUserSessions, DeleteSession, tables
    <2> QED BY <1>a, <1>b, <2>1
  <1>7. ASSUME NEW c \in Clients, NEW r, Begin(c, r), r.pc \notin {"check", "bad"} PROVE Fewer
    <2>1. attempts' = attempts /\ req' = [req EXCEPT ![c] = r] /\ ~Guessing(r)
        BY <1>7 DEF Begin, tables, Guessing
    <2> QED BY <1>a, <1>b, <2>1
  <1>8. ASSUME NEW c \in Clients, NEW op \in AdminOps \cup OwnOps, NEW u, NEW p, Middleware(c, op, u, p) PROVE Fewer
    <2>1. PICK r : Begin(c, r) /\ r.pc = op
        BY <1>8 DEF Middleware
    <2> QED BY <1>7, <2>1 DEF AdminOps, UserOps, RuleOps, OwnOps
  <1>9. ASSUME NEW c \in Clients, NEW u, NEW p, login(c, u, p) PROVE Fewer
    <2>1. PICK r : Begin(c, r) /\ r.pc = "gate"
        BY <1>9 DEF login
    <2> QED BY <1>7, <2>1
  <1>10. ASSUME Clock PROVE Fewer
    <2>1. ASSUME NEW a \in Addresses, AttemptAges(a) PROVE Fewer
      <3>1. Cardinality(BadOnes(Tail(attempts[a]))) <= Cardinality(BadOnes(attempts[a]))
          BY <1>0, <2>1, BadOnesTail DEF AttemptAges
      <3>2. \A b \in Addresses : attempts'[b] = attempts[b] \/ (b = a /\ attempts'[b] = Tail(attempts[a]))
          BY <1>0, <2>1 DEF AttemptAges
      <3>3. \A b \in Addresses : Cardinality(BadOnes(attempts'[b])) <= Cardinality(BadOnes(attempts[b]))
          BY <1>1, <3>1, <3>2
      <3> QED BY <2>1, <3>3 DEF AttemptAges, Fewer
    <2>2. ASSUME UNCHANGED <<attempts, req>> PROVE Fewer
        BY <1>b, <2>2
    <2> QED BY <1>10, <2>1, <2>2 DEF Clock, LockoutEnds, SessionExpires, PurgeExpiredSessions
  <1>11. ASSUME UNCHANGED accountVars PROVE Fewer
      BY <1>b, <1>11 DEF accountVars, tables
  <1> QED
    <2>1. "password" \in AdminOps \cup OwnOps /\ RuleOps \cup {"logout"} \subseteq AdminOps \cup OwnOps /\ UserOps \subseteq AdminOps \cup OwnOps
        BY DEF AdminOps, OwnOps
    <2> QED BY <1>2, <1>3, <1>4, <1>5, <1>6, <1>8, <1>9, <1>10, <1>11, <2>1 DEF AccountsNext, LoginStep

(* Within one window an address gets LoginMaxFailures - 1 wrong passwords  *)
(* and one more for each login already past the count, however many of     *)
(* them run at once; only a client whose address cannot be parsed is under *)
(* no limit (auth.go, Login).                                              *)
THEOREM GuessesAreBounded == AccountsSpec => []BoundedGuesses
  <1>1. AccountsInit => BoundedGuesses
    <2> SUFFICES ASSUME AccountsInit, NEW a \in Addresses
                 PROVE  Cardinality(BadOnes(attempts[a])) + Cardinality({c \in From(a) : Guessing(req[c])})
                            <= MaxFailures - 1 + Cardinality(From(a))
        BY BoundRead
    <2>1. BadOnes(attempts[a]) = {} /\ {c \in From(a) : Guessing(req[c])} = {}
        BY DEF AccountsInit, BadOnes, From, Guessing, NoRequest
    <2>2. Cardinality({}) = 0 /\ Cardinality(From(a)) \in Nat /\ MaxFailures \in Nat \ {0}
        BY FS_EmptySet, FromCounted, AccountsAssumption
    <2>3. 0 + 0 <= MaxFailures - 1 + Cardinality(From(a))
        BY <2>2
    <2> QED BY <2>1, <2>2, <2>3, Zenon
  <1>2. TypeInv /\ TypeInv' /\ BoundedGuesses /\ [AccountsNext]_accountVars => BoundedGuesses'
      BY FewerGuesses, FewerOrNot, GatePassed, BadRecorded
  <1> QED
      BY <1>1, <1>2, AccountsStart, AccountsStep, PTL DEF AccountsSpec
=============================================================================
