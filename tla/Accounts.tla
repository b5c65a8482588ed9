------------------------------ MODULE Accounts ------------------------------
(***************************************************************************)
(* Accounts, sessions, login with its failure count, and the address rules *)
(* (backend/internal/auth/auth.go, db/auth.go, the auth and user handlers  *)
(* of api/api.go).                                                         *)
(*                                                                         *)
(* A client runs one request at a time; a request is split at its database *)
(* calls, so that what the middleware or the login read may be old when    *)
(* the handler writes.  An account is a row of users; its id, and so its   *)
(* place in Users, is never used again.                                    *)
(***************************************************************************)
EXTENDS Integers, Sequences, FiniteSets

CONSTANTS
    Users,        \* rows of the users table
    Seeded,       \* the account EnsureAdmin creates
    Clients,      \* browsers
    Staff,        \* the ones administrators are logged in from
    Addresses,    \* client addresses
    AddressOf,    \* the address a client connects from, None when ClientIP cannot parse it
    Tokens,       \* session tokens
    None,         \* no token, no account, no address
    MaxFailures,  \* LoginMaxFailures
    AllowlistOnly,\* IPAllowlistOnly
    DefaultPassword, \* whether the seeded account has the default password
    MaxRequests,  \* bound: requests begun
    MaxMisses     \* bound: failing database writes

ASSUME AccountsAssumption ==
    /\ Seeded \in Users /\ None \notin Users \cup Tokens \cup Addresses
    /\ AddressOf \in [Clients -> Addresses \cup {None}] /\ IsFiniteSet(Clients) /\ Staff \subseteq Clients /\ Staff # {}
    /\ MaxFailures \in Nat \ {0} /\ MaxRequests \in Nat /\ MaxMisses \in Nat
    /\ AllowlistOnly \in BOOLEAN /\ DefaultPassword \in BOOLEAN

VARIABLES
    users,     \* the users table
    sessions,  \* the sessions table: account, and the password it was opened with
    attempts,  \* failed login_attempts of the last LoginWindow, oldest first
    rules,     \* ip_access: the rule on each address
    cookie,    \* the token each client holds
    req,       \* the request each client waits for
    begun,     \* requests so far
    misses,    \* failed writes so far
    stale,     \* history: a handler wrote for an account that had lost its rights
    raced      \* history: tokens opened or kept across a change of their password

tables  == <<users, sessions, attempts, rules>>
history == <<stale, raced>>
accountVars == <<tables, cookie, req, begun, misses, history>>

Absent == [state |-> "absent", admin |-> FALSE, must |-> FALSE, pw |-> 0]
Gone   == [state |-> "deleted", admin |-> FALSE, must |-> FALSE, pw |-> 0]
Exists(u)  == users[u].state \in {"enabled", "disabled"}
Enabled(u) == users[u].state = "enabled"
NoSession == [user |-> None, pw |-> 0, live |-> FALSE]
NoRequest == [pc |-> "none", me |-> None, user |-> None, pw |-> 0]

Failures(a) == Len(attempts[a])
Guesses(a)  == Cardinality({i \in DOMAIN attempts[a] : attempts[a][i] = "bad"})

(* What the middleware let through may be undone before the handler writes.*)
Authority(u) == u \in Users /\ Enabled(u) /\ users[u].admin
---------------------------------------------------------------------------
(* EnsureAdmin seeds the first account, before the server listens.         *)
EnsureAdmin == [Absent EXCEPT !.state = "enabled", !.admin = TRUE, !.must = DefaultPassword]

(* A server that has just been set up, or one with administrators at work, *)
(* each logged in from a client of his own.                                *)
Fresh ==
    /\ users = [u \in Users |-> IF u = Seeded THEN EnsureAdmin ELSE Absent]
    /\ sessions = [t \in Tokens |-> NoSession]
    /\ cookie = [c \in Clients |-> None]

AtWork ==
    \E owner \in [Staff -> Users], tok \in [Staff -> Tokens] :
        /\ \A c, d \in Staff : c # d => owner[c] # owner[d] /\ tok[c] # tok[d]
        /\ users = [u \in Users |-> IF \E c \in Staff : owner[c] = u
                                    THEN [EnsureAdmin EXCEPT !.must = FALSE] ELSE Absent]
        /\ sessions = [t \in Tokens |-> IF \E c \in Staff : tok[c] = t
                        THEN [user |-> owner[CHOOSE c \in Staff : tok[c] = t], pw |-> 0, live |-> TRUE]
                        ELSE NoSession]
        /\ cookie = [c \in Clients |-> IF c \in Staff THEN tok[c] ELSE None]

AccountsInit ==
    /\ Fresh \/ AtWork
    /\ attempts = [a \in Addresses |-> <<>>]
    /\ rules = [a \in Addresses |-> "none"]
    /\ req = [c \in Clients |-> NoRequest]
    /\ begun = 0 /\ misses = 0
    /\ stale = FALSE /\ raced = {}

Miss == misses < MaxMisses /\ misses' = misses + 1
At(c, pc) == req[c].pc = pc
Goto(c, pc) == req' = [req EXCEPT ![c].pc = pc]
Done(c) == req' = [req EXCEPT ![c] = NoRequest]
---------------------------------------------------------------------------
(* Address rules *)

AutoBlockAny(a) == rules' = [rules EXCEPT ![a] = "auto"]    \* mutant: no condition on the old rule

(* AutoBlock leaves a manual rule on the address alone.                    *)
AutoBlock(a) == rules' = [rules EXCEPT ![a] = IF @ \in {"none", "auto"} THEN "auto" ELSE @]

(* CheckIPAccess, for the login endpoint and for everything else: without  *)
(* an address there is no rule, and no list of allowed addresses either.   *)
Admits(a, login) ==
    a # None =>
        /\ rules[a] # "deny"
        /\ rules[a] = "auto" => login
        /\ (AllowlistOnly /\ \E b \in Addresses : rules[b] = "allow") => rules[a] = "allow"

(* The gate fails open when the rules cannot be read.                      *)
enforceIPAccess(c, login) == (Admits(AddressOf[c], login) /\ UNCHANGED misses) \/ Miss

(* A lockout expires, an attempt leaves the window.                        *)
LockoutEnds(a) ==
    /\ rules[a] = "auto"
    /\ rules' = [rules EXCEPT ![a] = "none"]
    /\ UNCHANGED <<users, sessions, attempts, cookie, req, begun, misses, history>>

AttemptAges(a) ==
    /\ attempts[a] # <<>>
    /\ attempts' = [attempts EXCEPT ![a] = Tail(@)]
    /\ UNCHANGED <<users, sessions, rules, cookie, req, begun, misses, history>>
---------------------------------------------------------------------------
(* Login *)

Begin(c, r) ==
    /\ At(c, "none")
    /\ begun < MaxRequests
    /\ begun' = begun + 1
    /\ req' = [req EXCEPT ![c] = r]
    /\ UNCHANGED <<tables, cookie, history>>

login(c, u, p) ==
    /\ enforceIPAccess(c, TRUE)
    /\ Begin(c, [pc |-> "gate", me |-> None, user |-> u, pw |-> p])

(* The gate counts the failures of an address; without one Login and       *)
(* maybeLock go on at once.                                                *)
RecentFailures(a) == a # None /\ Failures(a) >= MaxFailures

(* A failed attempt is written, or its error is ignored.  A row without an *)
(* address counts for none.                                                *)
RecordAttempt(a, kind) ==
    \/ attempts' = (IF a = None THEN attempts ELSE [attempts EXCEPT ![a] = Append(@, kind)]) /\ UNCHANGED misses
    \/ Miss /\ UNCHANGED attempts

(* Too many failures: block the address again and record the attempt; the  *)
(* error of either is ignored.                                             *)
RejectLocked(a) ==
    \/ AutoBlock(a) /\ RecordAttempt(a, "locked")
    \/ Miss /\ UNCHANGED rules /\ attempts' = [attempts EXCEPT ![a] = Append(@, "locked")]

GateOpen(c) ==                  \* mutant: the failures are counted only after the check
    /\ At(c, "gate")
    /\ Goto(c, "check")
    /\ UNCHANGED <<tables, cookie, begun, misses, history>>

Gate(c) ==
    LET a == AddressOf[c]
    IN  /\ At(c, "gate")
        /\ IF RecentFailures(a)
           THEN RejectLocked(a) /\ Done(c)
           ELSE Goto(c, "check") /\ UNCHANGED <<rules, attempts, misses>>
        /\ UNCHANGED <<users, sessions, cookie, begun, stale, raced>>

(* GetUserByName and the comparison of the password, on the row as read.   *)
Check(c) ==
    LET u == req[c].user
    IN  /\ At(c, "check")
        /\ Goto(c, IF ~Exists(u) \/ req[c].pw # users[u].pw THEN "bad"
                   ELSE IF ~Enabled(u) THEN "disabled" ELSE "good")
        /\ UNCHANGED <<tables, cookie, begun, misses, history>>

Bad(c) ==
    /\ req[c].pc \in {"bad", "disabled"}
    /\ RecordAttempt(AddressOf[c], IF At(c, "bad") THEN "bad" ELSE "disabled")
    /\ IF At(c, "bad") THEN Goto(c, "maybelock") ELSE Done(c)
    /\ UNCHANGED <<users, sessions, rules, cookie, begun, stale, raced>>

maybeLock(c) ==
    LET a == AddressOf[c]
    IN  /\ At(c, "maybelock")
        /\ \/ /\ IF RecentFailures(a) THEN AutoBlock(a) ELSE UNCHANGED rules
              /\ UNCHANGED misses
           \/ Miss /\ UNCHANGED rules
        /\ Done(c)
        /\ UNCHANGED <<users, sessions, attempts, cookie, begun, history>>

(* Only now is the session written: the account may have changed since.    *)
CreateSessionUnchecked(c) ==    \* mutant: no foreign key to the account
    LET u == req[c].user
    IN  /\ At(c, "good")
        /\ \E t \in Tokens :
             /\ sessions[t] = NoSession /\ \A d \in Clients : cookie[d] # t
             /\ sessions' = [sessions EXCEPT ![t] = [user |-> u, pw |-> req[c].pw, live |-> TRUE]]
             /\ cookie' = [cookie EXCEPT ![c] = t]
             /\ raced' = IF users[u].pw # req[c].pw THEN raced \cup {t} ELSE raced \ {t}
        /\ Done(c)
        /\ UNCHANGED <<users, attempts, rules, begun, misses, stale>>

CreateSession(c) ==
    LET u == req[c].user
    IN  /\ At(c, "good")
        /\ \/ /\ Exists(u)
              /\ \E t \in Tokens :
                   /\ sessions[t] = NoSession /\ \A d \in Clients : cookie[d] # t
                   /\ sessions' = [sessions EXCEPT ![t] = [user |-> u, pw |-> req[c].pw, live |-> TRUE]]
                   /\ cookie' = [cookie EXCEPT ![c] = t]
                   /\ raced' = IF users[u].pw # req[c].pw THEN raced \cup {t} ELSE raced \ {t}
           \/ ~Exists(u) /\ UNCHANGED <<sessions, cookie, raced>>
        /\ Done(c)
        /\ UNCHANGED <<users, attempts, rules, begun, misses, stale>>
---------------------------------------------------------------------------
(* Every other request: the middleware, then the handler *)

SessionUser(t) ==
    IF t # None /\ sessions[t].live /\ Enabled(sessions[t].user) THEN sessions[t].user ELSE None

UserOps  == {"create", "disable", "enable", "reset", "delete"}
RuleOps  == {"allow", "deny", "unrule"}
AdminOps == UserOps \cup RuleOps
OwnOps   == {"password", "logout"}

(* The password a change or a reset sets: it has never been used before.   *)
NewPassword(u) == users[u].pw + 1

RequireAdmin(u, op) == op \in AdminOps => users[u].admin

MiddlewareSelf(c, op, u, p) ==  \* mutant: an account may disable or delete itself
    LET me == SessionUser(cookie[c])
    IN  /\ enforceIPAccess(c, FALSE)
        /\ me # None
        /\ users[me].must => op \in OwnOps
        /\ RequireAdmin(me, op)
        /\ Begin(c, [pc |-> op, me |-> me, user |-> IF op \in OwnOps THEN me ELSE u, pw |-> p])

Middleware(c, op, u, p) ==
    LET me == SessionUser(cookie[c])
    IN  /\ enforceIPAccess(c, FALSE)
        /\ me # None
        /\ users[me].must => op \in OwnOps
        /\ RequireAdmin(me, op)
        /\ op \in {"disable", "delete"} => u # me
        /\ Begin(c, [pc |-> op, me |-> me, user |-> IF op \in OwnOps THEN me ELSE u, pw |-> p])

(* The common end of a handler that writes: with what right it does.       *)
Acting(c) == stale' = (stale \/ ~Authority(req[c].me))

CreateUser(c) ==
    LET u == req[c].user
    IN  /\ At(c, "create")
        /\ IF users[u].state = "absent"
           THEN \E admin \in BOOLEAN : users' = [users EXCEPT ![u] = [Absent EXCEPT !.state = "enabled", !.admin = admin, !.must = TRUE]]
           ELSE UNCHANGED users
        /\ Acting(c) /\ Done(c)
        /\ UNCHANGED <<sessions, attempts, rules, cookie, begun, misses, raced>>

SetUserDisabled(c) ==
    LET u == req[c].user
    IN  /\ req[c].pc \in {"disable", "enable"}
        /\ users' = IF Exists(u) THEN [users EXCEPT ![u].state = IF At(c, "disable") THEN "disabled" ELSE "enabled"] ELSE users
        /\ Acting(c) /\ Done(c)
        /\ UNCHANGED <<sessions, attempts, rules, cookie, begun, misses, raced>>

(* Tokens of an account that a change of its password leaves in place.     *)
TokensOf(u) == {t \in Tokens : sessions[t].user = u}

(* A reset revokes no session: the flag confines them.                     *)
ResetUserPassword(c) ==
    LET u == req[c].user
    IN  /\ At(c, "reset")
        /\ users' = IF Exists(u) THEN [users EXCEPT ![u].pw = NewPassword(u), ![u].must = TRUE] ELSE users
        /\ raced' = raced \cup TokensOf(u)
        /\ Acting(c) /\ Done(c)
        /\ UNCHANGED <<sessions, attempts, rules, cookie, begun, misses>>

(* deleteUser counts the accounts, then deletes one.                       *)
CountUsers == Cardinality({u \in Users : Exists(u)})

deleteUser(c) ==
    /\ At(c, "delete")
    /\ IF CountUsers <= 1 THEN Done(c) ELSE Goto(c, "dodelete")
    /\ UNCHANGED <<tables, cookie, begun, misses, history>>

DeleteUser(c) ==
    LET u == req[c].user
    IN  /\ At(c, "dodelete")
        /\ users' = IF Exists(u) THEN [users EXCEPT ![u] = Gone] ELSE users
        /\ sessions' = [t \in Tokens |-> IF sessions[t].user = u THEN NoSession ELSE sessions[t]]
        /\ Acting(c) /\ Done(c)
        /\ UNCHANGED <<attempts, rules, cookie, begun, misses, raced>>

UpsertIPRule(c) ==
    /\ req[c].pc \in {"allow", "deny"}
    /\ \E a \in Addresses : rules' = [rules EXCEPT ![a] = req[c].pc]
    /\ Done(c)
    /\ UNCHANGED <<users, sessions, attempts, cookie, begun, misses, history>>

DeleteIPRule(c) ==
    /\ At(c, "unrule")
    /\ \E a \in Addresses : rules' = [rules EXCEPT ![a] = "none"]
    /\ Done(c)
    /\ UNCHANGED <<users, sessions, attempts, cookie, begun, misses, history>>
---------------------------------------------------------------------------
(* changePassword: compare, set, revoke the other sessions *)

changePassword(c) ==
    LET u == req[c].me
    IN  /\ At(c, "password")
        /\ IF Exists(u) /\ req[c].pw = users[u].pw THEN Goto(c, "setpassword") ELSE Done(c)
        /\ UNCHANGED <<tables, cookie, begun, misses, history>>

SetPassword(c) ==
    LET u == req[c].me
    IN  /\ At(c, "setpassword")
        /\ users' = IF Exists(u) THEN [users EXCEPT ![u].pw = NewPassword(u), ![u].must = FALSE] ELSE users
        /\ Goto(c, "revoke")
        /\ UNCHANGED <<sessions, attempts, rules, cookie, begun, misses, history>>

DeleteUserSessionsOwn(c) ==     \* mutant: the wrong half is deleted
    /\ At(c, "revoke")
    /\ sessions' = [sessions EXCEPT ![cookie[c]] = NoSession]
    /\ Done(c)
    /\ UNCHANGED <<users, attempts, rules, cookie, begun, misses, history>>

DeleteUserSessions(c) ==
    LET u == req[c].me
        other == TokensOf(u) \ {cookie[c]}
    IN  /\ At(c, "revoke")
        /\ \/ /\ sessions' = [t \in Tokens |-> IF t \in other THEN NoSession ELSE sessions[t]]
              /\ raced' = raced \cup (TokensOf(u) \cap {cookie[c]})
              /\ UNCHANGED misses
           \/ Miss /\ raced' = raced \cup TokensOf(u) /\ UNCHANGED sessions
        /\ Done(c)
        /\ UNCHANGED <<users, attempts, rules, cookie, begun, stale>>

(* logout clears the cookie whether or not the row could be deleted.       *)
DeleteSession(c) ==
    /\ At(c, "logout")
    /\ \/ sessions' = [sessions EXCEPT ![cookie[c]] = NoSession] /\ UNCHANGED misses
       \/ Miss /\ UNCHANGED sessions
    /\ cookie' = [cookie EXCEPT ![c] = None]
    /\ Done(c)
    /\ UNCHANGED <<users, attempts, rules, begun, history>>

(* Any other database error ends the request with nothing written.         *)
fail(c) ==
    /\ req[c].pc \in AdminOps \cup {"gate", "check", "good", "dodelete", "password", "setpassword"}
    /\ Miss /\ Done(c)
    /\ UNCHANGED <<tables, cookie, begun, history>>

(* A session expires; the maintenance job purges it.                       *)
SessionExpires(t) ==
    /\ sessions[t].live
    /\ sessions' = [sessions EXCEPT ![t].live = FALSE]
    /\ UNCHANGED <<users, attempts, rules, cookie, req, begun, misses, history>>

PurgeExpiredSessions ==
    /\ \E t \in Tokens : sessions[t] # NoSession /\ ~sessions[t].live
    /\ sessions' = [t \in Tokens |-> IF sessions[t].live THEN sessions[t] ELSE NoSession]
    /\ UNCHANGED <<users, attempts, rules, cookie, req, begun, misses, history>>
---------------------------------------------------------------------------
(* A password a client sends: the right one, or one no account ever has.   *)
Wrong == -1
Passwords(u) == IF Exists(u) THEN {users[u].pw, Wrong} ELSE {Wrong}

PasswordOf(t) == IF t = None \/ sessions[t] = NoSession THEN Wrong ELSE users[sessions[t].user].pw

LoginStep(c) == Gate(c) \/ Check(c) \/ Bad(c) \/ maybeLock(c) \/ CreateSession(c)
userAction(c) == SetUserDisabled(c) \/ ResetUserPassword(c)
HandlerStep(c) ==
    \/ CreateUser(c) \/ userAction(c) \/ deleteUser(c) \/ DeleteUser(c)
    \/ UpsertIPRule(c) \/ DeleteIPRule(c)
    \/ changePassword(c) \/ SetPassword(c) \/ DeleteUserSessions(c) \/ DeleteSession(c)
Clock == (\E a \in Addresses : LockoutEnds(a) \/ AttemptAges(a)) \/ (\E t \in Tokens : SessionExpires(t)) \/ PurgeExpiredSessions

AccountsNext ==
    \/ \E c \in Clients, u \in Users : \E p \in Passwords(u) : login(c, u, p)
    \/ \E c \in Clients : \E p \in {Wrong, PasswordOf(cookie[c])} : Middleware(c, "password", None, p)
    \/ \E c \in Clients, op \in RuleOps \cup {"logout"} : Middleware(c, op, None, 0)
    \/ \E c \in Clients, u \in Users, op \in UserOps : Middleware(c, op, u, 0)
    \/ \E c \in Clients : LoginStep(c) \/ HandlerStep(c) \/ fail(c)
    \/ Clock

AccountsSpec == AccountsInit /\ [][AccountsNext]_accountVars
---------------------------------------------------------------------------
(* Properties *)

(* Type: every session belongs to an account that exists, because deleting *)
(* an account cascades and a login that comes too late inserts nothing;    *)
(* a request acts for an account that existed when it was let in.          *)
AccountsTypeOK ==
    /\ users \in [Users -> [state : {"absent", "enabled", "disabled", "deleted"},
                           admin : BOOLEAN, must : BOOLEAN, pw : Nat]]
    /\ \A t \in Tokens :
         \/ sessions[t] = NoSession
         \/ sessions[t].user \in Users /\ Exists(sessions[t].user) /\ sessions[t].pw <= users[sessions[t].user].pw
    /\ \A a \in Addresses : attempts[a] \in Seq({"bad", "disabled", "locked"})
    /\ rules \in [Addresses -> {"none", "allow", "deny", "auto"}]
    /\ cookie \in [Clients -> Tokens \cup {None}]
    /\ \A c \in Clients : req[c].me = None \/ users[req[c].me].state # "absent"
    /\ begun \in 0..MaxRequests /\ misses \in 0..MaxMisses
    /\ stale \in BOOLEAN /\ raced \subseteq Tokens

(* Login counts the failures of an address before it compares a password   *)
(* and records the failure after: within one LoginWindow an address gets   *)
(* at most LoginMaxFailures - 1 recorded wrong passwords, plus one for     *)
(* each login that was already past the count (auth.go, Login).  It says   *)
(* nothing of clients whose address ClientIP cannot parse: their guesses   *)
(* are neither counted nor limited.                                        *)
Pending(a) == {c \in Clients : AddressOf[c] = a /\ req[c].pc \in {"check", "bad"}}
BoundedGuesses ==
    \A a \in Addresses :
        Guesses(a) + Cardinality(Pending(a)) <= MaxFailures - 1 + Cardinality({c \in Clients : AddressOf[c] = a})

(* userAction and deleteUser refuse to act on the caller's own account, so *)
(* some enabled administrator remains, unless a handler wrote on behalf of *)
(* an account that had itself lost its rights after the middleware let the *)
(* request through (two administrators disabling each other).              *)
AdminRemains == ~stale => \E u \in Users : Authority(u)

(* changePassword revokes the other sessions after it has set the new      *)
(* password: a session opened with an older password is one that carried   *)
(* the change or outlived a reset, one whose login had read the old hash,  *)
(* one a failed revocation left, or one that a change still under way is   *)
(* about to revoke.                                                        *)
OldPasswordSessions ==
    \A t \in Tokens : LET u == sessions[t].user IN
        u # None /\ sessions[t].pw # users[u].pw =>
            t \in raced \/ \E c \in Clients : At(c, "revoke") /\ req[c].me = u

(* An address with a manual rule keeps it through any number of failed     *)
(* logins: only the handlers of the rules change it (AutoBlock, db/auth.go).*)
ManualRulesStand ==
    [][\A a \in Addresses : rules[a] \in {"allow", "deny"} /\ rules'[a] # rules[a] =>
          \E c \in Clients : req[c].pc \in {"allow", "deny", "unrule"} /\ req'[c] = NoRequest]_accountVars
=============================================================================
