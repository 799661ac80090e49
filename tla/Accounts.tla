------------------------------ MODULE Accounts ------------------------------
(* Accounts, e-mailed codes, sessions and rate limits: the handlers of       *)
(* routes/auth.py, one step per statement. Any number of requests are served *)
(* at the same time, so another request may come between two statements.     *)
(* Passwords, roles and audit entries decide nothing here and are left out: a *)
(* request is one whose password or administrator session was accepted. A    *)
(* request that is killed is one that takes no further step: no action for it *)
(* is needed, and fairness is about requests that are served to their end.   *)
EXTENDS Naturals, FiniteSets

CONSTANTS Address, NoAddress, Name, \* e-mail addresses; user names
          User, Code, Session,      \* identifiers, 1..n, never used again
          Request,                  \* slots, 1..n, for requests served at the same time
          Limited, Limit,           \* scopes with a limit in this instance, and the limits
          MaxCalls, MaxFaults, Faults

ASSUME AccountsAssumption ==
  /\ User \cup Code \cup Session \cup Request \subseteq Nat \ {0}
  /\ Address # {} /\ NoAddress \notin Address
  /\ Limit \in [Limited -> Nat \ {0}]
  /\ MaxCalls \in Nat /\ MaxFaults \in Nat
  /\ {1} \subseteq User \cap Code /\ Cardinality(Code) > MaxCalls /\ Cardinality(Session) >= MaxCalls

VARIABLES
  users,    \* the rows of users
  tokens,   \* the rows of verification_tokens
  sessions, \* the rows of auth_sessions
  window,   \* the Redis counters of the rate limits
  request,  \* the requests at work
  mailed,   \* history: codes that were mailed or answered, hence known to a person
  proved,   \* history: users who entered a code that was issued for them
  accepted, \* history: how many requests used up each code
  calls, faults

tables  == <<users, tokens, sessions>>
history == <<mailed, proved, accepted>>
vars    == <<tables, window, request, history, calls, faults>>

Free    == [state |-> "free"]
Deleted == [state |-> "deleted"]
Account == [state: {"here"}, email: Address, name: Name \cup Address \cup {"pending"},
            active: BOOLEAN, verified: BOOLEAN]
Token   == [user: User \cup {0}, type: {"email_verification", "password_reset"},
            state: {"none", "open", "used", "expired", "gone"}]

Scope == [op \in {"login", "verify", "resend", "resetlink", "confirm", "signup", "confirmcode", "forgot"} |->
            CASE op = "verify" -> "verify-otp"        [] op = "resend" -> "verify-otp-resend"
              [] op = "resetlink" -> "password-reset" [] op = "confirm" -> "email-verification"
              [] op = "signup" -> "signup-verify"     [] op = "confirmcode" -> "signup-confirm"
              [] op = "forgot" -> "forgot-password"   [] OTHER -> op]

Idle == [op |-> "none", pc |-> "idle", a |-> NoAddress, u |-> 0, id |-> 0]

TypeOK ==
  /\ users \in [User -> Account \cup {Free, Deleted}]
  /\ tokens \in [Code -> Token]
  /\ sessions \in [Session -> [user: User \cup {0}, state: {"none", "live", "over"}]]
  /\ window \in [Limited -> [count: 0..MaxCalls, ttl: BOOLEAN]]
  /\ \A r \in Request : /\ DOMAIN request[r] = DOMAIN Idle
                        /\ request[r].a \in Address \cup {NoAddress}
                        /\ request[r].u \in User \cup {0}
                        /\ request[r].id \in Code \cup Session \cup {0}
  /\ mailed \subseteq Code /\ proved \subseteq User
  /\ accepted \in [Code -> 0..MaxCalls]
  /\ calls \in 0..MaxCalls /\ faults \in 0..MaxFaults

\* What earlier requests may have left: nothing, a verified account, or a pending
\* one whose code was mailed.
Init ==
  /\ \E before \in {"nothing", "member", "pending"} :
       LET a == CHOOSE x \in Address : TRUE
           old(name, b) == [state |-> "here", email |-> a, name |-> name, active |-> TRUE, verified |-> b]
           first == CASE before = "nothing" -> Free
                      [] before = "member" -> old(a, TRUE)
                      [] before = "pending" -> old("pending", FALSE)
       IN /\ users = [u \in User |-> IF u = 1 THEN first ELSE Free]
          /\ tokens = [c \in Code |-> IF c = 1 /\ before = "pending"
                                      THEN [user |-> 1, type |-> "email_verification", state |-> "open"]
                                      ELSE [user |-> 0, type |-> "email_verification", state |-> "none"]]
          /\ mailed = IF before = "pending" THEN {1} ELSE {}
          /\ proved = IF before = "member" THEN {1} ELSE {}
  /\ sessions = [s \in Session |-> [user |-> 0, state |-> "none"]]
  /\ window = [s \in Limited |-> [count |-> 0, ttl |-> FALSE]]
  /\ request = [r \in Request |-> Idle]
  /\ accepted = [c \in Code |-> 0]
  /\ calls = 0 /\ faults = 0

-----------------------------------------------------------------------------
(* Helpers                                                                   *)

Present     == {u \in User : users[u].state = "here"}
ByEmail(a)  == {u \in Present : users[u].email = a}
ByName(n)   == {u \in Present : users[u].name = n}
Usable(u)   == u \in Present /\ users[u].active /\ users[u].verified
Smallest(S) == {x \in S : \A y \in S : x <= y}

Start(r, ops) == request[r].pc = "start" /\ request[r].op \in ops
At(r, pc)     == request[r].pc = pc
Go(r, pc, u)  == request' = [request EXCEPT ![r].pc = pc, ![r].u = u]
End(r)        == request' = [request EXCEPT ![r] = Idle]
\* the request goes on as `pc` for user u if P, and is answered with an error otherwise
GoIf(P, r, pc, u) == IF P THEN Go(r, pc, u) ELSE End(r)

\* the tables after the row of u is deleted (its tokens and sessions go with it)
RowDeleted(u) ==
  /\ users' = [users EXCEPT ![u] = Deleted]
  /\ tokens' = [c \in Code |-> IF tokens[c].user = u /\ tokens[c].state # "none"
                               THEN [tokens[c] EXCEPT !.state = "gone"] ELSE tokens[c]]
  /\ sessions' = [s \in Session |-> IF sessions[s].user = u THEN [sessions[s] EXCEPT !.state = "over"]
                                    ELSE sessions[s]]

SessionsOver(u) ==
  sessions' = [s \in Session |-> IF sessions[s].user = u THEN [sessions[s] EXCEPT !.state = "over"]
                                 ELSE sessions[s]]

TokenOpen(c, type) == tokens[c].state = "open" /\ tokens[c].type = type

\* code c is marked as used by somebody who proved to read the mail of user u
Used(c, u) ==
  /\ tokens' = [tokens EXCEPT ![c].state = "used"]
  /\ accepted' = [accepted EXCEPT ![c] = @ + 1]
  /\ proved' = proved \cup {u}
  /\ UNCHANGED mailed

-----------------------------------------------------------------------------
(* Arrival and rate limit                                                    *)

Creators == {"create", "signup"}

\* What people may ask for: with any address, an account they know of, a code
\* they were given, a session they hold.
Call(op) ==
  LET args(A, U, I) == [op: {op}, pc: {IF op \in DOMAIN Scope /\ Scope[op] \in Limited THEN "limit" ELSE "start"},
                        a: A, u: U, id: I]
      known == {s \in Session : sessions[s].state # "none"}
  IN CASE op \in {"login", "resetlink", "forgot"} \cup Creators -> args(Address, {0}, {0})
       [] op \in {"resend", "active", "reset", "delete"} -> args({NoAddress}, Present, {0})
       [] op \in {"verify", "confirm"} -> args({NoAddress}, Present, mailed)
       [] op \in {"confirmcode", "complete"} -> args(Address, {0}, mailed)
       [] op \in {"password"} -> args({NoAddress}, {0}, mailed)
       [] op \in {"refresh", "logout", "profile"} -> args({NoAddress}, {0}, known)
       [] op \in {"email"} -> args(Address, {0}, known)

Ops == {"login", "resetlink", "forgot", "create", "signup", "resend", "active", "reset", "delete", "verify",
        "confirm", "confirmcode", "complete", "password", "refresh", "logout", "profile", "email"}

Arrive(r) ==
  /\ request[r] = Idle /\ r \in Smallest({x \in Request : request[x] = Idle}) /\ calls < MaxCalls
  /\ calls' = calls + 1
  /\ \E op \in Ops : \E q \in Call(op) :
       /\ op \in Creators =>  \* a bound: one fresh row for each request that may create one
            Cardinality({u \in User : users[u] = Free})
              > Cardinality({x \in Request : request[x].op \in Creators})
       /\ request' = [request EXCEPT ![r] = q]
  /\ UNCHANGED <<tables, window, history, faults>>

\* Mutant: the window is given its end only when the limit is exceeded.
EnforceLate(r) ==
  /\ At(r, "limit")
  /\ LET s == Scope[request[r].op]
     IN /\ window' = [window EXCEPT ![s].count = @ + 1]
        /\ Go(r, IF window[s].count >= Limit[s] THEN "expire" ELSE "start", request[r].u)
  /\ UNCHANGED <<tables, history, calls, faults>>

\* INCR, and EXPIRE when it answered 1
enforce_rate_limit(r) ==
  /\ At(r, "limit")
  /\ LET s == Scope[request[r].op]
         count == window[s].count + 1
     IN /\ window' = [window EXCEPT ![s].count = count]
        /\ IF count = 1 THEN Go(r, "expire", request[r].u)
           ELSE GoIf(count <= Limit[s], r, "start", request[r].u)
  /\ UNCHANGED <<tables, history, calls, faults>>

SetExpiry(r) ==
  /\ At(r, "expire")
  /\ window' = [window EXCEPT ![Scope[request[r].op]].ttl = @ \/ window[Scope[request[r].op]].count > 0]
  /\ Go(r, "start", request[r].u)
  /\ UNCHANGED <<tables, history, calls, faults>>

WindowExpires(s) ==
  /\ window[s].ttl
  /\ window' = [window EXCEPT ![s] = [count |-> 0, ttl |-> FALSE]]
  /\ UNCHANGED <<tables, request, history, calls, faults>>

-----------------------------------------------------------------------------
(* The first statements of each handler                                      *)

login(r) ==
  /\ Start(r, {"login"})
  /\ IF \E u \in ByEmail(request[r].a) : users[u].active
     THEN \E u \in ByEmail(request[r].a) : Go(r, IF users[u].verified THEN "session" ELSE "store", u)
     ELSE End(r)
  /\ UNCHANGED <<tables, window, history, calls, faults>>

resend_login_otp(r) ==
  /\ Start(r, {"resend"})
  /\ GoIf(request[r].u \in Present /\ ~users[request[r].u].verified, r, "store", request[r].u)
  /\ UNCHANGED <<tables, window, history, calls, faults>>

verify_login_otp(r) ==
  /\ Start(r, {"verify"})
  /\ GoIf(request[r].u \in Present /\ ~users[request[r].u].verified, r, "check", request[r].u)
  /\ UNCHANGED <<tables, window, history, calls, faults>>

confirm_email_verification(r) ==
  /\ Start(r, {"confirm"})
  /\ GoIf(request[r].u \in Present /\ ~users[request[r].u].verified, r, "check", request[r].u)
  /\ UNCHANGED <<tables, window, history, calls, faults>>

request_password_reset(r) ==
  /\ Start(r, {"resetlink"})
  /\ LET found == {u \in ByEmail(request[r].a) : users[u].active}
     IN IF found = {} THEN End(r) ELSE \E u \in found : Go(r, "store", u)
  /\ UNCHANGED <<tables, window, history, calls, faults>>

forgot_password(r) ==
  /\ Start(r, {"forgot"})
  /\ LET found == {u \in ByEmail(request[r].a) : users[u].active}
     IN IF found = {} THEN End(r) ELSE \E u \in found : Go(r, "store", u)
  /\ UNCHANGED <<tables, window, history, calls, faults>>

\* The code alone is looked up: the address of the request is compared afterwards.
consume_password_reset_token(r) ==
  /\ Start(r, {"password"})
  /\ IF TokenOpen(request[r].id, "password_reset")
     THEN /\ Used(request[r].id, tokens[request[r].id].user)
          /\ SessionsOver(tokens[request[r].id].user)
     ELSE UNCHANGED <<tokens, sessions, history>>
  /\ End(r)
  /\ UNCHANGED <<users, window, calls, faults>>

create_user(r) ==
  /\ Start(r, {"create"})
  /\ \E n \in Name, u \in Smallest({x \in User : users[x] = Free}) :
       IF ByEmail(request[r].a) \cup ByName(n) = {}
       THEN /\ users' = [users EXCEPT ![u] = [state |-> "here", email |-> request[r].a, name |-> n,
                                              active |-> TRUE, verified |-> FALSE]]
            /\ Go(r, "store", u)
       ELSE UNCHANGED users /\ End(r)
  /\ UNCHANGED <<tokens, sessions, window, history, calls, faults>>

\* A pending row of the same address is used again.
send_signup_code(r) ==
  /\ Start(r, {"signup"})
  /\ IF ByEmail(request[r].a) = {}
     THEN \E u \in Smallest({x \in User : users[x] = Free}) :
            /\ users' = [users EXCEPT ![u] = [state |-> "here", email |-> request[r].a, name |-> "pending",
                                              active |-> TRUE, verified |-> FALSE]]
            /\ Go(r, "store", u)
     ELSE /\ \E u \in ByEmail(request[r].a) : GoIf(users[u].name = "pending", r, "store", u)
          /\ UNCHANGED users
  /\ UNCHANGED <<tokens, sessions, window, history, calls, faults>>

confirm_signup_code(r) ==
  /\ Start(r, {"confirmcode"})
  /\ IF ByEmail(request[r].a) = {} THEN End(r) ELSE \E u \in ByEmail(request[r].a) : Go(r, "check", u)
  /\ UNCHANGED <<tables, window, history, calls, faults>>

complete_user_creation(r) ==
  /\ Start(r, {"complete"})
  /\ IF ByEmail(request[r].a) = {} THEN End(r) ELSE \E u \in ByEmail(request[r].a) : Go(r, "token", u)
  /\ UNCHANGED <<tables, window, history, calls, faults>>

\* get_current_user and the handlers that need it
refresh_token(r) ==
  /\ Start(r, {"refresh"})
  /\ GoIf(sessions[request[r].id].state = "live", r, "account", sessions[request[r].id].user)
  /\ UNCHANGED <<tables, window, history, calls, faults>>

logout(r) ==
  /\ Start(r, {"logout"})
  /\ sessions' = [sessions EXCEPT ![request[r].id].state = "over"]
  /\ End(r)
  /\ UNCHANGED <<users, tokens, window, history, calls, faults>>

get_current_user(r) ==
  /\ Start(r, {"profile", "email"})
  /\ GoIf(sessions[request[r].id].state = "live" /\ Usable(sessions[request[r].id].user),
          r, request[r].op, sessions[request[r].id].user)
  /\ UNCHANGED <<tables, window, history, calls, faults>>

\* PATCH /me: a new address becomes the user name too, and stays verified
update_profile(r) ==
  /\ \/ /\ At(r, "email")
        /\ IF request[r].u \in Present
              /\ ByEmail(request[r].a) \cup ByName(request[r].a) \subseteq {request[r].u}
           THEN users' = [users EXCEPT ![request[r].u].email = request[r].a, ![request[r].u].name = request[r].a]
           ELSE UNCHANGED users
        /\ UNCHANGED sessions
     \/ /\ At(r, "profile") \* a new password ends the sessions
        /\ SessionsOver(request[r].u)
        /\ UNCHANGED users
  /\ End(r)
  /\ UNCHANGED <<tokens, window, history, calls, faults>>

admin_update_user(r) ==
  /\ Start(r, {"active"})
  /\ \E b \in BOOLEAN : users' = IF request[r].u \in Present THEN [users EXCEPT ![request[r].u].active = b] ELSE users
  /\ End(r)
  /\ UNCHANGED <<tokens, sessions, window, history, calls, faults>>

\* admin_reset_user_password, force_user_password_reset
admin_reset_user_password(r) ==
  /\ Start(r, {"reset"})
  /\ SessionsOver(request[r].u)
  /\ End(r)
  /\ UNCHANGED <<users, tokens, window, history, calls, faults>>

delete_user(r) ==
  /\ Start(r, {"delete"})
  /\ IF request[r].u \in Present THEN RowDeleted(request[r].u) ELSE UNCHANGED tables
  /\ End(r)
  /\ UNCHANGED <<window, history, calls, faults>>

-----------------------------------------------------------------------------
(* Later statements                                                          *)

IsReset(r) == request[r].op \in {"resetlink", "forgot"}

\* store_*_token is a DELETE and an INSERT, each a transaction of its own. The
\* DELETE of a reset token takes every expired row along (AND binds closer than OR).
DeleteOldTokens(r) ==
  /\ At(r, "store")
  /\ LET old(c) == \/ /\ tokens[c].user = request[r].u
                      /\ tokens[c].type = IF IsReset(r) THEN "password_reset" ELSE "email_verification"
                   \/ IsReset(r) /\ tokens[c].state = "expired"
     IN tokens' = [c \in Code |-> IF old(c) /\ tokens[c].state # "none"
                                  THEN [tokens[c] EXCEPT !.state = "gone"] ELSE tokens[c]]
  /\ Go(r, "insert", request[r].u)
  /\ UNCHANGED <<users, sessions, window, history, calls, faults>>

\* The INSERT fails if the account is gone. A completion token is in the answer.
InsertToken(r) ==
  /\ At(r, "insert")
  /\ LET q == request[r]
     IN IF q.u \in Present
        THEN \E c \in Smallest({x \in Code : tokens[x].state = "none"}) :
             /\ tokens' = [tokens EXCEPT ![c] = [user |-> q.u, state |-> "open",
                                                 type |-> IF IsReset(r) THEN "password_reset" ELSE "email_verification"]]
             /\ IF q.op = "confirmcode" THEN mailed' = mailed \cup {c} /\ End(r)
                ELSE request' = [request EXCEPT ![r].pc = "mail", ![r].id = c] /\ UNCHANGED mailed
        ELSE /\ IF q.op = "signup" THEN Go(r, "rollback", q.u) ELSE End(r)
             /\ UNCHANGED <<tokens, mailed>>
  /\ UNCHANGED <<users, sessions, window, proved, accepted, calls, faults>>

SendMail(r) ==
  /\ At(r, "mail")
  /\ mailed' = mailed \cup {request[r].id}
  /\ End(r)
  /\ UNCHANGED <<tables, window, proved, accepted, calls, faults>>

MailFails(r) ==
  /\ At(r, "mail") /\ "mail" \in Faults /\ faults < MaxFaults
  /\ faults' = faults + 1
  /\ GoIf(request[r].op \in Creators, r, "rollback", request[r].u)
  /\ UNCHANGED <<tables, window, history, calls>>

\* the row is deleted, whatever became of it meanwhile
RollBack(r) ==
  /\ At(r, "rollback")
  /\ IF request[r].u \in Present THEN RowDeleted(request[r].u) ELSE UNCHANGED tables
  /\ End(r)
  /\ UNCHANGED <<window, history, calls, faults>>

is_valid_verification_code(r) ==
  /\ At(r, "check")
  /\ LET q == request[r]
     IN GoIf(TokenOpen(q.id, "email_verification") /\ tokens[q.id].user = q.u,
             r, IF q.op = "confirmcode" THEN "store" ELSE "consume", q.u)
  /\ UNCHANGED <<tables, window, history, calls, faults>>

\* Mutant: the UPDATE does not look at used_at.
ConsumeAgain(r) ==
  /\ At(r, "consume")
  /\ Used(request[r].id, request[r].u) /\ Go(r, "mark", request[r].u)
  /\ UNCHANGED <<users, sessions, window, calls, faults>>

consume_verification_code(r) ==
  /\ At(r, "consume")
  /\ LET q == request[r]
     IN IF TokenOpen(q.id, "email_verification") /\ tokens[q.id].user = q.u
        THEN Used(q.id, q.u) /\ Go(r, "mark", q.u)
        ELSE End(r) /\ UNCHANGED <<tokens, history>>
  /\ UNCHANGED <<users, sessions, window, calls, faults>>

mark_email_verified(r) ==
  /\ At(r, "mark")
  /\ users' = IF request[r].u \in Present THEN [users EXCEPT ![request[r].u].verified = TRUE] ELSE users
  /\ GoIf(request[r].op = "verify", r, "session", request[r].u)
  /\ UNCHANGED <<tokens, sessions, window, history, calls, faults>>

\* Mutant: whose address the token proves is not compared with the one to complete.
VerifyAnyToken(r) ==
  /\ At(r, "token")
  /\ LET owner == tokens[request[r].id].user
     IN IF TokenOpen(request[r].id, "email_verification")
        THEN /\ Used(request[r].id, owner)
             /\ users' = [users EXCEPT ![owner].verified = TRUE]
             /\ Go(r, "finalize", request[r].u)
        ELSE End(r) /\ UNCHANGED <<users, tokens, history>>
  /\ UNCHANGED <<sessions, window, calls, faults>>

\* One transaction. Whose address the token proves is compared afterwards.
verify_email_token(r) ==
  /\ At(r, "token")
  /\ LET c == request[r].id
         owner == tokens[c].user
     IN IF TokenOpen(c, "email_verification")
        THEN /\ Used(c, owner)
             /\ users' = [users EXCEPT ![owner].verified = TRUE]
             /\ GoIf(users[owner].email = request[r].a, r, "finalize", request[r].u)
        ELSE End(r) /\ UNCHANGED <<users, tokens, history>>
  /\ UNCHANGED <<sessions, window, calls, faults>>

finalize_pending_user(r) ==
  /\ At(r, "finalize")
  /\ \E n \in Name :
       users' = IF request[r].u \in Present /\ ByName(n) \subseteq {request[r].u}
                THEN [users EXCEPT ![request[r].u].name = n, ![request[r].u].active = TRUE,
                                   ![request[r].u].verified = TRUE]
                ELSE users
  /\ End(r)
  /\ UNCHANGED <<tokens, sessions, window, history, calls, faults>>

RefreshAccount(r) ==
  /\ At(r, "account")
  /\ GoIf(Usable(request[r].u), r, "rotate", request[r].u)
  /\ UNCHANGED <<tables, window, history, calls, faults>>

RevokeOldSession(r) ==
  /\ At(r, "rotate")
  /\ sessions' = [sessions EXCEPT ![request[r].id].state = "over"]
  /\ Go(r, "session", request[r].u)
  /\ UNCHANGED <<users, tokens, window, history, calls, faults>>

create_token_pair(r) ==
  /\ At(r, "session")
  /\ IF request[r].u \in Present
     THEN \E s \in Smallest({x \in Session : sessions[x].state = "none"}) :
            sessions' = [sessions EXCEPT ![s] = [user |-> request[r].u, state |-> "live"]]
     ELSE UNCHANGED sessions
  /\ End(r)
  /\ UNCHANGED <<users, tokens, window, history, calls, faults>>

TokenExpires(c) ==
  /\ "expiry" \in Faults /\ faults < MaxFaults
  /\ tokens[c].state = "open"
  /\ faults' = faults + 1
  /\ tokens' = [tokens EXCEPT ![c].state = "expired"]
  /\ UNCHANGED <<users, sessions, window, request, history, calls>>

Step(r) ==
  \/ enforce_rate_limit(r) \/ SetExpiry(r)
  \/ login(r) \/ resend_login_otp(r) \/ verify_login_otp(r) \/ confirm_email_verification(r)
  \/ request_password_reset(r) \/ forgot_password(r) \/ consume_password_reset_token(r)
  \/ create_user(r) \/ send_signup_code(r) \/ confirm_signup_code(r) \/ complete_user_creation(r)
  \/ refresh_token(r) \/ logout(r) \/ get_current_user(r) \/ update_profile(r)
  \/ admin_update_user(r) \/ admin_reset_user_password(r) \/ delete_user(r)
  \/ DeleteOldTokens(r) \/ InsertToken(r) \/ SendMail(r) \/ RollBack(r)
  \/ is_valid_verification_code(r) \/ consume_verification_code(r) \/ mark_email_verified(r)
  \/ verify_email_token(r) \/ finalize_pending_user(r)
  \/ RefreshAccount(r) \/ RevokeOldSession(r) \/ create_token_pair(r)

Next ==
  \/ \E r \in Request : Arrive(r) \/ Step(r) \/ MailFails(r)
  \/ \E s \in Limited : WindowExpires(s)
  \/ \E c \in Code : TokenExpires(c)

Fairness == /\ WF_vars(\E r \in Request : Step(r))
            /\ \A s \in Limited : WF_vars(WindowExpires(s))

Spec == Init /\ [][Next]_vars /\ Fairness

-----------------------------------------------------------------------------
(* Properties                                                                *)

\* A code is used up by one request at most, also when several requests have
\* checked it before one of them marks it (consume_verification_code,
\* verify_email_token, consume_password_reset_token).
CodeUsedOnce == \A c \in Code : accepted[c] <= 1

\* Whoever is signed in has entered a code that was issued for this very account,
\* whatever statements of other requests came between the look-up of the account,
\* its verification and the opening of the session (login, verify_login_otp,
\* complete_user_creation, refresh_token).
SignedInProved ==
  /\ \A s \in Session : sessions[s].state = "live" => users[sessions[s].user].verified
  /\ \A u \in Present : users[u].verified => u \in proved

\* A client that ran into a limit is let in again: INCR and EXPIRE are two
\* commands, and every window that was opened ends (enforce_rate_limit).
WindowEnds == \A s \in Limited : window[s].count > 0 ~> window[s].count = 0
=============================================================================
