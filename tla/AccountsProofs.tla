---------------------------- MODULE AccountsProofs ----------------------------
(* Theorems about Accounts, for any number of addresses, users, codes,         *)
(* sessions, requests and failures. Nothing but AccountsAssumption is assumed. *)
EXTENDS Accounts, TLAPS

-----------------------------------------------------------------------------
(* Types                                                                       *)

Pc == {"idle", "limit", "expire", "start", "session", "store", "check", "token", "account", "profile",
       "email", "insert", "mail", "rollback", "consume", "mark", "finalize", "rotate"}
RequestType == [op: Ops \cup {"none"}, pc: Pc, a: Address \cup {NoAddress}, u: User \cup {0}, id: Nat]

(* A row that was deleted and one that was never made are no accounts.         *)
LEMMA Rows ==
  ASSUME NEW x \in Account \cup {Free, Deleted}
  PROVE  /\ x \in Account <=> x.state = "here"
         /\ x = Free <=> x.state = "free"
  BY DEF Account, Free, Deleted

LEMMA PresentType ==
  ASSUME users \in [User -> Account \cup {Free, Deleted}], NEW u \in Present
  PROVE  u \in User /\ users[u] \in Account /\ users[u] # Free
  BY Rows DEF Present

LEMMA IdleType == Idle \in RequestType /\ Idle.pc = "idle"
  BY DEF Idle, RequestType, Pc

(* What Go and End do to the requests.                                         *)
LEMMA GoStep ==
  ASSUME NEW r \in Request, request \in [Request -> RequestType], NEW pc \in Pc, NEW u \in User \cup {0},
         Go(r, pc, u)
  PROVE  /\ request' \in [Request -> RequestType]
         /\ request'[r].pc = pc /\ request'[r].u = u
         /\ request'[r].op = request[r].op /\ request'[r].a = request[r].a /\ request'[r].id = request[r].id
         /\ \A x \in Request : x # r => request'[x] = request[x]
  <1>1. request[r] \in RequestType
    OBVIOUS
  <1>2. request' = [request EXCEPT ![r] = [request[r] EXCEPT !.pc = pc, !.u = u]]
    BY DEF Go
  <1>3. [request[r] EXCEPT !.pc = pc, !.u = u] \in RequestType
    BY <1>1 DEF RequestType
  <1>4. request'[r] = [request[r] EXCEPT !.pc = pc, !.u = u]
    BY <1>2
  <1> QED BY <1>1, <1>2, <1>3, <1>4 DEF RequestType

LEMMA EndStep ==
  ASSUME NEW r \in Request, request \in [Request -> RequestType], End(r)
  PROVE  /\ request' \in [Request -> RequestType]
         /\ request'[r] = Idle
         /\ \A x \in Request : x # r => request'[x] = request[x]
  BY IdleType DEF End

-----------------------------------------------------------------------------
(* The invariant                                                               *)

EarlyPc   == {"limit", "expire", "start"}
LaterPc   == Pc \ (EarlyPc \cup {"idle"})
ByCode    == {"verify", "confirm", "confirmcode", "complete", "password"}
BySession == {"refresh", "logout", "profile", "email"}

(* What a request may take from its arguments at each of its statements, and   *)
(* what it has found out about its account.                                    *)
ArgumentsFit(r) ==
  LET q == request[r]
  IN /\ q.pc \in EarlyPc /\ q.op \in ByCode => q.id \in Code
     /\ q.pc \in EarlyPc /\ q.op \in BySession => q.id \in Session
     /\ q.pc \in {"check", "consume", "token", "mail"} => q.id \in Code
     /\ q.pc \in EarlyPc /\ q.op \in Creators \cup {"email"} => q.a \in Address
     /\ q.pc = "email" => q.a \in Address

AccountKnown(r) ==
  LET q == request[r]
  IN /\ q.pc \in LaterPc => q.u \in User /\ users[q.u] # Free
     /\ q.pc = "mark" => q.u \in proved
     /\ q.pc \in {"session", "rotate", "email"} /\ q.u \in Present => users[q.u].verified
     /\ q.pc = "finalize" /\ q.u \in Present => q.u \in proved
     /\ q.pc = "token" /\ q.u \in Present => users[q.u].email = q.a \/ q.u \in proved

RequestsOK == /\ request \in [Request -> RequestType]
              /\ \A r \in Request : ArgumentsFit(r) /\ AccountKnown(r)

EmailUnique      == \A u, v \in Present : users[u].email = users[v].email => u = v
VerifiedProved   == \A u \in Present : users[u].verified => u \in proved
TokensOwned      == \A c \in Code : tokens[c].state = "open" => tokens[c].user \in Present
SessionsVerified == \A s \in Session : sessions[s].state = "live" =>
                      sessions[s].user \in Present /\ users[sessions[s].user].verified
AcceptedOnce     == \A c \in Code : /\ accepted[c] <= 1
                                    /\ tokens[c].state \in {"none", "open"} => accepted[c] = 0

RowsOK  == users \in [User -> Account \cup {Free, Deleted}] /\ EmailUnique /\ VerifiedProved
CodesOK == /\ tokens \in [Code -> Token] /\ mailed \subseteq Code
           /\ accepted \in [Code -> Nat] /\ AcceptedOnce
LinksOK == /\ sessions \in [Session -> [user: User \cup {0}, state: {"none", "live", "over"}]]
           /\ TokensOwned /\ SessionsVerified

AccountsInv == RequestsOK /\ RowsOK /\ CodesOK /\ LinksOK

-----------------------------------------------------------------------------
(* What every step does to the accounts: a row never becomes free, a deleted   *)
(* one stays deleted, and one that stays keeps its e-mail unless it was proved. *)

Grow ==
  /\ proved \subseteq proved'
  /\ \A u \in User :
       /\ users[u] # Free => users'[u] # Free /\ (u \in Present' => u \in Present)
       /\ u \in Present /\ u \in Present' => /\ users[u].verified => users'[u].verified
                                             /\ users'[u].email = users[u].email \/ u \in proved

LEMMA SameGrow == ASSUME UNCHANGED users, proved \subseteq proved' PROVE Grow
  BY DEF Grow, Present

(* Under such a step only the request that takes it has anything to show.      *)
LEMMA RequestMoves ==
  ASSUME RequestsOK, Grow, NEW r \in Request, request' \in [Request -> RequestType],
         \A x \in Request : x # r => request'[x] = request[x],
         ArgumentsFit(r)', AccountKnown(r)'
  PROVE  RequestsOK'
  <1>1. ASSUME NEW x \in Request, x # r PROVE ArgumentsFit(x)' /\ AccountKnown(x)'
    <2>1. request'[x] = request[x] /\ ArgumentsFit(x) /\ AccountKnown(x)
      BY <1>1 DEF RequestsOK
    <2>2. ArgumentsFit(x)'
      BY <2>1 DEF ArgumentsFit
    <2>3. AccountKnown(x)'
      <3>1. CASE request[x].pc \in LaterPc
        <4>1. request[x].u \in User /\ users[request[x].u] # Free
          BY <2>1, <3>1 DEF AccountKnown
        <4>2. /\ users'[request[x].u] # Free
              /\ request[x].u \in Present' => request[x].u \in Present
              /\ request[x].u \in Present' /\ users[request[x].u].verified => users'[request[x].u].verified
              /\ request[x].u \in Present' => \/ users'[request[x].u].email = users[request[x].u].email
                                              \/ request[x].u \in proved
          BY <4>1 DEF Grow
        <4>3. \A u : u \in proved => u \in proved'
          BY DEF Grow
        <4> QED BY <2>1, <4>1, <4>2, <4>3 DEF AccountKnown
      <3>2. CASE request[x].pc \notin LaterPc
        BY <2>1, <3>2 DEF AccountKnown, LaterPc, EarlyPc, Pc
      <3> QED BY <3>1, <3>2
    <2> QED BY <2>2, <2>3
  <1> QED BY <1>1 DEF RequestsOK

LEMMA RequestEnds ==
  ASSUME RequestsOK, Grow, NEW r \in Request, End(r)
  PROVE  RequestsOK'
  <1>1. /\ request' \in [Request -> RequestType] /\ request'[r].pc = "idle"
        /\ \A x \in Request : x # r => request'[x] = request[x]
    BY EndStep, IdleType DEF RequestsOK
  <1>2. ArgumentsFit(r)' /\ AccountKnown(r)'
    BY <1>1 DEF ArgumentsFit, AccountKnown, EarlyPc, LaterPc
  <1> QED BY <1>1, <1>2, RequestMoves

(* A request that goes on to a later statement for an account it knows.        *)
LEMMA RequestGoes ==
  ASSUME RequestsOK, Grow, NEW r \in Request, NEW pc \in LaterPc, NEW u \in User, Go(r, pc, u),
         users'[u] # Free,
         pc \in {"check", "consume", "token", "mail"} => request[r].id \in Code,
         pc = "email" => request[r].a \in Address,
         pc = "mark" => u \in proved',
         pc \in {"session", "rotate", "email"} /\ u \in Present' => users'[u].verified,
         pc = "finalize" /\ u \in Present' => u \in proved',
         pc = "token" /\ u \in Present' => users'[u].email = request[r].a \/ u \in proved'
  PROVE  RequestsOK'
  <1>1. /\ request' \in [Request -> RequestType]
        /\ request'[r].pc = pc /\ request'[r].u = u
        /\ request'[r].op = request[r].op /\ request'[r].a = request[r].a /\ request'[r].id = request[r].id
        /\ \A x \in Request : x # r => request'[x] = request[x]
    <2>1. pc \in Pc /\ u \in User \cup {0} /\ request \in [Request -> RequestType]
      BY DEF RequestsOK, LaterPc
    <2> QED BY <2>1, GoStep
  <1>2. ArgumentsFit(r)'
    BY <1>1 DEF ArgumentsFit, EarlyPc, LaterPc
  <1>3. AccountKnown(r)'
    BY <1>1 DEF AccountKnown
  <1> QED BY <1>1, <1>2, <1>3, RequestMoves

(* The same while the tables and what is proved stay as they are.              *)
LEMMA RequestGoesOn ==
  ASSUME RequestsOK, NEW r \in Request, NEW pc \in LaterPc, NEW u \in User, Go(r, pc, u),
         UNCHANGED <<users, proved>>, users[u] # Free,
         pc \in {"check", "consume", "token", "mail"} => request[r].id \in Code,
         pc = "email" => request[r].a \in Address,
         pc \notin {"mark", "finalize"},
         pc \in {"session", "rotate", "email"} => users[u].verified,
         pc = "token" => users[u].email = request[r].a
  PROVE  RequestsOK'
  <1>1. Grow
    BY SameGrow
  <1> QED BY <1>1, RequestGoes

LEMMA TablesKept ==
  ASSUME RowsOK, CodesOK, LinksOK, UNCHANGED <<tables, history>>
  PROVE  RowsOK' /\ CodesOK' /\ LinksOK'
  BY DEF RowsOK, CodesOK, LinksOK, tables, history, EmailUnique, VerifiedProved, TokensOwned, SessionsVerified,
         AcceptedOnce, Present

-----------------------------------------------------------------------------
(* The steps that change no table                                              *)

LEMMA RequestWaits ==
  ASSUME RequestsOK, NEW r \in Request, NEW pc \in EarlyPc, request[r].pc \in EarlyPc,
         Go(r, pc, request[r].u), UNCHANGED <<users, proved>>
  PROVE  RequestsOK'
  <1>1. pc \in Pc /\ request \in [Request -> RequestType] /\ request[r].u \in User \cup {0}
    BY DEF RequestsOK, EarlyPc, Pc, RequestType
  <1>2. /\ request' \in [Request -> RequestType]
        /\ request'[r].pc = pc
        /\ request'[r].op = request[r].op /\ request'[r].a = request[r].a /\ request'[r].id = request[r].id
        /\ \A x \in Request : x # r => request'[x] = request[x]
    BY <1>1, GoStep
  <1>3. ArgumentsFit(r)
    BY DEF RequestsOK
  <1>4. ArgumentsFit(r)' /\ AccountKnown(r)'
    BY <1>2, <1>3 DEF ArgumentsFit, AccountKnown, EarlyPc, LaterPc
  <1> QED BY <1>2, <1>4, SameGrow, RequestMoves

(* What arrives fits: a code was mailed, a session was opened.                 *)
LEMMA CallType ==
  ASSUME mailed \subseteq Code, NEW op \in Ops, NEW q \in Call(op)
  PROVE  /\ q \in [op: Ops, pc: {"limit", "start"}, a: Address \cup {NoAddress}, u: User \cup {0},
                   id: Code \cup Session \cup {0}]
         /\ q.op = op
         /\ op \in ByCode => q.id \in Code
         /\ op \in BySession => q.id \in Session
         /\ op \in Creators \cup {"email"} => q.a \in Address
  <1> DEFINE start == {IF op \in DOMAIN Scope /\ Scope[op] \in Limited THEN "limit" ELSE "start"}
             Typed(A, U, I) == q \in [op: {op}, pc: start, a: A, u: U, id: I]
  <1>1. start \subseteq {"limit", "start"} /\ Present \subseteq User
    BY DEF Present
  <1>2. CASE op \in {"login", "resetlink", "forgot"} \cup Creators
    <2>1. Typed(Address, {0}, {0})
      BY <1>2 DEF Call, Creators
    <2> QED BY <1>1, <1>2, <2>1 DEF ByCode, BySession, Creators
  <1>3. CASE op \in {"resend", "active", "reset", "delete"}
    <2>1. Typed({NoAddress}, Present, {0})
      BY <1>3 DEF Call, Creators
    <2> QED BY <1>1, <1>3, <2>1 DEF ByCode, BySession, Creators
  <1>4. CASE op \in {"verify", "confirm"}
    <2>1. Typed({NoAddress}, Present, mailed)
      BY <1>4 DEF Call, Creators
    <2> QED BY <1>1, <1>4, <2>1 DEF ByCode, BySession, Creators
  <1>5. CASE op \in {"confirmcode", "complete"}
    <2>1. Typed(Address, {0}, mailed)
      BY <1>5 DEF Call, Creators
    <2> QED BY <1>1, <1>5, <2>1 DEF ByCode, BySession, Creators
  <1>6. CASE op = "password"
    <2>1. Typed({NoAddress}, {0}, mailed)
      BY <1>6 DEF Call, Creators
    <2> QED BY <1>1, <1>6, <2>1 DEF ByCode, BySession, Creators
  <1>7. CASE op \in {"refresh", "logout", "profile"}
    <2>1. Typed({NoAddress}, {0}, {s \in Session : sessions[s].state # "none"})
      BY <1>7 DEF Call, Creators
    <2> QED BY <1>1, <1>7, <2>1 DEF ByCode, BySession, Creators
  <1>8. CASE op = "email"
    <2>1. Typed(Address, {0}, {s \in Session : sessions[s].state # "none"})
      BY <1>8 DEF Call, Creators
    <2> QED BY <1>1, <1>8, <2>1 DEF ByCode, BySession, Creators
  <1> QED BY <1>2, <1>3, <1>4, <1>5, <1>6, <1>7, <1>8 DEF Ops, Creators

LEMMA ArriveStep ==
  ASSUME AccountsAssumption, AccountsInv, NEW r \in Request, Arrive(r)
  PROVE  AccountsInv'
  <1>1. PICK op \in Ops : \E q \in Call(op) : request' = [request EXCEPT ![r] = q]
    BY DEF Arrive
  <1>2. PICK q \in Call(op) : request' = [request EXCEPT ![r] = q]
    BY <1>1
  <1>3. mailed \subseteq Code /\ request \in [Request -> RequestType]
    BY DEF AccountsInv, CodesOK, RequestsOK
  <1>4. /\ q \in [op: Ops, pc: {"limit", "start"}, a: Address \cup {NoAddress}, u: User \cup {0},
                   id: Code \cup Session \cup {0}]
        /\ q.op = op
        /\ op \in ByCode => q.id \in Code
        /\ op \in BySession => q.id \in Session
        /\ op \in Creators \cup {"email"} => q.a \in Address
    BY <1>3, CallType
  <1>5. Code \cup Session \cup {0} \subseteq Nat
    BY DEF AccountsAssumption
  <1>6. q \in RequestType
    BY <1>4, <1>5 DEF RequestType, Pc
  <1>7. /\ request' \in [Request -> RequestType] /\ request'[r] = q
        /\ \A x \in Request : x # r => request'[x] = request[x]
    BY <1>2, <1>3, <1>6
  <1>8. ArgumentsFit(r)' /\ AccountKnown(r)'
    BY <1>4, <1>7 DEF ArgumentsFit, AccountKnown, EarlyPc, LaterPc
  <1>9. UNCHANGED <<tables, history>>
    BY DEF Arrive
  <1>10. RequestsOK'
    BY <1>7, <1>8, <1>9, RequestMoves, SameGrow DEF AccountsInv, tables, history
  <1> QED BY <1>9, <1>10, TablesKept DEF AccountsInv

LEMMA LimitStep ==
  ASSUME AccountsInv, NEW r \in Request, enforce_rate_limit(r) \/ SetExpiry(r)
  PROVE  AccountsInv'
  <1>1. UNCHANGED <<tables, history>>
    BY DEF enforce_rate_limit, SetExpiry
  <1>2. request[r].pc \in EarlyPc /\ RequestsOK /\ UNCHANGED <<users, proved>>
    BY <1>1 DEF enforce_rate_limit, SetExpiry, At, EarlyPc, AccountsInv, tables, history
  <1>3. Go(r, "expire", request[r].u) \/ Go(r, "start", request[r].u) \/ End(r)
    BY DEF enforce_rate_limit, SetExpiry, GoIf
  <1>4. "expire" \in EarlyPc /\ "start" \in EarlyPc
    BY DEF EarlyPc
  <1>5. RequestsOK'
    BY <1>2, <1>3, <1>4, RequestWaits, RequestEnds, SameGrow
  <1> QED BY <1>1, <1>5, TablesKept DEF AccountsInv

(* A look-up ends the request or sends it on for the account it found.         *)
LEMMA LookUp ==
  ASSUME AccountsInv, NEW r \in Request, UNCHANGED <<tables, history>>,
         \/ End(r)
         \/ \E u \in Present : Go(r, "store", u) \/ Go(r, "profile", u)
         \/ \E u \in Present : Go(r, "session", u) /\ users[u].verified
         \/ \E u \in Present : Go(r, "rotate", u) /\ users[u].verified
         \/ \E u \in Present : Go(r, "email", u) /\ users[u].verified /\ request[r].a \in Address
         \/ \E u \in Present : Go(r, "check", u) /\ request[r].id \in Code
         \/ \E u \in Present : Go(r, "token", u) /\ request[r].id \in Code /\ users[u].email = request[r].a
         \/ \E u \in Present : Go(r, "account", u)
  PROVE  AccountsInv'
  <1>1. RequestsOK /\ UNCHANGED <<users, proved>> /\ users \in [User -> Account \cup {Free, Deleted}]
    BY DEF AccountsInv, RowsOK, tables, history
  <1>2. \A u \in Present : u \in User /\ users[u] # Free
    BY <1>1, PresentType
  <1>3. {"store", "profile", "session", "rotate", "email", "check", "token", "account"} \subseteq LaterPc
    BY DEF LaterPc, EarlyPc, Pc
  <1>4. RequestsOK'
    <2>1. CASE End(r)
      BY <1>1, <2>1, RequestEnds, SameGrow
    <2>2. CASE \E u \in Present : Go(r, "store", u) \/ Go(r, "profile", u) \/ Go(r, "account", u)
      <3>1. PICK u \in Present, pc \in {"store", "profile", "account"} : Go(r, pc, u)
        BY <2>2
      <3> QED BY <1>1, <1>2, <1>3, <3>1, RequestGoesOn
    <2>3. CASE \E u \in Present : (Go(r, "session", u) \/ Go(r, "rotate", u)) /\ users[u].verified
      <3>1. PICK u \in Present, pc \in {"session", "rotate"} : Go(r, pc, u) /\ users[u].verified
        BY <2>3
      <3> QED BY <1>1, <1>2, <1>3, <3>1, RequestGoesOn
    <2>4. CASE \E u \in Present : Go(r, "email", u) /\ users[u].verified /\ request[r].a \in Address
      BY <1>1, <1>2, <1>3, <2>4, RequestGoesOn
    <2>5. CASE \E u \in Present : Go(r, "check", u) /\ request[r].id \in Code
      BY <1>1, <1>2, <1>3, <2>5, RequestGoesOn
    <2>6. CASE \E u \in Present : Go(r, "token", u) /\ request[r].id \in Code /\ users[u].email = request[r].a
      BY <1>1, <1>2, <1>3, <2>6, RequestGoesOn
    <2> QED BY <2>1, <2>2, <2>3, <2>4, <2>5, <2>6
  <1> QED BY <1>4, TablesKept DEF AccountsInv

LEMMA LookUpStep ==
  ASSUME AccountsInv, NEW r \in Request,
         \/ login(r) \/ resend_login_otp(r) \/ verify_login_otp(r) \/ confirm_email_verification(r)
         \/ request_password_reset(r) \/ forgot_password(r) \/ confirm_signup_code(r)
         \/ complete_user_creation(r) \/ refresh_token(r) \/ get_current_user(r) \/ RefreshAccount(r)
  PROVE  AccountsInv'
  <1>1. UNCHANGED <<tables, history>>
    BY DEF login, resend_login_otp, verify_login_otp, confirm_email_verification, request_password_reset,
           forgot_password, confirm_signup_code, complete_user_creation, refresh_token, get_current_user,
           RefreshAccount
  <1>2. /\ Start(r, ByCode) => request[r].id \in Code
        /\ Start(r, BySession) => request[r].id \in Session
        /\ Start(r, {"email"}) => request[r].a \in Address
    BY DEF AccountsInv, RequestsOK, ArgumentsFit, EarlyPc, Start
  <1>3. \A a : ByEmail(a) \subseteq Present /\ \A u \in ByEmail(a) : users[u].email = a
    BY DEF ByEmail
  <1>4. \A u : Usable(u) => u \in Present /\ users[u].verified
    BY DEF Usable
  <1>5. CASE login(r)
    <2>1. \/ End(r)
          \/ \E u \in ByEmail(request[r].a) : Go(r, IF users[u].verified THEN "session" ELSE "store", u)
      BY <1>5 DEF login
    <2>2. \/ End(r)
          \/ \E u \in Present : Go(r, "store", u)
          \/ \E u \in Present : Go(r, "session", u) /\ users[u].verified
      BY <1>3, <2>1
    <2> QED BY <1>1, <2>2, LookUp
  <1>6. CASE resend_login_otp(r)
    BY <1>1, <1>6, LookUp DEF resend_login_otp, GoIf
  <1>7. CASE verify_login_otp(r) \/ confirm_email_verification(r)
    <2>1. request[r].id \in Code
      BY <1>2, <1>7 DEF verify_login_otp, confirm_email_verification, Start, ByCode
    <2>2. End(r) \/ \E u \in Present : Go(r, "check", u) /\ request[r].id \in Code
      BY <1>7, <2>1 DEF verify_login_otp, confirm_email_verification, GoIf
    <2> QED BY <1>1, <2>2, LookUp
  <1>8. CASE request_password_reset(r) \/ forgot_password(r)
    <2>1. End(r) \/ \E u \in Present : Go(r, "store", u)
      BY <1>3, <1>8 DEF request_password_reset, forgot_password
    <2> QED BY <1>1, <2>1, LookUp
  <1>9. CASE confirm_signup_code(r)
    <2>1. request[r].id \in Code
      BY <1>2, <1>9 DEF confirm_signup_code, Start, ByCode
    <2>2. End(r) \/ \E u \in Present : Go(r, "check", u) /\ request[r].id \in Code
      BY <1>3, <1>9, <2>1 DEF confirm_signup_code
    <2> QED BY <1>1, <2>2, LookUp
  <1>10. CASE complete_user_creation(r)
    <2>1. request[r].id \in Code
      BY <1>2, <1>10 DEF complete_user_creation, Start, ByCode
    <2>2. \/ End(r)
          \/ \E u \in Present : Go(r, "token", u) /\ request[r].id \in Code /\ users[u].email = request[r].a
      BY <1>3, <1>10, <2>1 DEF complete_user_creation
    <2> QED BY <1>1, <2>2, LookUp
  <1>11. CASE refresh_token(r)
    <2>1. request[r].id \in Session
      BY <1>2, <1>11 DEF refresh_token, Start, BySession
    <2>2. End(r) \/ \E u \in Present : Go(r, "account", u)
      BY <1>11, <2>1 DEF refresh_token, GoIf, AccountsInv, LinksOK, SessionsVerified
    <2> QED BY <1>1, <2>2, LookUp
  <1>12. CASE get_current_user(r)
    <2>1. \/ End(r)
          \/ \E u \in Present : /\ Go(r, request[r].op, u) /\ users[u].verified
                                /\ request[r].op \in {"profile", "email"} /\ Start(r, {"profile", "email"})
      BY <1>4, <1>12 DEF get_current_user, GoIf, Start
    <2>2. request[r].op = "email" /\ Start(r, {"profile", "email"}) => request[r].a \in Address
      BY <1>2 DEF Start
    <2>3. \/ End(r)
          \/ \E u \in Present : Go(r, "profile", u)
          \/ \E u \in Present : Go(r, "email", u) /\ users[u].verified /\ request[r].a \in Address
      BY <2>1, <2>2
    <2> QED BY <1>1, <2>3, LookUp
  <1>13. CASE RefreshAccount(r)
    <2>1. End(r) \/ \E u \in Present : Go(r, "rotate", u) /\ users[u].verified
      BY <1>4, <1>13 DEF RefreshAccount, GoIf
    <2> QED BY <1>1, <2>1, LookUp
  <1> QED BY <1>5, <1>6, <1>7, <1>8, <1>9, <1>10, <1>11, <1>12, <1>13

LEMMA HoldsAccount ==
  ASSUME AccountsInv, NEW r \in Request, request[r].pc \in LaterPc
  PROVE  request[r].u \in User /\ users[request[r].u] # Free
  BY DEF AccountsInv, RequestsOK, AccountKnown

LEMMA MailFailsStep ==
  ASSUME AccountsInv, NEW r \in Request, MailFails(r)
  PROVE  AccountsInv'
  <1>1. UNCHANGED <<tables, history>> /\ UNCHANGED <<users, proved>> /\ RequestsOK
    BY DEF MailFails, AccountsInv, tables, history
  <1>2. "mail" \in LaterPc /\ "rollback" \in LaterPc
    BY DEF LaterPc, EarlyPc, Pc
  <1>3. request[r].u \in User /\ users[request[r].u] # Free
    BY <1>2, HoldsAccount DEF MailFails, At
  <1>4. End(r) \/ Go(r, "rollback", request[r].u)
    BY DEF MailFails, GoIf
  <1>5. RequestsOK'
    BY <1>1, <1>2, <1>3, <1>4, RequestEnds, SameGrow, RequestGoesOn
  <1> QED BY <1>1, <1>5, TablesKept DEF AccountsInv

LEMMA CheckStep ==
  ASSUME AccountsInv, NEW r \in Request, is_valid_verification_code(r)
  PROVE  AccountsInv'
  <1>1. UNCHANGED <<tables, history>> /\ UNCHANGED <<users, proved>> /\ RequestsOK
    BY DEF is_valid_verification_code, AccountsInv, tables, history
  <1>2. "check" \in LaterPc /\ "store" \in LaterPc /\ "consume" \in LaterPc
    BY DEF LaterPc, EarlyPc, Pc
  <1>3. request[r].pc = "check"
    BY DEF is_valid_verification_code, At
  <1>4. request[r].u \in User /\ users[request[r].u] # Free /\ request[r].id \in Code
    BY <1>1, <1>2, <1>3, HoldsAccount DEF RequestsOK, ArgumentsFit
  <1>5. End(r) \/ Go(r, "store", request[r].u) \/ Go(r, "consume", request[r].u)
    BY DEF is_valid_verification_code, GoIf
  <1>6. RequestsOK'
    BY <1>1, <1>2, <1>4, <1>5, RequestEnds, SameGrow, RequestGoesOn
  <1> QED BY <1>1, <1>6, TablesKept DEF AccountsInv

-----------------------------------------------------------------------------
(* The steps that change sessions only                                         *)

SessionType == [user: User \cup {0}, state: {"none", "live", "over"}]
SessionsEnd == /\ sessions' \in [Session -> SessionType]
               /\ \A s \in Session : /\ sessions'[s].user = sessions[s].user
                                     /\ sessions'[s].state = "live" => sessions[s].state = "live"

LEMMA SessionsOverEnd ==
  ASSUME sessions \in [Session -> SessionType], NEW u, SessionsOver(u)
  PROVE  SessionsEnd
  BY DEF SessionsOver, SessionsEnd, SessionType

LEMMA SessionOverEnd ==
  ASSUME sessions \in [Session -> SessionType], NEW s, sessions' = [sessions EXCEPT ![s].state = "over"]
  PROVE  SessionsEnd
  BY DEF SessionsEnd, SessionType

LEMMA SessionsEndStep ==
  ASSUME LinksOK, SessionsEnd, UNCHANGED <<users, tokens>>
  PROVE  LinksOK'
  BY DEF LinksOK, SessionsEnd, SessionType, TokensOwned, SessionsVerified, Present

LEMMA RowsCodesKept ==
  ASSUME RowsOK, CodesOK, UNCHANGED <<users, tokens, history>>
  PROVE  RowsOK' /\ CodesOK'
  BY DEF RowsOK, CodesOK, history, EmailUnique, VerifiedProved, AcceptedOnce, Present

LEMMA SessionStep ==
  ASSUME AccountsInv, NEW r \in Request,
         \/ logout(r) \/ admin_reset_user_password(r) \/ RevokeOldSession(r) \/ create_token_pair(r)
         \/ update_profile(r) /\ At(r, "profile")
  PROVE  AccountsInv'
  <1> DEFINE u == request[r].u
  <1>1. UNCHANGED <<users, tokens, history>> /\ UNCHANGED <<users, tokens, proved>> /\ RequestsOK
    BY DEF logout, admin_reset_user_password, RevokeOldSession, create_token_pair, update_profile, At,
           AccountsInv, history
  <1>2. sessions \in [Session -> SessionType]
    BY DEF AccountsInv, LinksOK, SessionType
  <1>3. "rotate" \in LaterPc /\ "session" \in LaterPc
    BY DEF LaterPc, EarlyPc, Pc
  <1>4. RequestsOK'
    <2>1. CASE End(r)
      BY <1>1, <2>1, RequestEnds, SameGrow
    <2>2. CASE RevokeOldSession(r)
      <3>1. request[r].pc = "rotate" /\ Go(r, "session", u)
        BY <2>2 DEF RevokeOldSession, At
      <3>2. u \in User /\ users[u] # Free
        BY <1>3, <3>1, HoldsAccount
      <3>3. u \in Present => users[u].verified
        BY <1>1, <3>1 DEF RequestsOK, AccountKnown
      <3>4. u \in Present' => u \in Present
        BY <1>1 DEF Present
      <3> QED BY <1>1, <1>3, <3>1, <3>2, <3>3, <3>4, RequestGoes, SameGrow
    <2> QED BY <2>1, <2>2 DEF logout, admin_reset_user_password, create_token_pair, update_profile
  <1>5. LinksOK'
    <2>1. CASE SessionsEnd
      BY <1>1, <2>1, SessionsEndStep DEF AccountsInv
    <2>2. CASE create_token_pair(r) /\ u \in Present
      <3>1. PICK s \in Session : sessions' = [sessions EXCEPT ![s] = [user |-> u, state |-> "live"]]
        BY <2>2 DEF create_token_pair, Smallest
      <3>2. users[u].verified
        BY <1>1, <2>2 DEF create_token_pair, At, RequestsOK, AccountKnown
      <3>3. u \in User
        BY <2>2 DEF Present
      <3>4. sessions' \in [Session -> SessionType]
        BY <1>2, <3>1, <3>3 DEF SessionType
      <3>5. \A x \in Session : sessions'[x] = sessions[x] \/ sessions'[x].user = u
        BY <1>2, <3>1
      <3> QED BY <1>1, <2>2, <3>2, <3>4, <3>5 DEF AccountsInv, LinksOK, SessionType, TokensOwned,
                                                  SessionsVerified, Present
    <2>3. CASE create_token_pair(r) /\ u \notin Present
      <3>1. UNCHANGED sessions
        BY <2>3 DEF create_token_pair
      <3>2. SessionsEnd
        BY <1>2, <3>1 DEF SessionsEnd
      <3> QED BY <2>1, <3>2
    <2>4. CASE logout(r) \/ RevokeOldSession(r)
      <3>1. sessions' = [sessions EXCEPT ![request[r].id].state = "over"]
        BY <2>4 DEF logout, RevokeOldSession
      <3> QED BY <1>2, <2>1, <3>1, SessionOverEnd
    <2>5. CASE admin_reset_user_password(r) \/ (update_profile(r) /\ At(r, "profile"))
      <3>1. SessionsOver(u)
        BY <2>5 DEF admin_reset_user_password, update_profile, At
      <3> QED BY <1>2, <2>1, <3>1, SessionsOverEnd
    <2> QED BY <2>2, <2>3, <2>4, <2>5
  <1> QED BY <1>1, <1>4, <1>5, RowsCodesKept DEF AccountsInv

-----------------------------------------------------------------------------
(* The steps that change a row of users                                        *)

RowsType == [User -> Account \cup {Free, Deleted}]

LEMMA RowChanges ==
  ASSUME RowsOK, NEW u \in Present, users' \in RowsType, users'[u] \in Account,
         \A x \in User : x # u => users'[x] = users[x],
         proved \subseteq proved',
         users[u].verified => users'[u].verified,
         users'[u].verified => u \in proved',
         users'[u].email # users[u].email => u \in proved /\ ByEmail(users'[u].email) \subseteq {u}
  PROVE  RowsOK' /\ Grow /\ Present' = Present
  <1>1. u \in User /\ users[u] \in Account /\ users[u] # Free
    BY PresentType DEF RowsOK
  <1>2. users'[u].state = "here" /\ users'[u] # Free
    BY Rows DEF Account
  <1>3. Present' = Present
    BY <1>1, <1>2 DEF Present
  <1>4. EmailUnique'
    BY <1>1, <1>3 DEF RowsOK, EmailUnique, ByEmail, Present
  <1>5. VerifiedProved'
    BY <1>1, <1>3 DEF RowsOK, VerifiedProved, Present
  <1>6. Grow
    BY <1>1, <1>2, <1>3 DEF Grow
  <1> QED BY <1>3, <1>4, <1>5, <1>6 DEF RowsOK, RowsType

LEMMA RowIsMade ==
  ASSUME RowsOK, NEW u \in User, users[u] = Free, NEW a \in Address, NEW n \in Name \cup {"pending"},
         ByEmail(a) = {}, UNCHANGED proved,
         users' = [users EXCEPT ![u] = [state |-> "here", email |-> a, name |-> n,
                                        active |-> TRUE, verified |-> FALSE]]
  PROVE  RowsOK' /\ Grow /\ Present' = Present \cup {u} /\ users'[u] # Free
  <1>1. users \in RowsType /\ EmailUnique /\ VerifiedProved
    BY DEF RowsOK, RowsType
  <1>2. [state |-> "here", email |-> a, name |-> n, active |-> TRUE, verified |-> FALSE] \in Account
    BY DEF Account
  <1>3. /\ users' \in RowsType /\ users'[u].email = a /\ users'[u].state = "here" /\ ~users'[u].verified
        /\ users'[u] # Free
        /\ \A x \in User : x # u => users'[x] = users[x]
    BY <1>1, <1>2, Rows DEF RowsType
  <1>4. Present' = Present \cup {u}
    BY <1>3 DEF Present
  <1>5. EmailUnique'
    <2>1. ASSUME NEW x \in Present, NEW y \in Present', users'[x].email = users'[y].email, x # u PROVE x = y
      <3>1. x \in User /\ users'[x] = users[x]
        BY <1>3, <2>1 DEF Present
      <3>2. users[x].email # a
        BY DEF ByEmail
      <3>3. y # u
        BY <1>3, <2>1, <3>1, <3>2
      <3>4. y \in Present /\ users'[y] = users[y]
        BY <1>3, <1>4, <3>3 DEF Present
      <3> QED BY <1>1, <2>1, <3>1, <3>4 DEF EmailUnique
    <2> QED BY <1>4, <2>1 DEF EmailUnique
  <1>6. VerifiedProved'
    BY <1>1, <1>3, <1>4 DEF VerifiedProved, Present
  <1>7. Grow
    <2>1. ASSUME NEW x \in User, users[x] # Free PROVE x # u /\ users'[x] = users[x]
      BY <1>3, <2>1
    <2>2. \A x \in Present : x \in User /\ users[x] # Free
      BY <1>1, PresentType DEF RowsType
    <2> QED BY <2>1, <2>2 DEF Grow, Present
  <1> QED BY <1>3, <1>4, <1>5, <1>6, <1>7 DEF RowsOK, RowsType

LEMMA LinksGrow ==
  ASSUME LinksOK, Grow, UNCHANGED <<tokens, sessions>>, Present \subseteq Present',
         users \in RowsType
  PROVE  LinksOK'
  <1>1. \A u \in Present : u \in Present' /\ (users[u].verified => users'[u].verified)
    BY DEF Grow, Present
  <1> QED BY <1>1 DEF LinksOK, TokensOwned, SessionsVerified

LEMMA CodesKept ==
  ASSUME CodesOK, UNCHANGED <<tokens, mailed, accepted>>
  PROVE  CodesOK'
  BY DEF CodesOK, AcceptedOnce

LEMMA CreateStep ==
  ASSUME AccountsInv, NEW r \in Request, create_user(r) \/ send_signup_code(r)
  PROVE  AccountsInv'
  <1>1. request[r].a \in Address
    BY DEF AccountsInv, RequestsOK, ArgumentsFit, create_user, send_signup_code, Start, EarlyPc, Creators
  <1>2. "store" \in LaterPc
    BY DEF LaterPc, EarlyPc, Pc
  <1>3. UNCHANGED <<tokens, sessions>> /\ UNCHANGED <<tokens, mailed, accepted>> /\ UNCHANGED proved
    BY DEF create_user, send_signup_code, history
  <1> DEFINE kept == UNCHANGED users /\ (End(r) \/ \E u \in Present : Go(r, "store", u))
             Made(u, n) == /\ users[u] = Free /\ ByEmail(request[r].a) = {} /\ Go(r, "store", u)
                           /\ users' = [users EXCEPT ![u] =
                                          [state |-> "here", email |-> request[r].a, name |-> n,
                                           active |-> TRUE, verified |-> FALSE]]
  <1>4. kept \/ \E u \in User, n \in Name \cup {"pending"} : Made(u, n)
    <2>1. CASE create_user(r)
      <3>1. PICK n \in Name, u \in Smallest({x \in User : users[x] = Free}) :
              IF ByEmail(request[r].a) \cup ByName(n) = {}
              THEN /\ users' = [users EXCEPT ![u] = [state |-> "here", email |-> request[r].a, name |-> n,
                                                     active |-> TRUE, verified |-> FALSE]]
                   /\ Go(r, "store", u)
              ELSE UNCHANGED users /\ End(r)
        BY <2>1 DEF create_user
      <3>2. u \in User /\ users[u] = Free
        BY DEF Smallest
      <3> QED BY <3>1, <3>2
    <2>2. CASE send_signup_code(r)
      <3>1. CASE ByEmail(request[r].a) = {}
        <4>1. PICK u \in Smallest({x \in User : users[x] = Free}) :
                /\ users' = [users EXCEPT ![u] = [state |-> "here", email |-> request[r].a, name |-> "pending",
                                                  active |-> TRUE, verified |-> FALSE]]
                /\ Go(r, "store", u)
          BY <2>2, <3>1 DEF send_signup_code
        <4>2. u \in User /\ users[u] = Free
          BY DEF Smallest
        <4> QED BY <3>1, <4>1, <4>2
      <3>2. CASE ByEmail(request[r].a) # {}
        BY <2>2, <3>2 DEF send_signup_code, GoIf, ByEmail
      <3> QED BY <3>1, <3>2
    <2> QED BY <2>1, <2>2
  <1>5. CASE kept
    <2>1. UNCHANGED <<tables, history>>
      BY <1>5 DEF create_user, send_signup_code, tables, history
    <2> QED BY <1>5, <2>1, LookUp
  <1>6. CASE \E u \in User, n \in Name \cup {"pending"} : Made(u, n)
    <2>1. PICK u \in User, n \in Name \cup {"pending"} : Made(u, n)
      BY <1>6
    <2>2. RowsOK' /\ Grow /\ Present' = Present \cup {u} /\ users'[u] # Free
      BY <1>1, <1>3, <2>1, RowIsMade DEF AccountsInv
    <2>3. RequestsOK'
      BY <1>2, <2>1, <2>2, RequestGoes DEF AccountsInv
    <2>4. LinksOK' /\ CodesOK'
      BY <1>3, <2>2, LinksGrow, CodesKept DEF AccountsInv, RowsOK, RowsType
    <2> QED BY <2>2, <2>3, <2>4 DEF AccountsInv
  <1> QED BY <1>4, <1>5, <1>6

(* mark, finalize, profile and administrator: the row of a known account       *)
LEMMA RowStep ==
  ASSUME AccountsInv, NEW r \in Request,
         \/ mark_email_verified(r) \/ finalize_pending_user(r) \/ admin_update_user(r)
         \/ (update_profile(r) /\ At(r, "email"))
  PROVE  AccountsInv'
  <1> DEFINE u == request[r].u
  <1>1. /\ UNCHANGED <<tokens, sessions>> /\ UNCHANGED <<tokens, mailed, accepted>> /\ UNCHANGED proved
        /\ UNCHANGED <<tokens, sessions, history>>
    BY DEF mark_email_verified, finalize_pending_user, admin_update_user, update_profile, At, history
  <1>2. users \in RowsType /\ RowsOK /\ RequestsOK /\ LinksOK /\ CodesOK
    BY DEF AccountsInv, RowsOK, RowsType
  <1>3. ASSUME u \in Present, users # users'
        PROVE  RowsOK' /\ Grow /\ Present' = Present /\ (mark_email_verified(r) => users'[u].verified)
    <2>1. u \in User /\ users[u] \in Account /\ users[u] # Free
      BY <1>2, <1>3, PresentType DEF RowsType
    <2>2. /\ users[u].email \in Address /\ users[u].active \in BOOLEAN /\ users[u].verified \in BOOLEAN
          /\ users[u].name \in Name \cup Address \cup {"pending"}
      BY <2>1 DEF Account
    <2>3. CASE mark_email_verified(r)
      <3>1. users' = [users EXCEPT ![u].verified = TRUE]
        BY <1>3, <2>3 DEF mark_email_verified
      <3>2. /\ users' \in RowsType /\ users'[u] \in Account /\ users'[u].verified
            /\ users'[u].email = users[u].email
            /\ \A x \in User : x # u => users'[x] = users[x]
        BY <1>2, <2>1, <3>1 DEF RowsType, Account
      <3>3. u \in proved
        BY <1>2, <2>3 DEF mark_email_verified, At, RequestsOK, AccountKnown
      <3> QED BY <1>1, <1>2, <1>3, <3>2, <3>3, RowChanges
    <2>4. CASE finalize_pending_user(r)
      <3>1. PICK n \in Name : users' = [users EXCEPT ![u].name = n, ![u].active = TRUE, ![u].verified = TRUE]
        BY <1>3, <2>4 DEF finalize_pending_user
      <3>2. /\ users' \in RowsType /\ users'[u] \in Account /\ users'[u].verified
            /\ users'[u].email = users[u].email
            /\ \A x \in User : x # u => users'[x] = users[x]
        BY <1>2, <2>1, <3>1 DEF RowsType, Account
      <3>3. u \in proved
        BY <1>2, <1>3, <2>4 DEF finalize_pending_user, At, RequestsOK, AccountKnown
      <3> QED BY <1>1, <1>2, <1>3, <3>2, <3>3, RowChanges
    <2>5. CASE admin_update_user(r)
      <3>1. PICK b \in BOOLEAN : users' = [users EXCEPT ![u].active = b]
        BY <1>3, <2>5 DEF admin_update_user
      <3>2. /\ users' \in RowsType /\ users'[u] \in Account
            /\ users'[u].email = users[u].email /\ (users'[u].verified <=> users[u].verified)
            /\ \A x \in User : x # u => users'[x] = users[x]
        BY <1>2, <2>1, <3>1 DEF RowsType, Account
      <3>3. /\ users[u].verified => users'[u].verified
            /\ users'[u].verified => u \in proved'
            /\ proved \subseteq proved'
        BY <1>1, <1>2, <1>3, <3>2 DEF RowsOK, VerifiedProved
      <3> QED BY <1>2, <1>3, <2>5, <3>2, <3>3, RowChanges DEF mark_email_verified, admin_update_user, At, Start
    <2>6. CASE update_profile(r) /\ At(r, "email")
      <3>1. /\ ByEmail(request[r].a) \subseteq {u}
            /\ users' = [users EXCEPT ![u].email = request[r].a, ![u].name = request[r].a]
        BY <1>3, <2>6 DEF update_profile, At
      <3>2. request[r].a \in Address /\ users[u].verified
        BY <1>2, <1>3, <2>6 DEF At, RequestsOK, ArgumentsFit, AccountKnown, EarlyPc
      <3>3. /\ users' \in RowsType /\ users'[u] \in Account
            /\ users'[u].email = request[r].a /\ (users'[u].verified <=> users[u].verified)
            /\ \A x \in User : x # u => users'[x] = users[x]
        BY <1>2, <2>1, <3>1, <3>2 DEF RowsType, Account
      <3>4. /\ users[u].verified => users'[u].verified
            /\ u \in proved /\ u \in proved'
            /\ proved \subseteq proved'
        BY <1>1, <1>2, <1>3, <3>2, <3>3 DEF RowsOK, VerifiedProved
      <3> QED BY <1>2, <1>3, <2>6, <3>1, <3>3, <3>4, RowChanges DEF mark_email_verified, At
    <2> QED BY <2>3, <2>4, <2>5, <2>6
  <1>4. RowsOK' /\ Grow /\ Present' = Present /\ (mark_email_verified(r) /\ u \in Present => users'[u].verified)
    <2>1. CASE users # users'
      <3>1. u \in Present
        BY <2>1 DEF mark_email_verified, finalize_pending_user, admin_update_user, update_profile, At
      <3> QED BY <1>3, <2>1, <3>1
    <2>2. CASE UNCHANGED users
      <3>1. RowsOK' /\ Present' = Present
        BY <1>1, <1>2, <2>2 DEF RowsOK, EmailUnique, VerifiedProved, Present
      <3>2. mark_email_verified(r) /\ u \in Present => users'[u].verified
        <4>1. HAVE mark_email_verified(r) /\ u \in Present
        <4>2. u \in User /\ users[u] \in Account
          BY <1>2, <4>1, PresentType DEF RowsType
        <4>3. users' = [users EXCEPT ![u].verified = TRUE]
          BY <4>1 DEF mark_email_verified
        <4> QED BY <1>2, <4>2, <4>3 DEF RowsType, Account
      <3> QED BY <1>1, <2>2, <3>1, <3>2, SameGrow
    <2> QED BY <2>1, <2>2
  <1>5. RequestsOK'
    <2>1. CASE End(r)
      BY <1>2, <1>4, <2>1, RequestEnds
    <2>2. CASE mark_email_verified(r) /\ ~End(r)
      <3>1. request[r].pc = "mark" /\ Go(r, "session", u)
        BY <2>2 DEF mark_email_verified, GoIf, At
      <3>2. "mark" \in LaterPc /\ "session" \in LaterPc
        BY DEF LaterPc, EarlyPc, Pc
      <3>3. u \in User /\ users[u] # Free
        BY <3>1, <3>2, HoldsAccount
      <3>4. users'[u] # Free
        BY <1>4, <3>3 DEF Grow
      <3> QED BY <1>2, <1>4, <2>2, <3>1, <3>2, <3>3, <3>4, RequestGoes
    <2> QED BY <2>1, <2>2 DEF finalize_pending_user, admin_update_user, update_profile
  <1>6. LinksOK' /\ CodesOK'
    BY <1>1, <1>2, <1>4, LinksGrow, CodesKept
  <1> QED BY <1>4, <1>5, <1>6 DEF AccountsInv

-----------------------------------------------------------------------------
(* The steps that change codes                                                 *)

TokensClose == /\ tokens' \in [Code -> Token]
               /\ \A c \in Code : tokens'[c].state \in {"none", "open"} => tokens'[c] = tokens[c]

LEMMA TokensCloseStep ==
  ASSUME RowsOK, CodesOK, LinksOK, TokensClose, UNCHANGED <<users, sessions, history>>
  PROVE  RowsOK' /\ CodesOK' /\ LinksOK'
  BY DEF RowsOK, CodesOK, LinksOK, TokensClose, history, EmailUnique, VerifiedProved, TokensOwned,
         SessionsVerified, AcceptedOnce, Present

LEMMA TokenExpiresStep ==
  ASSUME AccountsInv, NEW c \in Code, TokenExpires(c)
  PROVE  AccountsInv'
  <1>1. tokens \in [Code -> Token]
    BY DEF AccountsInv, CodesOK
  <1>2. tokens' = [tokens EXCEPT ![c].state = "expired"]
    BY DEF TokenExpires
  <1>3. TokensClose
    BY <1>1, <1>2 DEF TokensClose, Token
  <1>4. UNCHANGED <<users, sessions, history>> /\ UNCHANGED <<users, proved, request>>
    BY DEF TokenExpires, history
  <1>5. RequestsOK'
    BY <1>4 DEF AccountsInv, RequestsOK, ArgumentsFit, AccountKnown, Present
  <1> QED BY <1>3, <1>4, <1>5, TokensCloseStep DEF AccountsInv

LEMMA DeleteOldStep ==
  ASSUME AccountsInv, NEW r \in Request, DeleteOldTokens(r)
  PROVE  AccountsInv'
  <1>1. tokens \in [Code -> Token]
    BY DEF AccountsInv, CodesOK
  <1>2. /\ \A c \in Code : tokens'[c] = tokens[c] \/ tokens'[c] = [tokens[c] EXCEPT !.state = "gone"]
        /\ DOMAIN tokens' = Code /\ tokens' = [c \in Code |-> tokens'[c]]
    BY DEF DeleteOldTokens
  <1>3. \A c \in Code : /\ tokens'[c] \in Token
                        /\ tokens'[c] = tokens[c] \/ tokens'[c].state = "gone"
    BY <1>1, <1>2 DEF Token
  <1>4. TokensClose
    BY <1>2, <1>3 DEF TokensClose
  <1>5. UNCHANGED <<users, sessions, history>> /\ UNCHANGED <<users, proved>>
    BY DEF DeleteOldTokens, history
  <1>6. "store" \in LaterPc /\ "insert" \in LaterPc
    BY DEF LaterPc, EarlyPc, Pc
  <1>7. request[r].u \in User /\ users[request[r].u] # Free /\ Go(r, "insert", request[r].u)
    BY <1>6, HoldsAccount DEF DeleteOldTokens, At
  <1>8. RequestsOK'
    BY <1>5, <1>6, <1>7, RequestGoesOn DEF AccountsInv
  <1> QED BY <1>4, <1>5, <1>8, TokensCloseStep DEF AccountsInv

LEMMA SendMailStep ==
  ASSUME AccountsInv, NEW r \in Request, SendMail(r)
  PROVE  AccountsInv'
  <1>1. UNCHANGED <<tables, users, proved>> /\ End(r) /\ mailed' = mailed \cup {request[r].id}
        /\ UNCHANGED accepted
    BY DEF SendMail, tables
  <1>2. request[r].id \in Code
    BY DEF SendMail, At, AccountsInv, RequestsOK, ArgumentsFit
  <1>3. RequestsOK'
    BY <1>1, RequestEnds, SameGrow DEF AccountsInv
  <1>4. RowsOK' /\ CodesOK' /\ LinksOK'
    BY <1>1, <1>2 DEF AccountsInv, tables, RowsOK, CodesOK, LinksOK, EmailUnique, VerifiedProved, TokensOwned,
                SessionsVerified, AcceptedOnce, Present
  <1> QED BY <1>3, <1>4 DEF AccountsInv

(* A new code belongs to an account that is there, and nobody has used it.     *)
LEMMA InsertStep ==
  ASSUME AccountsAssumption, AccountsInv, NEW r \in Request, InsertToken(r)
  PROVE  AccountsInv'
  <1> DEFINE q == request[r]
  <1>1. /\ RowsOK /\ CodesOK /\ LinksOK /\ RequestsOK
        /\ users \in RowsType /\ tokens \in [Code -> Token] /\ accepted \in [Code -> Nat]
    BY DEF AccountsInv, RowsOK, CodesOK, RowsType
  <1>2. UNCHANGED <<users, sessions>> /\ UNCHANGED <<users, proved>> /\ UNCHANGED accepted
    BY DEF InsertToken
  <1>3. "insert" \in LaterPc /\ "rollback" \in LaterPc /\ "mail" \in LaterPc
    BY DEF LaterPc, EarlyPc, Pc
  <1>4. q.pc = "insert" /\ q.u \in User /\ users[q.u] # Free
    BY <1>3, HoldsAccount DEF InsertToken, At
  <1>5. CASE q.u \in Present
    <2>1. PICK c \in Smallest({x \in Code : tokens[x].state = "none"}) :
             /\ tokens' = [tokens EXCEPT ![c] = [user |-> q.u, state |-> "open",
                                                 type |-> IF IsReset(r) THEN "password_reset" ELSE "email_verification"]]
             /\ IF q.op = "confirmcode" THEN mailed' = mailed \cup {c} /\ End(r)
                ELSE request' = [request EXCEPT ![r].pc = "mail", ![r].id = c] /\ UNCHANGED mailed
      BY <1>5 DEF InsertToken
    <2>2. c \in Code /\ tokens[c].state = "none"
      BY DEF Smallest
    <2>3. [user |-> q.u, state |-> "open",
           type |-> IF IsReset(r) THEN "password_reset" ELSE "email_verification"] \in Token
      BY <1>4 DEF Token
    <2>4. /\ tokens' \in [Code -> Token] /\ tokens'[c].user = q.u
          /\ \A x \in Code : x # c => tokens'[x] = tokens[x]
      BY <1>1, <2>1, <2>2, <2>3
    <2>5. accepted[c] = 0
      BY <1>1, <2>2 DEF CodesOK, AcceptedOnce
    <2>6. CodesOK' /\ RowsOK' /\ LinksOK'
      <3>1. CodesOK'
        BY <1>1, <1>2, <2>1, <2>2, <2>4, <2>5 DEF CodesOK, AcceptedOnce
      <3>2. RowsOK'
        BY <1>1, <1>2 DEF RowsOK, EmailUnique, VerifiedProved, Present
      <3>3. LinksOK'
        BY <1>1, <1>2, <1>5, <2>2, <2>4 DEF LinksOK, TokensOwned, SessionsVerified, Present
      <3> QED BY <3>1, <3>2, <3>3
    <2>7. RequestsOK'
      <3>1. CASE End(r)
        BY <1>1, <1>2, <3>1, RequestEnds, SameGrow
      <3>2. CASE request' = [request EXCEPT ![r].pc = "mail", ![r].id = c]
        <4>1. request \in [Request -> RequestType] /\ c \in Nat
          BY <1>1, <2>2 DEF RequestsOK, AccountsAssumption
        <4>2. /\ request' \in [Request -> RequestType] /\ request'[r].pc = "mail" /\ request'[r].u = q.u
              /\ request'[r].id = c
              /\ \A x \in Request : x # r => request'[x] = request[x]
          <5> DEFINE p == [q EXCEPT !.pc = "mail", !.id = c]
          <5>1. q \in RequestType /\ "mail" \in Pc
            BY <4>1 DEF Pc
          <5>2. p \in RequestType /\ p.pc = "mail" /\ p.u = q.u /\ p.id = c
            BY <4>1, <5>1 DEF RequestType
          <5>3. request' = [request EXCEPT ![r] = p]
            BY <3>2
          <5> HIDE DEF p, q
          <5> QED BY <4>1, <5>2, <5>3
        <4>3. ArgumentsFit(r)' /\ AccountKnown(r)'
          BY <1>2, <1>4, <2>2, <4>2 DEF ArgumentsFit, AccountKnown, EarlyPc
        <4> QED BY <1>1, <1>2, <4>2, <4>3, SameGrow, RequestMoves
      <3> QED BY <2>1, <3>1, <3>2
    <2> QED BY <2>6, <2>7 DEF AccountsInv
  <1>6. CASE q.u \notin Present
    <2>1. (Go(r, "rollback", q.u) \/ End(r)) /\ UNCHANGED <<tables, history>>
      BY <1>2, <1>6 DEF InsertToken, tables, history
    <2>2. RequestsOK'
      BY <1>1, <1>2, <1>3, <1>4, <2>1, RequestEnds, SameGrow, RequestGoesOn
    <2> QED BY <2>1, <2>2, TablesKept DEF AccountsInv
  <1> QED BY <1>5, <1>6

-----------------------------------------------------------------------------
(* A row that is deleted takes its codes and sessions with it                  *)

LEMMA RowDeletedStep ==
  ASSUME AccountsInv, NEW u \in Present, RowDeleted(u), UNCHANGED history
  PROVE  RowsOK' /\ CodesOK' /\ LinksOK' /\ Grow
  <1>1. /\ users \in RowsType /\ tokens \in [Code -> Token] /\ sessions \in [Session -> SessionType]
        /\ u \in User /\ UNCHANGED <<mailed, accepted, proved>>
    BY PresentType DEF AccountsInv, RowsOK, CodesOK, LinksOK, RowsType, SessionType, history
  <1>2. /\ users' \in RowsType /\ users'[u] = Deleted
        /\ \A x \in User : x # u => users'[x] = users[x]
    BY <1>1 DEF RowDeleted, RowsType
  <1>3. Deleted.state # "here" /\ Deleted # Free
    BY DEF Deleted, Free
  <1>4. Present' = Present \ {u}
    BY <1>1, <1>2, <1>3 DEF Present
  <1>5. \A x \in Present' : x \in Present /\ users'[x] = users[x]
    BY <1>2, <1>4 DEF Present
  <1>6. RowsOK'
    BY <1>1, <1>2, <1>5 DEF AccountsInv, RowsOK, RowsType, EmailUnique, VerifiedProved
  <1>7. \A c \in Code : IF tokens[c].user = u /\ tokens[c].state # "none"
                        THEN tokens'[c] = [tokens[c] EXCEPT !.state = "gone"] ELSE tokens'[c] = tokens[c]
    BY DEF RowDeleted
  <1>8. \A c \in Code : IF tokens[c].user = u /\ tokens[c].state # "none"
                        THEN tokens'[c] \in Token /\ tokens'[c].state = "gone" ELSE tokens'[c] = tokens[c]
    BY ZenonT(40), <1>1, <1>7 DEF Token
  <1>9. tokens' \in [Code -> Token]
    <2>1. tokens' = [c \in Code |-> tokens'[c]]
      BY DEF RowDeleted
    <2> QED BY <1>1, <1>8, <2>1
  <1>10. CodesOK'
    BY <1>1, <1>8, <1>9 DEF AccountsInv, CodesOK, AcceptedOnce
  <1>11. \A s \in Session : IF sessions[s].user = u THEN sessions'[s] = [sessions[s] EXCEPT !.state = "over"]
                            ELSE sessions'[s] = sessions[s]
    BY DEF RowDeleted
  <1>12. \A s \in Session : IF sessions[s].user = u THEN sessions'[s] \in SessionType /\ sessions'[s].state = "over"
                            ELSE sessions'[s] = sessions[s]
    BY <1>1, <1>11 DEF SessionType
  <1>13. sessions' \in [Session -> SessionType]
    <2>1. sessions' = [s \in Session |-> sessions'[s]]
      BY DEF RowDeleted
    <2> QED BY <1>1, <1>12, <2>1
  <1>14. TokensOwned'
    BY <1>4, <1>8 DEF AccountsInv, LinksOK, TokensOwned
  <1>15. SessionsVerified'
    BY <1>4, <1>5, <1>12 DEF AccountsInv, LinksOK, SessionsVerified
  <1>16. Grow
    <2>1. \A x \in User : users[x] # Free => users'[x] # Free /\ (x \in Present' => x \in Present)
      BY <1>2, <1>3, <1>5
    <2> QED BY <1>1, <1>5, <2>1 DEF Grow
  <1> QED BY <1>6, <1>10, <1>13, <1>14, <1>15, <1>16 DEF LinksOK, SessionType

LEMMA DeleteStep ==
  ASSUME AccountsInv, NEW r \in Request, delete_user(r) \/ RollBack(r)
  PROVE  AccountsInv'
  <1>1. End(r) /\ UNCHANGED history
    BY DEF delete_user, RollBack
  <1>2. CASE request[r].u \in Present
    <2>1. RowDeleted(request[r].u)
      BY <1>2 DEF delete_user, RollBack
    <2>2. RowsOK' /\ CodesOK' /\ LinksOK' /\ Grow
      BY <1>1, <1>2, <2>1, RowDeletedStep
    <2> QED BY <1>1, <2>2, RequestEnds DEF AccountsInv
  <1>3. CASE request[r].u \notin Present
    <2>1. UNCHANGED <<tables, history>>
      BY <1>3 DEF delete_user, RollBack, tables, history
    <2> QED BY <1>1, <2>1, LookUp
  <1> QED BY <1>2, <1>3

-----------------------------------------------------------------------------
(* A code is used up                                                           *)

(* An open code that is used leaves every account and every session as it was. *)
LEMMA UsedStep ==
  ASSUME CodesOK, LinksOK, NEW c \in Code, tokens[c].state = "open", NEW u, Used(c, u)
  PROVE  /\ CodesOK' /\ proved \subseteq proved' /\ u \in proved'
         /\ \A x \in Code : tokens'[x].state = "open" => tokens'[x] = tokens[x]
  <1>1. tokens \in [Code -> Token] /\ accepted \in [Code -> Nat] /\ accepted[c] = 0
    BY DEF CodesOK, AcceptedOnce
  <1>2. /\ tokens' = [tokens EXCEPT ![c].state = "used"] /\ accepted' = [accepted EXCEPT ![c] = @ + 1]
        /\ UNCHANGED mailed
    BY DEF Used
  <1>3. /\ tokens' \in [Code -> Token] /\ tokens'[c].state = "used"
        /\ \A x \in Code : x # c => tokens'[x] = tokens[x]
    BY <1>1, <1>2 DEF Token
  <1>4. /\ accepted' \in [Code -> Nat] /\ accepted'[c] = 1
        /\ \A x \in Code : x # c => accepted'[x] = accepted[x]
    BY <1>1, <1>2
  <1>5. CodesOK'
    BY <1>2, <1>3, <1>4 DEF CodesOK, AcceptedOnce
  <1> QED BY <1>3, <1>5 DEF Used

LEMMA ConsumeStep ==
  ASSUME AccountsInv, NEW r \in Request, consume_verification_code(r)
  PROVE  AccountsInv'
  <1> DEFINE q == request[r]
  <1>1. q.pc = "consume" /\ UNCHANGED <<users, sessions>>
    BY DEF consume_verification_code, At
  <1>2. "consume" \in LaterPc /\ "mark" \in LaterPc
    BY DEF LaterPc, EarlyPc, Pc
  <1>3. q.u \in User /\ users[q.u] # Free /\ q.id \in Code
    BY <1>1, <1>2, HoldsAccount DEF AccountsInv, RequestsOK, ArgumentsFit
  <1>4. CASE TokenOpen(q.id, "email_verification") /\ tokens[q.id].user = q.u
    <2>1. Used(q.id, q.u) /\ Go(r, "mark", q.u) /\ tokens[q.id].state = "open"
      BY <1>4 DEF consume_verification_code, TokenOpen
    <2>2. /\ CodesOK' /\ proved \subseteq proved' /\ q.u \in proved'
          /\ \A x \in Code : tokens'[x].state = "open" => tokens'[x] = tokens[x]
      BY <1>3, <2>1, UsedStep DEF AccountsInv
    <2>3. RowsOK' /\ LinksOK'
      BY <1>1, <2>2 DEF AccountsInv, RowsOK, LinksOK, EmailUnique, VerifiedProved, TokensOwned,
                       SessionsVerified, Present
    <2>4. RequestsOK'
      BY <1>1, <1>2, <1>3, <2>1, <2>2, SameGrow, RequestGoes DEF AccountsInv
    <2> QED BY <2>2, <2>3, <2>4 DEF AccountsInv
  <1>5. CASE ~(TokenOpen(q.id, "email_verification") /\ tokens[q.id].user = q.u)
    <2>1. End(r) /\ UNCHANGED <<tables, history>>
      BY <1>1, <1>5 DEF consume_verification_code, tables
    <2> QED BY <2>1, LookUp
  <1> QED BY <1>4, <1>5

LEMMA PasswordStep ==
  ASSUME AccountsInv, NEW r \in Request, consume_password_reset_token(r)
  PROVE  AccountsInv'
  <1> DEFINE c == request[r].id
  <1>1. End(r) /\ UNCHANGED users
    BY DEF consume_password_reset_token
  <1>2. c \in Code
    BY DEF consume_password_reset_token, Start, AccountsInv, RequestsOK, ArgumentsFit, EarlyPc, ByCode
  <1>3. CASE TokenOpen(c, "password_reset")
    <2>1. Used(c, tokens[c].user) /\ SessionsOver(tokens[c].user) /\ tokens[c].state = "open"
      BY <1>3 DEF consume_password_reset_token, TokenOpen
    <2>2. /\ CodesOK' /\ proved \subseteq proved'
          /\ \A x \in Code : tokens'[x].state = "open" => tokens'[x] = tokens[x]
      BY <1>2, <2>1, UsedStep DEF AccountsInv
    <2>3. SessionsEnd
      BY <2>1, SessionsOverEnd DEF AccountsInv, LinksOK, SessionType
    <2>4. RowsOK' /\ LinksOK'
      BY <1>1, <2>2, <2>3 DEF AccountsInv, RowsOK, LinksOK, EmailUnique, VerifiedProved, TokensOwned,
                       SessionsVerified, SessionsEnd, SessionType, Present
    <2>5. RequestsOK'
      BY <1>1, <2>2, SameGrow, RequestEnds DEF AccountsInv
    <2> QED BY <2>2, <2>4, <2>5 DEF AccountsInv
  <1>4. CASE ~TokenOpen(c, "password_reset")
    <2>1. End(r) /\ UNCHANGED <<tables, history>>
      BY <1>1, <1>4 DEF consume_password_reset_token, tables
    <2> QED BY <2>1, LookUp
  <1> QED BY <1>3, <1>4

LEMMA VerifyTokenStep ==
  ASSUME AccountsInv, NEW r \in Request, verify_email_token(r)
  PROVE  AccountsInv'
  <1> DEFINE q == request[r]
             c == q.id
             owner == tokens[c].user
  <1>1. q.pc = "token" /\ UNCHANGED sessions
    BY DEF verify_email_token, At
  <1>2. "token" \in LaterPc /\ "finalize" \in LaterPc
    BY DEF LaterPc, EarlyPc, Pc
  <1>3. /\ q.u \in User /\ users[q.u] # Free /\ c \in Code
        /\ q.u \in Present => users[q.u].email = q.a \/ q.u \in proved
    BY <1>1, <1>2, HoldsAccount DEF AccountsInv, RequestsOK, ArgumentsFit, AccountKnown
  <1>4. CASE TokenOpen(c, "email_verification")
    <2>1. /\ Used(c, owner) /\ users' = [users EXCEPT ![owner].verified = TRUE] /\ tokens[c].state = "open"
          /\ \/ End(r)
             \/ Go(r, "finalize", q.u) /\ users[owner].email = q.a
      BY <1>4 DEF verify_email_token, TokenOpen, GoIf
    <2>2. owner \in Present /\ users \in RowsType /\ RowsOK
      BY <1>3, <2>1 DEF AccountsInv, LinksOK, TokensOwned, RowsOK, RowsType
    <2>3. owner \in User /\ users[owner] \in Account
      BY <2>2, PresentType DEF RowsType
    <2>4. /\ CodesOK' /\ proved \subseteq proved' /\ owner \in proved'
          /\ \A x \in Code : tokens'[x].state = "open" => tokens'[x] = tokens[x]
      BY <1>3, <2>1, UsedStep DEF AccountsInv
    <2>5. /\ users' \in RowsType /\ users'[owner] \in Account /\ users'[owner].verified
          /\ users'[owner].email = users[owner].email
          /\ \A x \in User : x # owner => users'[x] = users[x]
      BY <2>1, <2>2, <2>3 DEF RowsType, Account
    <2>6. RowsOK' /\ Grow /\ Present' = Present
      BY <2>2, <2>4, <2>5, RowChanges
    <2>7. LinksOK'
      <3>1. \A x \in Present : x \in Present' /\ (users[x].verified => users'[x].verified)
        BY <2>6 DEF Grow, Present
      <3> QED BY <1>1, <2>4, <2>6, <3>1 DEF AccountsInv, LinksOK, TokensOwned, SessionsVerified
    <2>8. RequestsOK'
      <3>1. CASE End(r)
        BY <2>6, <3>1, RequestEnds DEF AccountsInv
      <3>2. CASE Go(r, "finalize", q.u) /\ users[owner].email = q.a
        <4>1. q.u \in Present' => q.u \in proved'
          BY <1>3, <2>2, <2>4, <2>6, <3>2 DEF RowsOK, EmailUnique
        <4>2. users'[q.u] # Free
          BY <1>3, <2>6 DEF Grow
        <4> QED BY <1>2, <1>3, <2>6, <3>2, <4>1, <4>2, RequestGoes DEF AccountsInv
      <3> QED BY <2>1, <3>1, <3>2
    <2> QED BY <2>4, <2>6, <2>7, <2>8 DEF AccountsInv
  <1>5. CASE ~TokenOpen(c, "email_verification")
    <2>1. End(r) /\ UNCHANGED <<tables, history>>
      BY <1>1, <1>5 DEF verify_email_token, tables
    <2> QED BY <2>1, LookUp
  <1> QED BY <1>4, <1>5

-----------------------------------------------------------------------------
(* The invariant holds                                                         *)

LEMMA AccountsInit == ASSUME AccountsAssumption, Init PROVE AccountsInv
  <1>1. 1 \in User /\ 1 \in Code
    BY DEF AccountsAssumption
  <1>2. /\ request = [r \in Request |-> Idle] /\ accepted = [c \in Code |-> 0]
        /\ sessions = [s \in Session |-> [user |-> 0, state |-> "none"]]
    BY DEF Init
  <1>3. RequestsOK
    BY <1>2, IdleType DEF RequestsOK, ArgumentsFit, AccountKnown, EarlyPc, LaterPc
  <1>4. PICK before \in {"nothing", "member", "pending"}, a \in Address,
             first \in Account \cup {Free} :
          /\ \/ before = "nothing" /\ first = Free
             \/ before = "member" /\ first = [state |-> "here", email |-> a, name |-> a,
                                              active |-> TRUE, verified |-> TRUE]
             \/ before = "pending" /\ first = [state |-> "here", email |-> a, name |-> "pending",
                                               active |-> TRUE, verified |-> FALSE]
          /\ users = [u \in User |-> IF u = 1 THEN first ELSE Free]
          /\ tokens = [c \in Code |-> IF c = 1 /\ before = "pending"
                                      THEN [user |-> 1, type |-> "email_verification", state |-> "open"]
                                      ELSE [user |-> 0, type |-> "email_verification", state |-> "none"]]
          /\ mailed = IF before = "pending" THEN {1} ELSE {}
          /\ proved = IF before = "member" THEN {1} ELSE {}
    <2> DEFINE a == CHOOSE x \in Address : TRUE
               old(name, b) == [state |-> "here", email |-> a, name |-> name, active |-> TRUE, verified |-> b]
               First(before) == CASE before = "nothing" -> Free
                                  [] before = "member" -> old(a, TRUE)
                                  [] before = "pending" -> old("pending", FALSE)
    <2>1. a \in Address
      BY DEF AccountsAssumption
    <2>2. PICK before \in {"nothing", "member", "pending"} :
            /\ users = [u \in User |-> IF u = 1 THEN First(before) ELSE Free]
            /\ tokens = [c \in Code |-> IF c = 1 /\ before = "pending"
                                        THEN [user |-> 1, type |-> "email_verification", state |-> "open"]
                                        ELSE [user |-> 0, type |-> "email_verification", state |-> "none"]]
            /\ mailed = IF before = "pending" THEN {1} ELSE {}
            /\ proved = IF before = "member" THEN {1} ELSE {}
      BY DEF Init
    <2>3. \/ before = "nothing" /\ First(before) = Free
          \/ before = "member" /\ First(before) = old(a, TRUE)
          \/ before = "pending" /\ First(before) = old("pending", FALSE)
      OBVIOUS
    <2>4. First(before) \in Account \cup {Free}
      BY <2>1, <2>3 DEF Account
    <2> QED BY ZenonT(40), <2>1, <2>2, <2>3, <2>4
  <1>6. first.state = "here" <=> before # "nothing"
    BY <1>4 DEF Free
  <1>7. Present = IF before = "nothing" THEN {} ELSE {1}
    BY <1>1, <1>4, <1>6 DEF Present, Free
  <1>8. RowsOK
    <2>1. users \in [User -> Account \cup {Free, Deleted}]
      BY <1>4
    <2>2. VerifiedProved
      BY <1>1, <1>4, <1>7 DEF VerifiedProved
    <2> QED BY <1>7, <2>1, <2>2 DEF RowsOK, EmailUnique
  <1>9. CodesOK
    BY <1>1, <1>2, <1>4 DEF CodesOK, AcceptedOnce, Token
  <1>10. LinksOK
    BY <1>2, <1>4, <1>7 DEF LinksOK, TokensOwned, SessionsVerified
  <1> QED BY <1>3, <1>8, <1>9, <1>10 DEF AccountsInv

LEMMA AccountsNext == ASSUME AccountsAssumption, AccountsInv, [Next]_vars PROVE AccountsInv'
  <1>1. CASE UNCHANGED vars
    <2>1. UNCHANGED <<tables, history>> /\ UNCHANGED <<users, proved, request>>
      BY <1>1 DEF vars, tables, history
    <2>2. RequestsOK'
      BY <2>1 DEF AccountsInv, RequestsOK, ArgumentsFit, AccountKnown, Present
    <2> QED BY <2>1, <2>2, TablesKept DEF AccountsInv
  <1>2. ASSUME NEW s \in Limited, WindowExpires(s) PROVE AccountsInv'
    <2>1. UNCHANGED <<tables, history>> /\ UNCHANGED <<users, proved, request>>
      BY <1>2 DEF WindowExpires, tables, history
    <2>2. RequestsOK'
      BY <2>1 DEF AccountsInv, RequestsOK, ArgumentsFit, AccountKnown, Present
    <2> QED BY <2>1, <2>2, TablesKept DEF AccountsInv
  <1>3. ASSUME NEW r \in Request, Step(r) PROVE AccountsInv'
    <2>1. CASE enforce_rate_limit(r) \/ SetExpiry(r)
      BY <2>1, LimitStep
    <2>2. CASE \/ login(r) \/ resend_login_otp(r) \/ verify_login_otp(r) \/ confirm_email_verification(r)
               \/ request_password_reset(r) \/ forgot_password(r) \/ confirm_signup_code(r)
               \/ complete_user_creation(r) \/ refresh_token(r) \/ get_current_user(r) \/ RefreshAccount(r)
      BY <2>2, LookUpStep
    <2>3. CASE \/ logout(r) \/ admin_reset_user_password(r) \/ RevokeOldSession(r) \/ create_token_pair(r)
      BY <2>3, SessionStep
    <2>4. CASE update_profile(r)
      <3>1. At(r, "email") \/ At(r, "profile")
        BY <2>4 DEF update_profile
      <3> QED BY <2>4, <3>1, SessionStep, RowStep
    <2>5. CASE mark_email_verified(r) \/ finalize_pending_user(r) \/ admin_update_user(r)
      BY <2>5, RowStep
    <2>6. CASE create_user(r) \/ send_signup_code(r)
      BY <2>6, CreateStep
    <2>7. CASE delete_user(r) \/ RollBack(r)
      BY <2>7, DeleteStep
    <2>8. CASE DeleteOldTokens(r) \/ InsertToken(r) \/ SendMail(r)
      BY <2>8, DeleteOldStep, InsertStep, SendMailStep
    <2>9. CASE is_valid_verification_code(r) \/ consume_verification_code(r)
      BY <2>9, CheckStep, ConsumeStep
    <2>10. CASE consume_password_reset_token(r) \/ verify_email_token(r)
      BY <2>10, PasswordStep, VerifyTokenStep
    <2> QED BY <1>3, <2>1, <2>2, <2>3, <2>4, <2>5, <2>6, <2>7, <2>8, <2>9, <2>10 DEF Step
  <1> QED BY <1>1, <1>2, <1>3, ArriveStep, MailFailsStep, TokenExpiresStep DEF Next

LEMMA AccountsInvariant == Spec => []AccountsInv
  <1> USE AccountsAssumption
  <1> QED BY AccountsInit, AccountsNext, PTL DEF Spec

(* However many requests enter the same code, and however their statements     *)
(* interleave, one of them uses it up and the others are refused.              *)
THEOREM CodeUsedOnceTheorem == Spec => []CodeUsedOnce
  <1>1. AccountsInv => CodeUsedOnce
    BY DEF AccountsInv, CodesOK, AcceptedOnce, CodeUsedOnce
  <1> QED BY <1>1, AccountsInvariant, PTL

(* A live session belongs to a verified account, and a verified account to      *)
(* somebody who entered a code issued for it, however accounts are deleted,     *)
(* renamed and verified between the statements of the requests at work.         *)
THEOREM SignedInProvedTheorem == Spec => []SignedInProved
  <1>1. AccountsInv => SignedInProved
    BY DEF AccountsInv, LinksOK, SessionsVerified, RowsOK, VerifiedProved, SignedInProved
  <1> QED BY <1>1, AccountsInvariant, PTL

(* Two accounts never share an e-mail address, though create_user,             *)
(* send_signup_code and update_profile look for it and write in one statement.  *)
THEOREM EmailUniqueTheorem == Spec => []EmailUnique
  <1>1. AccountsInv => EmailUnique
    BY DEF AccountsInv, RowsOK
  <1> QED BY <1>1, AccountsInvariant, PTL
===============================================================================
