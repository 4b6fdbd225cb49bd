-------------------------- MODULE GatewaySessions --------------------------
(***************************************************************************)
(* The gateway's session store and the routes that use it: gateway         *)
(* session.rs, routes/{auth,session,error}.rs, main.rs and server.rs.      *)
(*                                                                         *)
(* Replicas share one table.  A login gives an access token, which the     *)
(* gateway keeps in a row found by the hash of a new session token, the    *)
(* browser's cookie.  Tokens are numbered by logins; each await of a       *)
(* handler is a step boundary.                                             *)
(***************************************************************************)
EXTENDS Naturals, Sequences, FiniteSets

CONSTANTS
    Browser, User, Gateway,
    Request,       \* requests in progress at the same time
    Refusal,       \* gRPC codes of the identity service's errors
    Tls,           \* replicas whose TLS files are present
    AccessLife,    \* ticks an access token is good for (15 minutes)
    SessionLife,   \* ticks a row lives (7 days)
    MaxLogins,     \* bound on logins identity accepts
    MaxRequests,   \* bound on requests
    MaxStops,      \* bound on terminated and crashed replicas
    MaxFaults,     \* bound on failed statements, calls and lost answers
    None, Keep

ASSUME SessionsAssumption ==
    /\ Tls \subseteq Gateway
    /\ Refusal \subseteq {"InvalidArgument", "AlreadyExists", "NotFound", "Unauthenticated",
                          "PermissionDenied", "Unavailable", "Internal"}
    /\ AccessLife \in Nat \ {0} /\ SessionLife \in Nat \ {0}
    /\ MaxLogins \in Nat /\ MaxRequests \in Nat /\ MaxStops \in Nat /\ MaxFaults \in Nat
    /\ None \notin User \cup Nat /\ Keep \notin Nat \cup {None}

VARIABLES
    replica,    \* where each gateway process is
    table,      \* does the sessions table exist?
    sessions,   \* its rows
    ended,      \* tokens whose row was deleted, dropped or has expired
    logins,     \* logins identity accepted, each with a refresh token
    age,        \* age of each access token, up to AccessLife
    cookie,     \* the session cookie of each browser
    pc,         \* where each request is
    req,        \* what it carries
    requests,   \* requests so far
    stops,      \* terminated and crashed replicas so far
    faults      \* failures so far

vars == <<replica, table, sessions, ended, logins, age, cookie, pc, req, requests, stops, faults>>
store == <<table, sessions, ended>>
identity == <<logins, age>>
bounds == <<requests, stops, faults>>

Token == 1..MaxLogins
Row == [token : Token, user : User, left : 1..SessionLife]
Phase == {"down", "dropped", "created", "serving", "draining"}
Kind == {"login", "logout", "call", "open"}
HttpStatus == {200, 400, 401, 403, 404, 409, 500, 503}

(* before: the sessions that had ended when the request arrived; acts: the
   user identity carried the call out for; cookie: what the answer sets. *)
Req == [kind : Kind, browser : Browser, gateway : Gateway, user : User \cup {None}, token : Token \cup {None},
        before : SUBSET Token, acts : User \cup {None}, status : HttpStatus,
        cookie : Token \cup {None, Keep}]

AtWork(r, g) == pc[r] \in {"read", "identity", "store", "delete"} /\ req[r].gateway = g

TypeOK ==
    /\ replica \in [Gateway -> Phase]
    /\ table \in BOOLEAN
    /\ sessions \subseteq Row
    /\ ended \subseteq Token
    /\ logins \in Seq([user : User, browser : Browser]) /\ Len(logins) <= MaxLogins
    /\ age \in [Token -> 0..AccessLife]
    /\ cookie \in [Browser -> Token \cup {None}]
    /\ pc \in [Request -> {"idle", "read", "identity", "store", "delete", "answer"}]
    /\ req \in [Request -> Req \cup {None}]
    /\ \A r \in Request : pc[r] # "idle" => req[r] \in Req
    /\ \A r \in Request, g \in Gateway : AtWork(r, g) => replica[g] \in {"serving", "draining"}
    /\ requests \in 0..MaxRequests /\ stops \in 0..MaxStops /\ faults \in 0..MaxFaults

Init ==
    /\ replica = [g \in Gateway |-> "down"]
    /\ table = FALSE
    /\ sessions = {}
    /\ ended = {}
    /\ logins = <<>>
    /\ age = [t \in Token |-> 0]
    /\ cookie = [b \in Browser |-> None]
    /\ pc = [r \in Request |-> "idle"]
    /\ req = [r \in Request |-> None]
    /\ requests = 0 /\ stops = 0 /\ faults = 0

Tokens(rows) == {s.token : s \in rows}

(* get_session: rows past their time are gone. *)
HasSession(t) == t \in Tokens(sessions)

(* decode_sub_from_jwt: the user an access token is of. *)
Sub(t) == logins[t].user

-----------------------------------------------------------------------------
(* The life of a replica. *)

Becomes(g, phase) == replica' = [replica EXCEPT ![g] = phase]

(* Mutant: the table is not created again. *)
DropOnly(g) ==
    /\ replica[g] = "down" /\ Becomes(g, "created")
    /\ table' = FALSE /\ sessions' = {} /\ ended' = ended \cup Tokens(sessions)
    /\ UNCHANGED <<identity, cookie, pc, req, bounds>>

(* main starts and connects; create_schema drops the table, whichever
   replica uses it ... *)
DropTable(g) ==
    /\ replica[g] = "down" /\ Becomes(g, "dropped")
    /\ table' = FALSE /\ sessions' = {} /\ ended' = ended \cup Tokens(sessions)
    /\ UNCHANGED <<identity, cookie, pc, req, bounds>>

(* ... and creates it unless another replica has. *)
CreateTable(g) ==
    /\ replica[g] = "dropped" /\ Becomes(g, "created")
    /\ table' = TRUE
    /\ UNCHANGED <<sessions, ended, identity, cookie, pc, req, bounds>>

(* The statements are prepared and the listener is bound; if another replica
   has dropped the table, main returns the error. *)
Prepare(g) ==
    /\ replica[g] = "created" /\ Becomes(g, IF table THEN "serving" ELSE "down")
    /\ UNCHANGED <<store, identity, cookie, pc, req, bounds>>

(* The process ends: its tasks go with it. *)
End(g) ==
    /\ Becomes(g, "down")
    /\ pc' = [r \in Request |-> IF AtWork(r, g) THEN "idle" ELSE pc[r]]
    /\ req' = [r \in Request |-> IF AtWork(r, g) THEN None ELSE req[r]]

Stopping == stops < MaxStops /\ stops' = stops + 1

(* SIGTERM: serve_tls leaves its accept loop and main returns; axum::serve
   drains. *)
Terminate(g) ==
    /\ replica[g] = "serving" /\ Stopping
    /\ \/ g \in Tls /\ End(g)
       \/ g \notin Tls /\ Becomes(g, "draining") /\ UNCHANGED <<pc, req>>
    /\ UNCHANGED <<store, identity, cookie, requests, faults>>

(* Mutant: axum::serve without with_graceful_shutdown. *)
DrainedAtOnce(g) ==
    /\ replica[g] = "draining" /\ End(g)
    /\ UNCHANGED <<store, identity, cookie, bounds>>

Drained(g) ==
    /\ replica[g] = "draining" /\ ~ \E r \in Request : AtWork(r, g)
    /\ Becomes(g, "down")
    /\ UNCHANGED <<store, identity, cookie, pc, req, bounds>>

Crash(g) ==
    /\ replica[g] # "down" /\ Stopping
    /\ End(g)
    /\ UNCHANGED <<store, identity, cookie, requests, faults>>

-----------------------------------------------------------------------------
(* Requests. *)

(* AppError::into_response, for the codes of gRPC. *)
StatusOf(code) ==
    CASE code = "Ok"               -> 200
      [] code = "InvalidArgument"  -> 400
      [] code = "Unauthenticated"  -> 401
      [] code = "PermissionDenied" -> 403
      [] code = "NotFound"         -> 404
      [] code = "AlreadyExists"    -> 409
      [] code = "Unavailable"      -> 503
      [] OTHER                     -> 500

Answered(q, status, set) == [q EXCEPT !.status = status, !.cookie = set]

Answer(r, status, set) ==
    /\ pc' = [pc EXCEPT ![r] = "answer"]
    /\ req' = [req EXCEPT ![r] = Answered(@, status, set)]

Goto(r, p) == pc' = [pc EXCEPT ![r] = p]

Forget(r) == Goto(r, "idle") /\ req' = [req EXCEPT ![r] = None]

(* A step whose answer may get lost on its way back: its effect remains. *)
May(lost) == faults' = faults + (IF lost THEN 1 ELSE 0) /\ (lost => faults < MaxFaults)

(* A browser sends a request with the cookie it has: login and the requests
   without a session go on to identity, the others to the AuthSession
   extractor. *)
Arrive(r, kind, b, g, u) ==
    /\ pc[r] = "idle" /\ requests < MaxRequests /\ replica[g] = "serving"
    /\ requests' = requests + 1
    /\ req' = [req EXCEPT ![r] = [kind |-> kind, browser |-> b, gateway |-> g, user |-> u,
                                  token |-> IF kind \in {"login", "open"} THEN None ELSE cookie[b],
                                  before |-> ended, acts |-> None, status |-> 200, cookie |-> Keep]]
    /\ Goto(r, IF kind \in {"login", "open"} THEN "identity" ELSE "read")
    /\ UNCHANGED <<replica, store, identity, cookie, stops, faults>>

(* AuthSession: no cookie, or no row: 401. *)
Read(r) ==
    LET t == req[r].token IN
    /\ pc[r] = "read"
    /\ IF t = None THEN Answer(r, 401, Keep)
       ELSE IF ~ table THEN Answer(r, 500, Keep)
       ELSE IF ~ HasSession(t) THEN Answer(r, 401, Keep)
       ELSE Goto(r, IF req[r].kind = "logout" THEN "delete" ELSE "identity") /\ UNCHANGED req
    /\ UNCHANGED <<replica, store, identity, cookie, bounds>>

(* login: identity accepts the password and stores a refresh token. *)
LoginAtIdentity(r, lost) ==
    /\ pc[r] = "identity" /\ req[r].kind = "login" /\ Len(logins) < MaxLogins
    /\ logins' = Append(logins, [user |-> req[r].user, browser |-> req[r].browser])
    /\ May(lost)
    /\ IF lost THEN Answer(r, 503, Keep)
       ELSE /\ Goto(r, "store")
            /\ req' = [req EXCEPT ![r].token = Len(logins) + 1]
    /\ UNCHANGED <<replica, store, age, cookie, requests, stops>>

(* with_auth: the access token of the session that was read. *)
Bearer(r) == req[r].token

(* user_info, update_profile, update_password: identity looks at that token
   only. *)
CallIdentity(r, lost) ==
    /\ pc[r] = "identity" /\ req[r].kind = "call" /\ age[Bearer(r)] < AccessLife
    /\ May(lost)
    /\ pc' = [pc EXCEPT ![r] = "answer"]
    /\ req' = [req EXCEPT ![r] = [Answered(@, IF lost THEN 503 ELSE 200, Keep)
                                    EXCEPT !.acts = Sub(Bearer(r))]]
    /\ UNCHANGED <<replica, store, identity, cookie, requests, stops>>

(* sign_up, verify_email, resend_verification. *)
Forward(r) ==
    /\ pc[r] = "identity" /\ req[r].kind = "open"
    /\ Answer(r, 200, Keep)
    /\ UNCHANGED <<replica, store, identity, cookie, bounds>>

(* Identity refuses: an access token past its life with Unauthenticated. *)
Refused(r, code) ==
    /\ pc[r] = "identity"
    /\ (req[r].kind = "call" /\ age[Bearer(r)] = AccessLife) => code = "Unauthenticated"
    /\ Answer(r, StatusOf(code), Keep)
    /\ UNCHANGED <<replica, store, identity, cookie, bounds>>

(* Mutant: the cookie is sent whether or not the row could be stored. *)
CookieAnyway(r, lost) == Answer(r, 200, req[r].token)

(* The cookie goes out after the row is stored. *)
CookieAfter(r, lost) ==
    IF table /\ ~ lost THEN Answer(r, 200, req[r].token) ELSE Answer(r, 500, Keep)

(* create_session. *)
CreateSession(r, lost) ==
    LET t == req[r].token IN
    /\ pc[r] = "store" /\ May(lost)
    /\ sessions' = IF table THEN sessions \cup {[token |-> t, user |-> Sub(t), left |-> SessionLife]}
                            ELSE sessions
    /\ CookieAfter(r, lost)
    /\ UNCHANGED <<replica, table, ended, identity, cookie, requests, stops>>

(* Mutant: the row is looked for by the token instead of its hash. *)
AllRows(r) == sessions

(* DELETE ... WHERE token_hash = ?. *)
OtherRows(r) == {s \in sessions : s.token # req[r].token}

(* logout: delete_session, then the cookie is cleared. *)
DeleteSession(r, lost) ==
    /\ pc[r] = "delete" /\ May(lost)
    /\ IF table
       THEN /\ sessions' = OtherRows(r)
            /\ ended' = ended \cup {req[r].token}
       ELSE UNCHANGED <<sessions, ended>>
    /\ IF table /\ ~ lost THEN Answer(r, 200, None) ELSE Answer(r, 500, Keep)
    /\ UNCHANGED <<replica, table, identity, cookie, requests, stops>>

(* A call or a statement fails before it has an effect, or the channel to
   identity cannot be rebuilt. *)
Fail(r) ==
    /\ pc[r] \in {"read", "identity", "store", "delete"} /\ faults < MaxFaults
    /\ faults' = faults + 1
    /\ \E status \in {500, 503} : Answer(r, status, Keep)
    /\ UNCHANGED <<replica, store, identity, cookie, requests, stops>>

(* The browser obeys Set-Cookie; answers of concurrent requests come in any
   order. *)
Deliver(r) ==
    /\ pc[r] = "answer"
    /\ cookie' = IF req[r].cookie = Keep THEN cookie ELSE [cookie EXCEPT ![req[r].browser] = req[r].cookie]
    /\ Forget(r)
    /\ UNCHANGED <<replica, store, identity, bounds>>

LoseAnswer(r) ==
    /\ pc[r] = "answer" /\ faults < MaxFaults
    /\ faults' = faults + 1
    /\ Forget(r)
    /\ UNCHANGED <<replica, store, identity, cookie, requests, stops>>

-----------------------------------------------------------------------------
(* Time. *)

(* Mutant: a table without default_time_to_live. *)
NeverOlder(s) == s

Older(s) == [s EXCEPT !.left = @ - 1]

(* default_time_to_live; nothing reads expires_at. *)
Tick ==
    /\ sessions # {} \/ \E t \in 1..Len(logins) : age[t] < AccessLife
    /\ age' = [t \in Token |-> IF t <= Len(logins) /\ age[t] < AccessLife THEN age[t] + 1 ELSE age[t]]
    /\ LET old == {Older(s) : s \in sessions} IN
       /\ sessions' = {s \in old : s.left > 0}
       /\ ended' = ended \cup Tokens({s \in old : s.left = 0})
    /\ UNCHANGED <<replica, table, logins, cookie, pc, req, bounds>>

-----------------------------------------------------------------------------
Boot(g) == DropTable(g) \/ CreateTable(g) \/ Prepare(g) \/ Drained(g)

Proceed(r) ==
    \/ Read(r) \/ Forward(r) \/ Deliver(r)
    \/ \E lost \in BOOLEAN : LoginAtIdentity(r, lost) \/ CallIdentity(r, lost)
                              \/ CreateSession(r, lost) \/ DeleteSession(r, lost)
    \/ \E code \in Refusal : Refused(r, code)

Next ==
    \/ \E g \in Gateway : Boot(g) \/ Terminate(g) \/ Crash(g)
    \/ \E r \in Request :
         \/ \E b \in Browser, g \in Gateway :
              \/ \E u \in User : Arrive(r, "login", b, g, u)
              \/ \E kind \in {"logout", "call", "open"} : Arrive(r, kind, b, g, None)
         \/ Proceed(r) \/ Fail(r) \/ LoseAnswer(r)
    \/ Tick

Spec == Init /\ [][Next]_vars

(* Handlers go on, Kubernetes starts a process that ended again, and time
   passes. *)
Fairness ==
    /\ \A r \in Request : WF_vars(Proceed(r))
    /\ \A g \in Gateway : WF_vars(Boot(g))
    /\ WF_vars(Tick)

FairSpec == Spec /\ Fairness

-----------------------------------------------------------------------------
(* Properties. *)

(* A cookie that a browser holds, or an answer on its way sets, is of a login
   of that browser, and its row is stored until it ends (routes/auth.rs:150):
   neither a failed insert nor a table dropped in between leaves a cookie
   that never worked. *)
Backed(t, b) ==
    /\ t \in 1..Len(logins) /\ logins[t].browser = b
    /\ t \in Tokens(sessions) \cup ended

CookiesBacked ==
    /\ \A b \in Browser : cookie[b] # None => Backed(cookie[b], b)
    /\ \A r \in Request : pc[r] = "answer" /\ req[r].cookie \notin {None, Keep} =>
         Backed(req[r].cookie, req[r].browser)

(* Identity acts for the user who logged in with the cookie's browser, and
   never on a session that had ended before the request arrived
   (routes/session.rs:35): a logout overtakes no request that comes after it. *)
CallsRestOnSessions ==
    \A r \in Request : pc[r] = "answer" /\ req[r].acts # None =>
        /\ req[r].token \in 1..Len(logins) /\ req[r].token \notin req[r].before
        /\ logins[req[r].token] = [user |-> req[r].acts, browser |-> req[r].browser]

(* A login for which identity stored a refresh token and no session was, is or
   will be stored. *)
Storing(t) == \E r \in Request : pc[r] = "store" /\ req[r].token = t
Orphan(t) == t \in 1..Len(logins) /\ ~ Storing(t) /\ t \notin Tokens(sessions) \cup ended

(* Between identity's answer and create_session a login can be left without a
   session (routes/auth.rs:150): by a call or statement that fails, a table
   another replica has dropped, or a process that ends at work, which SIGTERM
   makes it do only where it serves TLS (server.rs:144).  Neither a drain nor
   a request beside it orphans a login. *)
OrphansNeedFailures ==
    [][\A t \in Token : Orphan(t)' /\ ~ Orphan(t) =>
         \/ faults' > faults
         \/ ~ table
         \/ stops' > stops /\ \E g \in Gateway : replica[g] # "down" /\ replica'[g] = "down"]_vars

(* While the table stands, a session lives its whole time unless a logout of
   its own is under way: no other session's logout and no other replica's
   step ends it (session.rs:272, 178). *)
SessionsLast ==
    [][\A s \in sessions : table' /\ s.token \notin Tokens(sessions') =>
         s.left = 1 \/ \E r \in Request : pc[r] = "delete" /\ req[r].token = s.token]_vars

(* A dropped table comes back, however replicas that start together, crash
   and fail to prepare their statements interleave (session.rs:163). *)
TableReturns == [](~ table => <>table)

(* Every session ends: only the table's time to live sees to that, as nothing
   reads expires_at and logout is the browser's choice (session.rs:178). *)
SessionsExpire == \A t \in Token : t \in Tokens(sessions) ~> t \notin Tokens(sessions)

-----------------------------------------------------------------------------
(* The inductive invariant of the proofs. *)

(* A row is of a login, one row each; what has ended stays away. *)
RowsOfLogins ==
    /\ \A s \in sessions : s.token <= Len(logins) /\ s.token \notin ended /\ s.user = logins[s.token].user
    /\ \A t \in ended : t <= Len(logins)
    /\ \A s1 \in sessions, s2 \in sessions : s1.token = s2.token => s1 = s2
    /\ ~ table => sessions = {}

(* What a request knows of its session. *)
RequestsKnowTheirSession ==
    \A r \in Request :
        LET q == req[r] IN
        /\ pc[r] # "idle" => q.before \subseteq ended /\ (q.kind = "login" => q.user \in User)
        /\ pc[r] \in {"read", "delete"} /\ q.token # None => Backed(q.token, q.browser)
        /\ pc[r] = "delete" => q.kind = "logout" /\ q.token # None
        /\ pc[r] = "identity" /\ q.kind = "call" =>
             q.token # None /\ Backed(q.token, q.browser) /\ q.token \notin q.before
        /\ pc[r] = "store" =>
             /\ q.token \in 1..Len(logins) /\ logins[q.token] = [user |-> q.user, browser |-> q.browser]
             /\ q.token \notin Tokens(sessions) \cup ended
        /\ pc[r] \in {"read", "identity", "store", "delete"} => q.acts = None /\ q.cookie = Keep

(* No two requests store the same session. *)
StoresApart ==
    \A r1 \in Request, r2 \in Request :
        pc[r1] = "store" /\ pc[r2] = "store" /\ req[r1].token = req[r2].token => r1 = r2

SessionsInv ==
    /\ TypeOK
    /\ RowsOfLogins
    /\ RequestsKnowTheirSession
    /\ StoresApart
    /\ CookiesBacked
    /\ CallsRestOnSessions
=============================================================================
