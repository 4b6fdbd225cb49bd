----------------------- MODULE GatewaySessionsProofs -----------------------
(***************************************************************************)
(* Proofs about GatewaySessions, for any number of browsers, replicas,     *)
(* requests, logins, stops and failures.                                   *)
(***************************************************************************)
EXTENDS GatewaySessions, TLAPS

Places == {"idle", "read", "identity", "store", "delete", "answer"}
Work == {"read", "identity", "store", "delete"}
Login == [user : User, browser : Browser]

(* The parts of the type invariant. *)
StoreTyped == table \in BOOLEAN /\ sessions \subseteq Row /\ ended \subseteq Token
IdentityTyped == logins \in Seq(Login) /\ Len(logins) <= MaxLogins /\ age \in [Token -> 0..AccessLife]
CookiesTyped == cookie \in [Browser -> Token \cup {None}]
RequestsTyped ==
    /\ pc \in [Request -> Places]
    /\ req \in [Request -> Req \cup {None}]
    /\ \A r \in Request : pc[r] # "idle" => req[r] \in Req
ReplicasTyped ==
    /\ replica \in [Gateway -> Phase]
    /\ \A r \in Request, g \in Gateway : AtWork(r, g) => replica[g] \in {"serving", "draining"}
Bounded == requests \in 0..MaxRequests /\ stops \in 0..MaxStops /\ faults \in 0..MaxFaults

LEMMA TypeParts ==
    TypeOK <=> StoreTyped /\ IdentityTyped /\ CookiesTyped /\ RequestsTyped /\ ReplicasTyped /\ Bounded
BY DEF TypeOK, StoreTyped, IdentityTyped, CookiesTyped, RequestsTyped, ReplicasTyped, Bounded, Places, Login

(* None and Keep are no tokens. *)
LEMMA Marks == None \notin Token /\ Keep \notin Token /\ None # Keep /\ None \notin User
BY SessionsAssumption DEF Token

LEMMA StatusType == ASSUME NEW code \in Refusal PROVE StatusOf(code) \in HttpStatus
<1>1. code \in {"InvalidArgument", "AlreadyExists", "NotFound", "Unauthenticated",
                "PermissionDenied", "Unavailable", "Internal"}
  BY SessionsAssumption
<1>2. QED BY <1>1 DEF StatusOf, HttpStatus

(* An answer is noted on the request, which is otherwise as it was. *)
LEMMA AnsweredType ==
    ASSUME NEW q \in Req, NEW status \in HttpStatus, NEW set \in Token \cup {None, Keep}
    PROVE  /\ Answered(q, status, set) \in Req
           /\ Answered(q, status, set).cookie = set
           /\ Answered(q, status, set).acts = q.acts
           /\ Answered(q, status, set).token = q.token
           /\ Answered(q, status, set).before = q.before
           /\ Answered(q, status, set).browser = q.browser
           /\ Answered(q, status, set).kind = q.kind
           /\ Answered(q, status, set).gateway = q.gateway
           /\ Answered(q, status, set).user = q.user
BY DEF Answered, Req

(* A request that is at work, in either of two words. *)
LEMMA AtWorkPlace ==
    ASSUME RequestsTyped, NEW r \in Request, pc[r] \in Work
    PROVE  req[r] \in Req /\ req[r].gateway \in Gateway /\ AtWork(r, req[r].gateway)
BY DEF RequestsTyped, Work, AtWork, Req

(* A request moves, and no other does. *)
Moves(r, p, x) == pc' = [pc EXCEPT ![r] = p] /\ req' = [req EXCEPT ![r] = x]

LEMMA MovesType ==
    ASSUME RequestsTyped, ReplicasTyped, replica' = replica, NEW r \in Request, NEW p \in Places, NEW x, Moves(r, p, x),
           (p = "idle" /\ x = None) \/ x \in Req,
           p \in Work => replica[x.gateway] \in {"serving", "draining"}
    PROVE  /\ RequestsTyped' /\ ReplicasTyped'
           /\ pc'[r] = p /\ req'[r] = x
           /\ \A s \in Request \ {r} : pc'[s] = pc[s] /\ req'[s] = req[s]
<1>1. /\ pc'[r] = p /\ req'[r] = x
      /\ \A s \in Request \ {r} : pc'[s] = pc[s] /\ req'[s] = req[s]
  BY DEF Moves, RequestsTyped
<1>2. pc' \in [Request -> Places] /\ req' \in [Request -> Req \cup {None}] BY DEF Moves, RequestsTyped
<1>3. \A s \in Request : pc'[s] # "idle" => req'[s] \in Req BY <1>1 DEF RequestsTyped
<1>4. ASSUME NEW s \in Request, NEW g \in Gateway, AtWork(s, g)' PROVE replica'[g] \in {"serving", "draining"}
  <2>1. CASE s = r BY <1>1, <1>4, <2>1 DEF AtWork, Work
  <2>2. CASE s # r
    <3>1. AtWork(s, g) BY <1>1, <1>4, <2>2 DEF AtWork
    <3>2. QED BY <3>1 DEF ReplicasTyped
  <2>3. QED BY <2>1, <2>2
<1>5. ReplicasTyped' BY <1>4 DEF ReplicasTyped
<1>6. QED BY <1>1, <1>2, <1>3, <1>5 DEF RequestsTyped

(* The ways requests move. *)
LEMMA AnswerMoves ==
    ASSUME RequestsTyped, NEW r \in Request, pc[r] \in Work,
           NEW status \in HttpStatus, NEW set \in Token \cup {None, Keep}, Answer(r, status, set)
    PROVE  Moves(r, "answer", Answered(req[r], status, set)) /\ Answered(req[r], status, set) \in Req
<1>1. req[r] \in Req BY AtWorkPlace
<1>2. QED BY <1>1, AnsweredType DEF Answer, Moves

LEMMA GotoMoves ==
    ASSUME RequestsTyped, NEW r \in Request, NEW p, Goto(r, p), req' = req
    PROVE  Moves(r, p, req[r])
BY DEF Goto, Moves, RequestsTyped

LEMMA ForgetMoves ==
    ASSUME RequestsTyped, NEW r \in Request, Forget(r)
    PROVE  Moves(r, "idle", None)
BY DEF Forget, Goto, Moves

(* A process that ends takes its requests along. *)
LEMMA EndType ==
    ASSUME RequestsTyped, ReplicasTyped, NEW g \in Gateway, End(g)
    PROVE  /\ RequestsTyped' /\ ReplicasTyped'
           /\ \A r \in Request : pc'[r] = "idle" \/ (pc'[r] = pc[r] /\ req'[r] = req[r])
<1>1. \A r \in Request : \/ AtWork(r, g) /\ pc'[r] = "idle" /\ req'[r] = None
                         \/ ~ AtWork(r, g) /\ pc'[r] = pc[r] /\ req'[r] = req[r]
  BY DEF End
<1>2. pc' \in [Request -> Places] /\ req' \in [Request -> Req \cup {None}]
  BY DEF End, RequestsTyped, Places
<1>3. replica' \in [Gateway -> Phase] BY DEF End, Becomes, ReplicasTyped, Phase
<1>4. ASSUME NEW r \in Request, NEW h \in Gateway, AtWork(r, h)' PROVE replica'[h] \in {"serving", "draining"}
  <2>1. ~ AtWork(r, g) /\ AtWork(r, h) BY <1>1, <1>4 DEF AtWork
  <2>2. replica'[h] = replica[h] BY <2>1 DEF End, Becomes, ReplicasTyped
  <2>3. QED BY <2>1, <2>2 DEF ReplicasTyped
<1>5. \A r \in Request : pc'[r] # "idle" => req'[r] \in Req BY <1>1 DEF RequestsTyped
<1>6. QED BY <1>1, <1>2, <1>3, <1>4, <1>5 DEF RequestsTyped, ReplicasTyped

(* A replica changes its phase; where it stops serving, nothing is at work. *)
LEMMA PhaseType ==
    ASSUME RequestsTyped, ReplicasTyped, NEW g \in Gateway, NEW ph \in Phase, Becomes(g, ph), UNCHANGED <<pc, req>>,
           ph \in {"serving", "draining"} \/ \A r \in Request : ~ AtWork(r, g)
    PROVE  RequestsTyped' /\ ReplicasTyped'
<1>1. replica' \in [Gateway -> Phase] BY DEF Becomes, ReplicasTyped
<1>2. ASSUME NEW r \in Request, NEW h \in Gateway, AtWork(r, h)' PROVE replica'[h] \in {"serving", "draining"}
  <2>1. AtWork(r, h) BY <1>2 DEF AtWork
  <2>2. CASE h = g BY <2>1, <2>2 DEF Becomes, ReplicasTyped
  <2>3. CASE h # g BY <2>1, <2>3 DEF Becomes, ReplicasTyped
  <2>4. QED BY <2>2, <2>3
<1>3. QED BY <1>1, <1>2 DEF RequestsTyped, ReplicasTyped

(* Rows are of tokens. *)
LEMMA TokensType == ASSUME NEW rows, rows \subseteq Row PROVE Tokens(rows) \subseteq Token
BY DEF Tokens, Row

(* What a request knows of its session. *)
Knows(r) ==
    LET q == req[r] IN
    /\ pc[r] # "idle" => q.before \subseteq ended /\ (q.kind = "login" => q.user \in User)
    /\ pc[r] \in {"read", "delete"} /\ q.token # None => Backed(q.token, q.browser)
    /\ pc[r] = "delete" => q.kind = "logout" /\ q.token # None
    /\ pc[r] = "identity" /\ q.kind = "call" =>
         q.token # None /\ Backed(q.token, q.browser) /\ q.token \notin q.before
    /\ pc[r] = "store" =>
         /\ q.token \in 1..Len(logins) /\ logins[q.token] = [user |-> q.user, browser |-> q.browser]
         /\ q.token \notin Tokens(sessions) \cup ended
    /\ pc[r] \in {"read", "identity", "store", "delete"} => q.acts = None /\ q.cookie = Keep

LEMMA KnowAll == RequestsKnowTheirSession <=> \A r \in Request : Knows(r)
BY DEF RequestsKnowTheirSession, Knows

LEMMA LoginType ==
    ASSUME IdentityTyped, NEW t \in 1..Len(logins)
    PROVE  logins[t] \in Login /\ Sub(t) \in User /\ t \in Token /\ Len(logins) \in Nat
<1>1. logins \in Seq(Login) /\ Len(logins) \in Nat /\ Len(logins) <= MaxLogins BY DEF IdentityTyped
<1> HIDE DEF Login
<1>2. logins[t] \in Login BY <1>1
<1>3. t \in Token BY <1>1, SessionsAssumption DEF Token
<1>4. QED BY <1>1, <1>2, <1>3 DEF Sub, Login

(* How the steps of one request move it, what it was before, and what it
   becomes. *)
LEMMA ReadMoves ==
    ASSUME RequestsTyped, NEW r \in Request, Read(r)
    PROVE  /\ pc[r] = "read" /\ UNCHANGED <<replica, store, identity, cookie, bounds>>
           /\ \/ \E status \in HttpStatus : Moves(r, "answer", Answered(req[r], status, Keep))
              \/ req[r].token # None /\ HasSession(req[r].token)
                 /\ \/ req[r].kind = "logout" /\ Moves(r, "delete", req[r])
                    \/ req[r].kind # "logout" /\ Moves(r, "identity", req[r])
<1>1. pc[r] = "read" /\ pc[r] \in Work /\ UNCHANGED <<replica, store, identity, cookie, bounds>> BY DEF Read, Work
<1>2. ASSUME NEW status \in HttpStatus, Answer(r, status, Keep) PROVE Moves(r, "answer", Answered(req[r], status, Keep))
  BY <1>1, <1>2, AnswerMoves
<1>3. CASE req[r].token = None \/ ~ table \/ ~ HasSession(req[r].token)
  <2>1. 401 \in HttpStatus /\ 500 \in HttpStatus BY DEF HttpStatus
  <2>2. Answer(r, 401, Keep) \/ Answer(r, 500, Keep) BY <1>3 DEF Read
  <2>3. QED BY <1>1, <1>2, <2>1, <2>2
<1>4. CASE req[r].token # None /\ table /\ HasSession(req[r].token)
  <2>1. Goto(r, IF req[r].kind = "logout" THEN "delete" ELSE "identity") /\ req' = req BY <1>4 DEF Read
  <2>2. QED BY <1>1, <1>4, <2>1, GotoMoves
<1>5. QED BY <1>3, <1>4

LEMMA LoginMoves ==
    ASSUME RequestsTyped, IdentityTyped, NEW r \in Request, NEW lost \in BOOLEAN, LoginAtIdentity(r, lost)
    PROVE  /\ pc[r] = "identity" /\ req[r].kind = "login" /\ UNCHANGED <<replica, store, age, cookie, requests, stops>>
           /\ Len(logins) \in Nat /\ Len(logins) < MaxLogins /\ May(lost)
           /\ logins' = Append(logins, [user |-> req[r].user, browser |-> req[r].browser])
           /\ \/ Moves(r, "answer", Answered(req[r], 503, Keep))
              \/ Moves(r, "store", [req[r] EXCEPT !.token = Len(logins) + 1])
<1>1. /\ pc[r] = "identity" /\ req[r].kind = "login" /\ UNCHANGED <<replica, store, age, cookie, requests, stops>>
      /\ Len(logins) < MaxLogins /\ May(lost)
      /\ logins' = Append(logins, [user |-> req[r].user, browser |-> req[r].browser])
  BY DEF LoginAtIdentity
<1>2. Len(logins) \in Nat BY DEF IdentityTyped
<1>3. CASE lost
  <2>1. Answer(r, 503, Keep) BY <1>3 DEF LoginAtIdentity
  <2>2. 503 \in HttpStatus /\ pc[r] \in Work BY <1>1 DEF HttpStatus, Work
  <2>3. QED BY <1>1, <1>2, <2>1, <2>2, AnswerMoves
<1>4. CASE ~ lost
  <2>1. Goto(r, "store") /\ req' = [req EXCEPT ![r].token = Len(logins) + 1] BY <1>4 DEF LoginAtIdentity
  <2>2. QED BY <1>1, <1>2, <2>1 DEF Goto, Moves
<1>5. QED BY <1>3, <1>4

LEMMA CallMoves ==
    ASSUME RequestsTyped, IdentityTyped, NEW r \in Request, Knows(r), NEW lost \in BOOLEAN, CallIdentity(r, lost)
    PROVE  /\ pc[r] = "identity" /\ req[r].kind = "call" /\ UNCHANGED <<replica, store, identity, cookie, requests, stops>>
           /\ May(lost) /\ req[r].token \in 1..Len(logins) /\ Sub(req[r].token) \in User
           /\ \E status \in HttpStatus :
                Moves(r, "answer", [Answered(req[r], status, Keep) EXCEPT !.acts = Sub(req[r].token)])
<1>1. /\ pc[r] = "identity" /\ req[r].kind = "call" /\ UNCHANGED <<replica, store, identity, cookie, requests, stops>>
      /\ May(lost)
  BY DEF CallIdentity
<1>2. req[r].token \in 1..Len(logins) BY <1>1 DEF Knows, Backed
<1>3. Sub(req[r].token) \in User BY <1>2, LoginType
<1> DEFINE status == IF lost THEN 503 ELSE 200
<1>4. status \in HttpStatus BY DEF HttpStatus
<1>5. Moves(r, "answer", [Answered(req[r], status, Keep) EXCEPT !.acts = Sub(req[r].token)])
  BY DEF CallIdentity, Moves, Bearer, RequestsTyped
<1>6. QED BY <1>1, <1>2, <1>3, <1>4, <1>5

LEMMA RefusalMoves ==
    ASSUME RequestsTyped, NEW r \in Request,
           Forward(r) \/ (\E code \in Refusal : Refused(r, code)) \/ Fail(r)
    PROVE  /\ pc[r] \in Work /\ UNCHANGED <<replica, store, identity, cookie, requests, stops>>
           /\ faults' = faults \/ (faults < MaxFaults /\ faults' = faults + 1)
           /\ \E status \in HttpStatus : Moves(r, "answer", Answered(req[r], status, Keep))
<1>1. pc[r] \in Work /\ UNCHANGED <<replica, store, identity, cookie, requests, stops>>
      /\ (faults' = faults \/ (faults < MaxFaults /\ faults' = faults + 1))
  BY DEF Forward, Refused, Fail, Work, bounds
<1>2. \E status \in HttpStatus : Answer(r, status, Keep)
  <2>1. {200, 500, 503} \subseteq HttpStatus BY DEF HttpStatus
  <2>2. CASE Forward(r) BY <2>1, <2>2 DEF Forward
  <2>3. CASE Fail(r) BY <2>1, <2>3 DEF Fail
  <2>4. ASSUME NEW code \in Refusal, Refused(r, code) PROVE \E status \in HttpStatus : Answer(r, status, Keep)
    BY <2>4, StatusType DEF Refused
  <2>5. QED BY <2>2, <2>3, <2>4
<1>3. QED BY <1>1, <1>2, AnswerMoves

LEMMA CreateMoves ==
    ASSUME RequestsTyped, NEW r \in Request, NEW lost \in BOOLEAN, CreateSession(r, lost)
    PROVE  /\ pc[r] = "store" /\ UNCHANGED <<replica, table, ended, identity, cookie, requests, stops>> /\ May(lost)
           /\ \/ /\ table
                 /\ sessions' = sessions \cup {[token |-> req[r].token, user |-> Sub(req[r].token), left |-> SessionLife]}
                 /\ \E status \in HttpStatus : \/ Moves(r, "answer", Answered(req[r], status, Keep))
                                              \/ Moves(r, "answer", Answered(req[r], status, req[r].token))
              \/ /\ ~ table /\ sessions' = sessions
                 /\ \E status \in HttpStatus : Moves(r, "answer", Answered(req[r], status, Keep))
<1>1. pc[r] = "store" /\ UNCHANGED <<replica, table, ended, identity, cookie, requests, stops>> /\ May(lost)
  BY DEF CreateSession
<1>2. {200, 500} \subseteq HttpStatus BY DEF HttpStatus
<1>3. CookieAfter(r, lost) BY DEF CreateSession
<1>4. ASSUME NEW status, NEW set, Answer(r, status, set) PROVE Moves(r, "answer", Answered(req[r], status, set))
  BY <1>4 DEF Answer, Moves, RequestsTyped
<1>5. CASE table
  <2>1. Answer(r, 200, req[r].token) \/ Answer(r, 500, Keep) BY <1>3, <1>5 DEF CookieAfter
  <2>2. sessions' = sessions \cup {[token |-> req[r].token, user |-> Sub(req[r].token), left |-> SessionLife]}
    BY <1>5 DEF CreateSession
  <2>3. QED BY <1>1, <1>2, <1>4, <1>5, <2>1, <2>2
<1>6. CASE ~ table
  <2>1. Answer(r, 500, Keep) /\ sessions' = sessions BY <1>3, <1>6 DEF CookieAfter, CreateSession
  <2>2. QED BY <1>1, <1>2, <1>4, <1>6, <2>1
<1>7. QED BY <1>5, <1>6

LEMMA DeleteMoves ==
    ASSUME RequestsTyped, NEW r \in Request, NEW lost \in BOOLEAN, DeleteSession(r, lost)
    PROVE  /\ pc[r] = "delete" /\ UNCHANGED <<replica, table, identity, cookie, requests, stops>> /\ May(lost)
           /\ \/ table /\ sessions' = OtherRows(r) /\ ended' = ended \cup {req[r].token}
              \/ ~ table /\ UNCHANGED <<sessions, ended>>
           /\ \E status \in HttpStatus, set \in {None, Keep} : Moves(r, "answer", Answered(req[r], status, set))
<1>1. pc[r] = "delete" /\ UNCHANGED <<replica, table, identity, cookie, requests, stops>> /\ May(lost)
  BY DEF DeleteSession
<1>2. {200, 500} \subseteq HttpStatus BY DEF HttpStatus
<1>3. Answer(r, 200, None) \/ Answer(r, 500, Keep) BY DEF DeleteSession
<1>4. ASSUME NEW status, NEW set, Answer(r, status, set) PROVE Moves(r, "answer", Answered(req[r], status, set))
  BY <1>4 DEF Answer, Moves, RequestsTyped
<1>5. \/ table /\ sessions' = OtherRows(r) /\ ended' = ended \cup {req[r].token}
      \/ ~ table /\ UNCHANGED <<sessions, ended>>
  BY DEF DeleteSession
<1>6. QED BY <1>1, <1>2, <1>3, <1>4, <1>5
(* The rest of what the invariant says of one request: what its answer sets
   and what identity did for it. *)
AnswerBacked(r) ==
    pc[r] = "answer" =>
      /\ req[r].cookie \notin {None, Keep} => Backed(req[r].cookie, req[r].browser)
      /\ req[r].acts # None =>
           /\ req[r].token \in 1..Len(logins) /\ req[r].token \notin req[r].before
           /\ logins[req[r].token] = [user |-> req[r].acts, browser |-> req[r].browser]

Sound(r) == Knows(r) /\ AnswerBacked(r)
BrowsersBacked == \A b \in Browser : cookie[b] # None => Backed(cookie[b], b)
Typed == StoreTyped /\ IdentityTyped /\ CookiesTyped /\ RequestsTyped /\ ReplicasTyped /\ Bounded

LEMMA InvParts ==
    SessionsInv <=> Typed /\ RowsOfLogins /\ StoresApart /\ BrowsersBacked /\ \A r \in Request : Sound(r)
<1>1. CookiesBacked /\ CallsRestOnSessions <=> BrowsersBacked /\ \A r \in Request : AnswerBacked(r)
  BY DEF CookiesBacked, CallsRestOnSessions, BrowsersBacked, AnswerBacked
<1>2. QED BY <1>1, TypeParts, KnowAll DEF SessionsInv, Typed, Sound

-----------------------------------------------------------------------------
(* What the store and the logins do in a step: they forget no login and no
   token, and the only new tokens are those of a set. *)
Known == Tokens(sessions) \cup ended

Grows(new) ==
    /\ \A t \in 1..Len(logins) : t \in 1..Len(logins') /\ logins'[t] = logins[t]
    /\ ended \subseteq ended'
    /\ Known \subseteq Known' /\ Known' \subseteq Known \cup new

LEMMA BackedStays ==
    ASSUME NEW new, Grows(new), NEW t, NEW b, Backed(t, b)
    PROVE  Backed(t, b)'
BY DEF Grows, Backed, Known

(* A request that stays or ends knows what it knew. *)
LEMMA SoundStays ==
    ASSUME NEW new, Grows(new), NEW r \in Request, Sound(r),
           pc'[r] = "idle" \/ (pc'[r] = pc[r] /\ req'[r] = req[r]),
           pc[r] = "store" => req[r].token \notin new
    PROVE  Sound(r)'
<1>1. CASE pc'[r] = "idle" BY <1>1 DEF Sound, Knows, AnswerBacked
<1>2. CASE pc'[r] # "idle"
  <2>1. pc'[r] = pc[r] /\ req'[r] = req[r] BY <1>2
  <2>2. \A t, b : Backed(t, b) => Backed(t, b)' BY BackedStays
  <2>3. \A t \in 1..Len(logins) : t \in 1..Len(logins') /\ logins'[t] = logins[t] BY DEF Grows
  <2>4. ended \subseteq ended' BY DEF Grows
  <2>5. pc[r] = "store" => req[r].token \notin Known' BY DEF Grows, Sound, Knows, Known
  <2>6. Knows(r)' BY <2>1, <2>2, <2>3, <2>4, <2>5 DEF Sound, Knows, Known
  <2>7. AnswerBacked(r)' BY <2>1, <2>2, <2>3 DEF Sound, AnswerBacked
  <2>8. QED BY <2>6, <2>7 DEF Sound
<1>3. QED BY <1>1, <1>2

(* A step of no request in particular. *)
LEMMA OthersStep ==
    ASSUME SessionsInv, Grows({}), cookie' = cookie,
           \A r \in Request : pc'[r] = "idle" \/ (pc'[r] = pc[r] /\ req'[r] = req[r])
    PROVE  StoresApart' /\ BrowsersBacked' /\ \A r \in Request : Sound(r)'
<1>1. StoresApart /\ BrowsersBacked /\ \A r \in Request : Sound(r) BY InvParts
<1>2. \A r \in Request : Sound(r)' BY <1>1, SoundStays
<1>3. StoresApart' BY <1>1 DEF StoresApart
<1>4. BrowsersBacked' BY <1>1, BackedStays DEF BrowsersBacked
<1>5. QED BY <1>2, <1>3, <1>4

(* A step of one request: the others stay as they are. *)
LEMMA RequestStep ==
    ASSUME SessionsInv, NEW new, Grows(new), NEW r \in Request, NEW p \in Places, NEW x, Moves(r, p, x),
           (p = "idle" /\ x = None) \/ x \in Req, replica' = replica,
           p \in Work => replica[x.gateway] \in {"serving", "draining"},
           \A s \in Request \ {r} : pc[s] = "store" => req[s].token \notin new,
           p = "store" => \A s \in Request \ {r} : pc[s] = "store" => req[s].token # x.token,
           BrowsersBacked', pc'[r] = p /\ req'[r] = x => Sound(r)'
    PROVE  RequestsTyped' /\ ReplicasTyped' /\ StoresApart' /\ BrowsersBacked' /\ \A s \in Request : Sound(s)'
<1>1. Typed /\ StoresApart /\ \A s \in Request : Sound(s) BY InvParts
<1>2. /\ RequestsTyped' /\ ReplicasTyped' /\ pc'[r] = p /\ req'[r] = x
      /\ \A s \in Request \ {r} : pc'[s] = pc[s] /\ req'[s] = req[s]
  BY <1>1, MovesType DEF Typed
<1>3. ASSUME NEW s \in Request PROVE Sound(s)'
  <2>1. CASE s = r BY <1>2, <2>1
  <2>2. CASE s # r BY <1>1, <1>2, <2>2, SoundStays
  <2>3. QED BY <2>1, <2>2
<1>4. StoresApart'
  <2>1. SUFFICES ASSUME NEW a \in Request, NEW b \in Request, pc'[a] = "store", pc'[b] = "store", req'[a].token = req'[b].token
                 PROVE  a = b
    BY DEF StoresApart
  <2>2. CASE a = r \/ b = r BY <1>2, <2>1, <2>2
  <2>3. CASE a # r /\ b # r BY <1>1, <1>2, <2>1, <2>3 DEF StoresApart
  <2>4. QED BY <2>2, <2>3
<1>5. QED BY <1>2, <1>3, <1>4

-----------------------------------------------------------------------------
(* The steps of the store. *)

LEMMA GrowsSame == ASSUME UNCHANGED <<sessions, ended, logins>> PROVE Grows({})
BY DEF Grows, Known, Tokens

LEMMA DropStore ==
    ASSUME table' = FALSE, sessions' = {}, ended' = ended \cup Tokens(sessions), logins' = logins,
           StoreTyped, RowsOfLogins
    PROVE  Grows({}) /\ StoreTyped' /\ RowsOfLogins'
<1>1. Tokens(sessions)' = {} BY DEF Tokens
<1>2. Grows({}) BY <1>1 DEF Grows, Known
<1>3. StoreTyped' BY TokensType DEF StoreTyped
<1>4. \A t \in Tokens(sessions) : t <= Len(logins) BY DEF RowsOfLogins, Tokens
<1>5. RowsOfLogins' BY <1>4 DEF RowsOfLogins
<1>6. QED BY <1>2, <1>3, <1>5

LEMMA InsertStore ==
    ASSUME SessionsInv, NEW r \in Request, pc[r] = "store", table, UNCHANGED <<table, ended, logins>>,
           sessions' = sessions \cup {[token |-> req[r].token, user |-> Sub(req[r].token), left |-> SessionLife]}
    PROVE  Grows({req[r].token}) /\ StoreTyped' /\ RowsOfLogins' /\ req[r].token \in Known'
<1>1. Typed /\ RowsOfLogins /\ Sound(r) BY InvParts
<1> DEFINE t == req[r].token
           row == [token |-> t, user |-> Sub(t), left |-> SessionLife]
<1>2. t \in 1..Len(logins) /\ t \notin Tokens(sessions) /\ t \notin ended BY <1>1 DEF Sound, Knows
<1>3. Sub(t) \in User /\ t \in Token BY <1>1, <1>2, LoginType DEF Typed
<1>4. row \in Row BY <1>3, SessionsAssumption DEF Row
<1>5. Tokens(sessions)' = Tokens(sessions) \cup {t}
  <2>1. row.token = t OBVIOUS
  <2>2. sessions' = sessions \cup {row} OBVIOUS
  <2> HIDE DEF t, row
  <2>3. \A z : z \in {s.token : s \in sessions'} <=> z \in {s.token : s \in sessions} \cup {t} BY <2>1, <2>2
  <2>4. QED BY <2>3 DEF Tokens
<1>6. Grows({t}) BY <1>5 DEF Grows, Known
<1>7. StoreTyped' BY <1>1, <1>4 DEF Typed, StoreTyped
<1>8. \A s \in sessions : s.token # t BY <1>2 DEF Tokens
<1>9. RowsOfLogins'
  <2>1. row.token = t /\ row.user = logins[t].user BY DEF Sub
  <2>2. \A s \in sessions' : s.token <= Len(logins) /\ s.token \notin ended /\ s.user = logins[s.token].user
    BY <1>1, <1>2, <2>1 DEF RowsOfLogins
  <2>3. \A s1 \in sessions', s2 \in sessions' : s1.token = s2.token => s1 = s2
    BY <1>1, <1>8, <2>1 DEF RowsOfLogins
  <2>4. QED BY <1>1, <2>2, <2>3 DEF RowsOfLogins
<1>10. QED BY <1>5, <1>6, <1>7, <1>9 DEF Known

LEMMA DeleteStore ==
    ASSUME SessionsInv, NEW r \in Request, pc[r] = "delete", UNCHANGED <<table, logins>>,
           sessions' = OtherRows(r), ended' = ended \cup {req[r].token}
    PROVE  Grows({}) /\ StoreTyped' /\ RowsOfLogins'
<1>1. Typed /\ RowsOfLogins /\ Sound(r) BY InvParts
<1> DEFINE t == req[r].token
<1>2. t \in 1..Len(logins) /\ t \in Known BY <1>1 DEF Sound, Knows, Backed, Known
<1>3. t \in Token /\ Len(logins) \in Nat BY <1>1, <1>2, LoginType DEF Typed
<1>4. Tokens(sessions)' = Tokens(sessions) \ {t} BY DEF Tokens, OtherRows
<1>5. Grows({}) BY <1>2, <1>4 DEF Grows, Known
<1>6. StoreTyped' BY <1>1, <1>3 DEF Typed, StoreTyped, OtherRows
<1>7. \A s \in sessions' : s \in sessions /\ s.token # t BY DEF OtherRows
<1>8. RowsOfLogins' BY <1>1, <1>2, <1>3, <1>7 DEF RowsOfLogins
<1>9. QED BY <1>5, <1>6, <1>8

LEMMA TickStore ==
    ASSUME SessionsInv, Tick
    PROVE  Grows({}) /\ StoreTyped' /\ RowsOfLogins'
<1>1. Typed /\ RowsOfLogins BY InvParts
<1> DEFINE old == {Older(s) : s \in sessions}
<1>2. UNCHANGED <<table, logins>> /\ sessions' = {s \in old : s.left > 0}
      /\ ended' = ended \cup Tokens({s \in old : s.left = 0})
  BY DEF Tick
<1>3. ASSUME NEW s \in sessions
      PROVE  /\ Older(s).token = s.token /\ Older(s).user = s.user /\ Older(s).left \in Nat
             /\ Older(s).left > 0 => Older(s) \in Row
             /\ s.token \in Token
  <2>1. s \in Row BY <1>1 DEF Typed, StoreTyped
  <2>2. Older(s) = [token |-> s.token, user |-> s.user, left |-> s.left - 1] BY <2>1 DEF Older, Row
  <2>3. QED BY <2>1, <2>2, SessionsAssumption DEF Row
<1>4. Known' = Known
  <2>1. Tokens(sessions)' = {Older(s).token : s \in {z \in sessions : Older(z).left > 0}} BY <1>2 DEF Tokens
  <2>2. Tokens({s \in old : s.left = 0}) = {Older(s).token : s \in {z \in sessions : Older(z).left = 0}} BY DEF Tokens
  <2>3. \A s \in sessions : Older(s).left > 0 \/ Older(s).left = 0 BY <1>3
  <2>4. QED BY <1>2, <1>3, <2>1, <2>2, <2>3 DEF Known, Tokens
<1>5. Grows({}) BY <1>2, <1>4 DEF Grows
<1>6. StoreTyped' BY <1>1, <1>2, <1>3 DEF Typed, StoreTyped, Tokens
<1>7. ASSUME NEW s \in sessions' PROVE \E z \in sessions : s = Older(z) /\ s.token = z.token /\ s.user = z.user /\ s.left > 0
  BY <1>2, <1>3
<1>8. \A t \in Tokens({s \in old : s.left = 0}) : \E z \in sessions : t = z.token /\ Older(z).left = 0
  BY <1>3 DEF Tokens
<1>9. RowsOfLogins'
  <2>1. ASSUME NEW s \in sessions' PROVE s.token <= Len(logins) /\ s.token \notin ended' /\ s.user = logins[s.token].user
    <3>1. PICK z \in sessions : s = Older(z) /\ s.token = z.token /\ s.user = z.user /\ s.left > 0 BY <1>7
    <3>2. s.token \notin ended /\ s.token <= Len(logins) /\ s.user = logins[s.token].user BY <1>1, <3>1 DEF RowsOfLogins
    <3>3. ASSUME s.token \in Tokens({q \in old : q.left = 0}) PROVE FALSE
      <4>1. PICK y \in sessions : s.token = y.token /\ Older(y).left = 0 BY <1>8, <3>3
      <4>2. y = z BY <1>1, <3>1, <4>1 DEF RowsOfLogins
      <4>3. QED BY <3>1, <4>1, <4>2
    <3>4. QED BY <1>2, <3>2, <3>3
  <2>2. \A t \in ended' : t <= Len(logins) BY <1>1, <1>2, <1>8 DEF RowsOfLogins
  <2>3. \A s1 \in sessions', s2 \in sessions' : s1.token = s2.token => s1 = s2 BY <1>1, <1>7 DEF RowsOfLogins
  <2>4. ~ table' => sessions' = {} BY <1>1, <1>2 DEF RowsOfLogins
  <2>5. QED BY <1>2, <2>1, <2>2, <2>3, <2>4 DEF RowsOfLogins
<1>10. QED BY <1>5, <1>6, <1>9
-----------------------------------------------------------------------------
(* Every step keeps the invariant: one lemma for each action. *)

LEMMA InvAfter ==
    (Typed /\ RowsOfLogins /\ StoresApart /\ BrowsersBacked /\ \A r \in Request : Sound(r))' => SessionsInv'
<1>1. (Typed /\ RowsOfLogins /\ StoresApart /\ BrowsersBacked /\ \A r \in Request : Sound(r)) => SessionsInv
  BY InvParts
<1>2. QED BY <1>1, PTL

(* The bound on failures. *)
LEMMA FaultsType ==
    ASSUME Bounded, UNCHANGED <<requests, stops>>,
           faults' = faults \/ (faults < MaxFaults /\ faults' = faults + 1) \/ \E lost \in BOOLEAN : May(lost)
    PROVE  Bounded'
BY SessionsAssumption DEF Bounded, May

(* A step that moves one request and leaves store and logins alone. *)
LEMMA QuietStep ==
    ASSUME SessionsInv, UNCHANGED <<replica, store, identity>>, CookiesTyped', Bounded',
           NEW r \in Request, NEW p \in Places, NEW x, Moves(r, p, x),
           (p = "idle" /\ x = None) \/ x \in Req, p # "store",
           p \in Work => replica[x.gateway] \in {"serving", "draining"},
           BrowsersBacked', pc'[r] = p /\ req'[r] = x => Sound(r)'
    PROVE  SessionsInv'
<1>1. Typed /\ RowsOfLogins BY InvParts
<1>2. Grows({}) BY GrowsSame DEF store, identity
<1>3. RequestsTyped' /\ ReplicasTyped' /\ StoresApart' /\ BrowsersBacked' /\ \A s \in Request : Sound(s)'
  <2>1. \A s \in Request \ {r} : pc[s] = "store" => req[s].token \notin {} OBVIOUS
  <2>2. p = "store" => \A s \in Request \ {r} : pc[s] = "store" => req[s].token # x.token OBVIOUS
  <2>3. QED BY <1>2, <2>1, <2>2, RequestStep
<1>4. StoreTyped' /\ IdentityTyped' BY <1>1 DEF Typed, StoreTyped, IdentityTyped, store, identity
<1>5. RowsOfLogins' BY <1>1 DEF RowsOfLogins, store, identity
<1>6. QED BY <1>3, <1>4, <1>5, InvAfter DEF Typed

(* Nothing changes but what is said: cookies are as good as before. *)
LEMMA CookiesStay ==
    ASSUME SessionsInv, NEW new, Grows(new), cookie' = cookie
    PROVE  CookiesTyped' /\ BrowsersBacked'
<1>1. CookiesTyped /\ BrowsersBacked BY InvParts DEF Typed
<1>2. QED BY <1>1, BackedStays DEF CookiesTyped, BrowsersBacked

LEMMA ArriveStep ==
    ASSUME SessionsInv, NEW r \in Request, NEW kind \in Kind, NEW b \in Browser, NEW g \in Gateway,
           NEW u \in User \cup {None}, kind = "login" => u \in User, Arrive(r, kind, b, g, u)
    PROVE  SessionsInv'
<1> DEFINE p == IF kind \in {"login", "open"} THEN "identity" ELSE "read"
           x == [kind |-> kind, browser |-> b, gateway |-> g, user |-> u,
                 token |-> IF kind \in {"login", "open"} THEN None ELSE cookie[b],
                 before |-> ended, acts |-> None, status |-> 200, cookie |-> Keep]
<1>1. Typed /\ BrowsersBacked BY InvParts
<1>2. UNCHANGED <<replica, store, identity, cookie>> /\ Moves(r, p, x) /\ replica[g] = "serving"
      /\ requests < MaxRequests /\ requests' = requests + 1 /\ UNCHANGED <<stops, faults>>
  BY DEF Arrive, Goto, Moves
<1>3. p \in Places BY DEF Places
<1>4. x \in Req
  <2>1. cookie[b] \in Token \cup {None} /\ ended \in SUBSET Token BY <1>1 DEF Typed, CookiesTyped, StoreTyped
  <2>2. QED BY <2>1 DEF Req, HttpStatus
<1>5. CookiesTyped' /\ BrowsersBacked' BY <1>2, CookiesStay, GrowsSame DEF store, identity
<1>6. Bounded' BY <1>1, <1>2, SessionsAssumption DEF Typed, Bounded
<1>7. ASSUME pc'[r] = p, req'[r] = x PROVE Sound(r)'
  <2>1. cookie[b] = None \/ (cookie[b] \in 1..Len(logins) /\ logins[cookie[b]].browser = b
                             /\ cookie[b] \in Tokens(sessions) \cup ended)
    BY <1>1 DEF BrowsersBacked, Backed
  <2>2. UNCHANGED <<sessions, ended, logins>> BY <1>2 DEF store, identity
  <2>3. x.token \in {None, cookie[b]} /\ x.before = ended /\ x.browser = b /\ x.acts = None /\ x.cookie = Keep
        /\ x.kind = kind /\ x.user = u
    OBVIOUS
  <2>4. p = "identity" => kind # "call" BY DEF Kind
  <2>5. p \in {"identity", "read"} OBVIOUS
  <2>6. \/ cookie[b] = None
        \/ cookie[b] \in 1..Len(logins') /\ logins'[cookie[b]].browser = b /\ cookie[b] \in Tokens(sessions') \cup ended'
    BY <2>1, <2>2
  <2> HIDE DEF x, p
  <2>7. Knows(r)'
    <3>1. req'[r].token # None => Backed(req[r].token, req[r].browser)' BY <1>7, <2>3, <2>6 DEF Backed
    <3>2. /\ req'[r].before = ended' /\ (req'[r].kind = "login" => req'[r].user \in User)
          /\ (pc'[r] = "identity" => req'[r].kind # "call") /\ pc'[r] \in {"identity", "read"}
          /\ req'[r].acts = None /\ req'[r].cookie = Keep
      BY <1>7, <2>2, <2>3, <2>4, <2>5
    <3>3. QED BY <3>1, <3>2 DEF Knows
  <2>8. AnswerBacked(r)' BY <1>7, <2>5 DEF AnswerBacked
  <2>9. QED BY <2>7, <2>8 DEF Sound
<1>8. p \in Work => replica[x.gateway] \in {"serving", "draining"} BY <1>2
<1>9. p # "store" OBVIOUS
<1> HIDE DEF p, x
<1>10. QED BY <1>2, <1>3, <1>4, <1>5, <1>6, <1>7, <1>8, <1>9, QuietStep

(* An answer that sets no new cookie. *)
LEMMA PlainAnswer ==
    ASSUME SessionsInv, UNCHANGED <<replica, store, identity, cookie>>, Bounded', NEW r \in Request, pc[r] \in Work,
           NEW status \in HttpStatus, NEW set \in {None, Keep}, Moves(r, "answer", Answered(req[r], status, set))
    PROVE  SessionsInv'
<1>1. RequestsTyped /\ Sound(r) BY InvParts DEF Typed
<1>2. req[r] \in Req /\ req[r].acts = None /\ req[r].before \subseteq ended /\ (req[r].kind = "login" => req[r].user \in User)
  BY <1>1, AtWorkPlace DEF Sound, Knows, Work
<1> DEFINE x == Answered(req[r], status, set)
<1>3. x \in Req /\ x.cookie = set /\ x.acts = None /\ x.before = req[r].before /\ x.kind = req[r].kind /\ x.user = req[r].user
  BY <1>2, AnsweredType
<1> HIDE DEF x
<1>4. ASSUME pc'[r] = "answer", req'[r] = x PROVE Sound(r)'
  BY <1>2, <1>3, <1>4 DEF Sound, Knows, AnswerBacked, store
<1>5. CookiesTyped' /\ BrowsersBacked' BY CookiesStay, GrowsSame DEF store, identity
<1>6. "answer" \in Places /\ "answer" \notin Work /\ "answer" # "store" BY DEF Places, Work
<1>7. Moves(r, "answer", x) BY DEF x
<1>8. QED BY <1>3, <1>4, <1>5, <1>6, <1>7, QuietStep

LEMMA ReadStep ==
    ASSUME SessionsInv, NEW r \in Request, Read(r)
    PROVE  SessionsInv'
<1>1. Typed /\ RowsOfLogins /\ Sound(r) BY InvParts
<1>2. pc[r] = "read" /\ UNCHANGED <<replica, store, identity, cookie, bounds>> BY ReadMoves, <1>1 DEF Typed
<1>3. pc[r] \in Work /\ Bounded' BY <1>1, <1>2 DEF Work, Typed, Bounded, bounds
<1>4. CASE \E status \in HttpStatus : Moves(r, "answer", Answered(req[r], status, Keep))
  BY <1>2, <1>3, <1>4, PlainAnswer
<1>5. ASSUME NEW p \in {"delete", "identity"}, Moves(r, p, req[r]), req[r].token # None, HasSession(req[r].token),
             p = "delete" <=> req[r].kind = "logout"
      PROVE  SessionsInv'
  <2>1. p \in Places /\ p # "store" BY DEF Places
  <2>2. req[r] \in Req /\ replica[req[r].gateway] \in {"serving", "draining"}
    BY <1>1, <1>3, AtWorkPlace DEF Typed, ReplicasTyped
  <2>3. CookiesTyped' /\ BrowsersBacked' BY <1>2, CookiesStay, GrowsSame DEF store, identity
  <2>4. ASSUME pc'[r] = p, req'[r] = req[r] PROVE Sound(r)'
    <3>1. Grows({}) BY <1>2, GrowsSame DEF store, identity
    <3>2. Backed(req[r].token, req[r].browser)'
      <4>1. Backed(req[r].token, req[r].browser) BY <1>1, <1>2, <1>5 DEF Sound, Knows
      <4>2. UNCHANGED <<sessions, ended, logins>> BY <1>2 DEF store, identity
      <4>3. req'[r] = req[r] BY <2>4
      <4>4. QED BY <4>1, <4>2, <4>3 DEF Backed, Tokens
    <3>3. req[r].before \subseteq ended /\ (req[r].kind = "login" => req[r].user \in User)
          /\ req[r].acts = None /\ req[r].cookie = Keep
      BY <1>1, <1>2 DEF Sound, Knows
    <3>4. req[r].token \notin ended BY <1>1, <1>5 DEF RowsOfLogins, HasSession, Tokens
    <3>5. ended' = ended BY <1>2 DEF store
    <3>6. Knows(r)' BY <1>5, <2>4, <3>2, <3>3, <3>4, <3>5 DEF Knows
    <3>7. QED BY <2>4, <3>6 DEF Sound, AnswerBacked
  <2>5. QED BY <1>2, <1>3, <1>5, <2>1, <2>2, <2>3, <2>4, QuietStep
<1>6. \/ \E status \in HttpStatus : Moves(r, "answer", Answered(req[r], status, Keep))
      \/ req[r].token # None /\ HasSession(req[r].token)
         /\ \/ req[r].kind = "logout" /\ Moves(r, "delete", req[r])
            \/ req[r].kind # "logout" /\ Moves(r, "identity", req[r])
  BY <1>1, ReadMoves DEF Typed
<1>7. QED BY <1>4, <1>5, <1>6

LEMMA LoginStep ==
    ASSUME SessionsInv, NEW r \in Request, NEW lost \in BOOLEAN, LoginAtIdentity(r, lost)
    PROVE  SessionsInv'
<1>1. Typed /\ RowsOfLogins /\ StoresApart /\ \A s \in Request : Sound(s) BY InvParts
<1>2. /\ pc[r] = "identity" /\ req[r].kind = "login" /\ UNCHANGED <<replica, store, age, cookie, requests, stops>>
      /\ Len(logins) \in Nat /\ Len(logins) < MaxLogins /\ May(lost)
      /\ logins' = Append(logins, [user |-> req[r].user, browser |-> req[r].browser])
      /\ \/ Moves(r, "answer", Answered(req[r], 503, Keep))
         \/ Moves(r, "store", [req[r] EXCEPT !.token = Len(logins) + 1])
  BY <1>1, LoginMoves DEF Typed
<1>3. pc[r] \in Work BY <1>2 DEF Work
<1>4. /\ req[r] \in Req /\ req[r].acts = None /\ req[r].cookie = Keep /\ req[r].before \subseteq ended
      /\ req[r].user \in User /\ replica[req[r].gateway] \in {"serving", "draining"}
  BY <1>1, <1>2, <1>3, AtWorkPlace DEF Sound, Knows, Typed, ReplicasTyped
<1> DEFINE l == [user |-> req[r].user, browser |-> req[r].browser]
           n == Len(logins) + 1
<1>5. l \in Login BY <1>4 DEF Login, Req
<1>6. logins \in Seq(Login) BY <1>1 DEF Typed, IdentityTyped
<1>7. /\ logins' \in Seq(Login) /\ Len(logins') = n /\ logins'[n] = l
      /\ \A t \in 1..Len(logins) : t \in 1..Len(logins') /\ logins'[t] = logins[t]
  <2> HIDE DEF l
  <2>1. logins' = Append(logins, l) BY <1>2 DEF l
  <2>2. Len(logins) \in Nat BY <1>2
  <2> HIDE DEF Login
  <2>3. QED BY <1>5, <1>6, <2>1, <2>2
<1>8. Grows({}) BY <1>2, <1>7 DEF Grows, Known, Tokens, store
<1>9. StoreTyped' /\ IdentityTyped'
  BY <1>1, <1>2, <1>7, SessionsAssumption DEF Typed, StoreTyped, IdentityTyped, store
<1>10. RowsOfLogins'
  <2>1. UNCHANGED <<table, sessions, ended>> BY <1>2 DEF store
  <2>2. ASSUME NEW s \in sessions PROVE s.token <= n /\ logins'[s.token] = logins[s.token]
    <3>1. s.token \in 1..Len(logins) BY <1>1, <1>2 DEF Typed, StoreTyped, Row, RowsOfLogins, Token
    <3>2. QED BY <1>2, <1>7, <3>1
  <2>3. \A t \in ended : t <= n
    <3>1. ended \subseteq Token BY <1>1 DEF Typed, StoreTyped
    <3>2. QED BY <1>1, <1>2, <3>1 DEF RowsOfLogins, Token
  <2>4. QED BY <1>1, <1>7, <2>1, <2>2, <2>3 DEF RowsOfLogins
<1>11. CookiesTyped' /\ BrowsersBacked' BY <1>2, <1>8, CookiesStay
<1>12. Bounded' BY <1>1, <1>2, FaultsType DEF Typed
<1>13. n \in Token BY <1>2, SessionsAssumption DEF Token
<1>14. n \notin Known
  <2>1. \A s \in sessions : s.token # n BY <1>1, <1>2 DEF RowsOfLogins
  <2>2. n \notin ended BY <1>1, <1>2 DEF RowsOfLogins
  <2>3. QED BY <2>1, <2>2 DEF Known, Tokens
<1>15. /\ RequestsTyped' /\ ReplicasTyped' /\ StoresApart' /\ BrowsersBacked' /\ \A s \in Request : Sound(s)'
  <2>1. CASE Moves(r, "answer", Answered(req[r], 503, Keep))
    <3> DEFINE x == Answered(req[r], 503, Keep)
    <3>1. x \in Req /\ x.cookie = Keep /\ x.acts = None /\ x.before = req[r].before /\ x.user = req[r].user
      BY <1>4, AnsweredType DEF HttpStatus
    <3>2. Moves(r, "answer", x) BY <2>1
    <3> HIDE DEF x
    <3>3. ASSUME pc'[r] = "answer", req'[r] = x PROVE Sound(r)'
      BY <1>2, <1>4, <3>1, <3>3 DEF Sound, Knows, AnswerBacked, store
    <3>4. "answer" \in Places /\ "answer" \notin Work BY DEF Places, Work
    <3>5. QED BY <1>2, <1>8, <1>11, <3>1, <3>2, <3>3, <3>4, RequestStep
  <2>2. CASE Moves(r, "store", [req[r] EXCEPT !.token = Len(logins) + 1])
    <3> DEFINE x == [req[r] EXCEPT !.token = Len(logins) + 1]
    <3>1. /\ x \in Req /\ x.cookie = Keep /\ x.acts = None /\ x.before = req[r].before /\ x.user = req[r].user
          /\ x.token = n /\ x.browser = req[r].browser /\ x.gateway = req[r].gateway
      BY <1>4, <1>13 DEF Req
    <3>2. Moves(r, "store", x) BY <2>2
    <3> HIDE DEF x
    <3>3. n \notin Known' /\ n \in 1..Len(logins') BY <1>2, <1>7, <1>8, <1>14 DEF Grows
    <3>4. ASSUME pc'[r] = "store", req'[r] = x PROVE Sound(r)'
      BY <1>2, <1>4, <1>7, <3>1, <3>3, <3>4 DEF Sound, Knows, AnswerBacked, Known, store
    <3>5. \A s \in Request \ {r} : pc[s] = "store" => req[s].token # x.token
      <4>1. \A t \in 1..Len(logins) : t # n BY <1>2
      <4>2. \A s \in Request : pc[s] = "store" => req[s].token \in 1..Len(logins) BY <1>1 DEF Sound, Knows
      <4> HIDE DEF n
      <4>3. QED BY <3>1, <4>1, <4>2
    <3>6. "store" \in Places BY DEF Places
    <3>7. QED BY <1>2, <1>4, <1>8, <1>11, <3>1, <3>2, <3>4, <3>5, <3>6, RequestStep
  <2>3. QED BY <1>2, <2>1, <2>2
<1>16. QED BY <1>9, <1>10, <1>11, <1>12, <1>15, InvAfter DEF Typed
LEMMA CallStep ==
    ASSUME SessionsInv, NEW r \in Request, NEW lost \in BOOLEAN, CallIdentity(r, lost)
    PROVE  SessionsInv'
<1>1. Typed /\ Sound(r) BY InvParts
<1>2. /\ pc[r] = "identity" /\ req[r].kind = "call" /\ UNCHANGED <<replica, store, identity, cookie, requests, stops>>
      /\ May(lost) /\ req[r].token \in 1..Len(logins) /\ Sub(req[r].token) \in User
      /\ \E status \in HttpStatus :
           Moves(r, "answer", [Answered(req[r], status, Keep) EXCEPT !.acts = Sub(req[r].token)])
  BY <1>1, CallMoves DEF Typed, Sound
<1>3. PICK status \in HttpStatus : Moves(r, "answer", [Answered(req[r], status, Keep) EXCEPT !.acts = Sub(req[r].token)])
  BY <1>2
<1>4. req[r] \in Req BY <1>1, <1>2, AtWorkPlace DEF Typed, Work
<1>5. /\ req[r].before \subseteq ended /\ req[r].token \notin req[r].before
      /\ logins[req[r].token].browser = req[r].browser
  BY <1>1, <1>2 DEF Sound, Knows, Backed
<1>6. logins[req[r].token] = [user |-> Sub(req[r].token), browser |-> req[r].browser]
  <2>1. logins[req[r].token] \in Login BY <1>1, <1>2, LoginType DEF Typed
  <2>2. QED BY <1>5, <2>1 DEF Login, Sub
<1> DEFINE x == [Answered(req[r], status, Keep) EXCEPT !.acts = Sub(req[r].token)]
<1>7. /\ x \in Req /\ x.cookie = Keep /\ x.acts = Sub(req[r].token) /\ x.before = req[r].before
      /\ x.kind = "call" /\ x.token = req[r].token /\ x.browser = req[r].browser
  BY <1>2, <1>4, AnsweredType DEF Req
<1>8. Moves(r, "answer", x) BY <1>3
<1> HIDE DEF x
<1>9. ASSUME pc'[r] = "answer", req'[r] = x PROVE Sound(r)'
  <2>1. UNCHANGED <<ended, logins>> BY <1>2 DEF store, identity
  <2>2. Knows(r)' BY <1>5, <1>7, <1>9, <2>1 DEF Knows
  <2>3. AnswerBacked(r)' BY <1>2, <1>5, <1>6, <1>7, <1>9, <2>1 DEF AnswerBacked
  <2>4. QED BY <2>2, <2>3 DEF Sound
<1>10. CookiesTyped' /\ BrowsersBacked' BY <1>2, CookiesStay, GrowsSame DEF store, identity
<1>11. Bounded' BY <1>1, <1>2, FaultsType DEF Typed
<1>12. "answer" \in Places /\ "answer" \notin Work /\ "answer" # "store" BY DEF Places, Work
<1>13. QED BY <1>2, <1>7, <1>8, <1>9, <1>10, <1>11, <1>12, QuietStep

LEMMA RefusalStep ==
    ASSUME SessionsInv, NEW r \in Request, Forward(r) \/ (\E code \in Refusal : Refused(r, code)) \/ Fail(r)
    PROVE  SessionsInv'
<1>1. Typed BY InvParts
<1>2. /\ pc[r] \in Work /\ UNCHANGED <<replica, store, identity, cookie, requests, stops>>
      /\ faults' = faults \/ (faults < MaxFaults /\ faults' = faults + 1)
      /\ \E status \in HttpStatus : Moves(r, "answer", Answered(req[r], status, Keep))
  BY <1>1, RefusalMoves DEF Typed
<1>3. Bounded' BY <1>1, <1>2, FaultsType DEF Typed
<1>4. QED BY <1>2, <1>3, PlainAnswer

LEMMA CreateStep ==
    ASSUME SessionsInv, NEW r \in Request, NEW lost \in BOOLEAN, CreateSession(r, lost)
    PROVE  SessionsInv'
<1>1. Typed /\ RowsOfLogins /\ StoresApart /\ \A s \in Request : Sound(s) BY InvParts
<1>2. /\ pc[r] = "store" /\ UNCHANGED <<replica, table, ended, identity, cookie, requests, stops>> /\ May(lost)
      /\ \/ /\ table
            /\ sessions' = sessions \cup {[token |-> req[r].token, user |-> Sub(req[r].token), left |-> SessionLife]}
            /\ \E status \in HttpStatus : \/ Moves(r, "answer", Answered(req[r], status, Keep))
                                         \/ Moves(r, "answer", Answered(req[r], status, req[r].token))
         \/ /\ ~ table /\ sessions' = sessions
            /\ \E status \in HttpStatus : Moves(r, "answer", Answered(req[r], status, Keep))
  BY <1>1, CreateMoves DEF Typed
<1>3. Bounded' BY <1>1, <1>2, FaultsType DEF Typed
<1>4. CASE ~ table
  <2>1. UNCHANGED store BY <1>2, <1>4 DEF store
  <2>2. pc[r] \in Work BY <1>2 DEF Work
  <2>3. QED BY <1>2, <1>3, <1>4, <2>1, <2>2, PlainAnswer
<1>5. CASE table
  <2>1. Grows({req[r].token}) /\ StoreTyped' /\ RowsOfLogins' /\ req[r].token \in Known'
    BY <1>2, <1>5, InsertStore DEF identity
  <2>2. CookiesTyped' /\ BrowsersBacked' BY <1>2, <2>1, CookiesStay
  <2>3. IdentityTyped' BY <1>1, <1>2 DEF Typed, IdentityTyped, identity
  <2>4. PICK status \in HttpStatus, set \in {Keep, req[r].token} : Moves(r, "answer", Answered(req[r], status, set))
    BY <1>2, <1>5
  <2>5. req[r] \in Req BY <1>1, <1>2, AtWorkPlace DEF Typed, Work
  <2>6. /\ req[r].acts = None /\ req[r].before \subseteq ended /\ (req[r].kind = "login" => req[r].user \in User)
        /\ req[r].token \in 1..Len(logins) /\ logins[req[r].token] = [user |-> req[r].user, browser |-> req[r].browser]
    BY <1>1, <1>2 DEF Sound, Knows
  <2>7. set \in Token \cup {None, Keep} BY <1>1, <2>4, <2>6, LoginType DEF Typed
  <2> DEFINE x == Answered(req[r], status, set)
  <2>8. /\ x \in Req /\ x.cookie = set /\ x.acts = None /\ x.before = req[r].before
        /\ x.kind = req[r].kind /\ x.user = req[r].user /\ x.browser = req[r].browser
    BY <2>5, <2>6, <2>7, AnsweredType
  <2>9. Moves(r, "answer", x) BY <2>4
  <2> HIDE DEF x
  <2>10. ASSUME pc'[r] = "answer", req'[r] = x PROVE Sound(r)'
    <3>1. UNCHANGED <<ended, logins>> BY <1>2 DEF identity
    <3>2. Knows(r)' BY <2>6, <2>8, <2>10, <3>1 DEF Knows
    <3>3. req'[r].cookie \notin {None, Keep} => Backed(req[r].cookie, req[r].browser)'
      <4>1. logins[req[r].token].browser = req[r].browser BY <2>6
      <4>2. req'[r].cookie \notin {None, Keep} => req'[r].cookie = req[r].token BY <2>4, <2>8, <2>10
      <4>3. QED BY <2>1, <2>6, <2>8, <2>10, <3>1, <4>1, <4>2 DEF Backed, Known
    <3>4. AnswerBacked(r)' BY <2>8, <2>10, <3>3 DEF AnswerBacked
    <3>5. QED BY <3>2, <3>4 DEF Sound
  <2>11. \A s \in Request \ {r} : pc[s] = "store" => req[s].token \notin {req[r].token}
    BY <1>1, <1>2 DEF StoresApart
  <2>12. "answer" \in Places /\ "answer" \notin Work BY DEF Places, Work
  <2>13. RequestsTyped' /\ ReplicasTyped' /\ StoresApart' /\ BrowsersBacked' /\ \A s \in Request : Sound(s)'
    BY <1>2, <2>1, <2>2, <2>8, <2>9, <2>10, <2>11, <2>12, RequestStep
  <2>14. QED BY <1>3, <2>1, <2>2, <2>3, <2>13, InvAfter DEF Typed
<1>6. QED BY <1>4, <1>5

LEMMA DeleteStep ==
    ASSUME SessionsInv, NEW r \in Request, NEW lost \in BOOLEAN, DeleteSession(r, lost)
    PROVE  SessionsInv'
<1>1. Typed /\ RowsOfLogins /\ Sound(r) BY InvParts
<1>2. /\ pc[r] = "delete" /\ UNCHANGED <<replica, table, identity, cookie, requests, stops>> /\ May(lost)
      /\ \/ table /\ sessions' = OtherRows(r) /\ ended' = ended \cup {req[r].token}
         \/ ~ table /\ UNCHANGED <<sessions, ended>>
      /\ \E status \in HttpStatus, set \in {None, Keep} : Moves(r, "answer", Answered(req[r], status, set))
  BY <1>1, DeleteMoves DEF Typed
<1>3. Bounded' BY <1>1, <1>2, FaultsType DEF Typed
<1>4. PICK status \in HttpStatus, set \in {None, Keep} : Moves(r, "answer", Answered(req[r], status, set)) BY <1>2
<1>5. pc[r] \in Work BY <1>2 DEF Work
<1>6. CASE ~ table
  <2>1. UNCHANGED store BY <1>2, <1>6 DEF store
  <2>2. QED BY <1>2, <1>3, <1>4, <1>5, <2>1, PlainAnswer
<1>7. CASE table
  <2>1. Grows({}) /\ StoreTyped' /\ RowsOfLogins' BY <1>2, <1>7, DeleteStore DEF identity
  <2>2. CookiesTyped' /\ BrowsersBacked' BY <1>2, <2>1, CookiesStay
  <2>3. IdentityTyped' BY <1>1, <1>2 DEF Typed, IdentityTyped, identity
  <2>4. req[r] \in Req BY <1>1, <1>5, AtWorkPlace DEF Typed
  <2>5. req[r].acts = None /\ req[r].before \subseteq ended /\ (req[r].kind = "login" => req[r].user \in User)
    BY <1>1, <1>2 DEF Sound, Knows
  <2> DEFINE x == Answered(req[r], status, set)
  <2>6. x \in Req /\ x.cookie = set /\ x.acts = None /\ x.before = req[r].before /\ x.kind = req[r].kind /\ x.user = req[r].user
    BY <2>4, <2>5, AnsweredType
  <2>7. Moves(r, "answer", x) BY <1>4
  <2> HIDE DEF x
  <2>8. ended \subseteq ended' BY <2>1 DEF Grows
  <2>9. ASSUME pc'[r] = "answer", req'[r] = x PROVE Sound(r)'
    BY <2>5, <2>6, <2>8, <2>9 DEF Sound, Knows, AnswerBacked
  <2>10. "answer" \in Places /\ "answer" \notin Work BY DEF Places, Work
  <2>11. RequestsTyped' /\ ReplicasTyped' /\ StoresApart' /\ BrowsersBacked' /\ \A s \in Request : Sound(s)'
    BY <1>2, <2>1, <2>2, <2>6, <2>7, <2>9, <2>10, RequestStep
  <2>12. QED BY <1>3, <2>1, <2>2, <2>3, <2>11, InvAfter DEF Typed
<1>8. QED BY <1>2, <1>6, <1>7

LEMMA DeliverStep ==
    ASSUME SessionsInv, NEW r \in Request, Deliver(r) \/ LoseAnswer(r)
    PROVE  SessionsInv'
<1>1. Typed /\ BrowsersBacked /\ Sound(r) BY InvParts
<1>2. /\ pc[r] = "answer" /\ Forget(r) /\ UNCHANGED <<replica, store, identity, requests, stops>>
      /\ cookie' = cookie \/ (req[r].cookie # Keep /\ cookie' = [cookie EXCEPT ![req[r].browser] = req[r].cookie])
      /\ faults' = faults \/ (faults < MaxFaults /\ faults' = faults + 1)
  BY DEF Deliver, LoseAnswer, bounds
<1>3. Moves(r, "idle", None) BY <1>1, <1>2, ForgetMoves DEF Typed
<1>4. Bounded' BY <1>1, <1>2, FaultsType DEF Typed
<1>5. CookiesTyped' /\ BrowsersBacked'
  <2>1. CASE cookie' = cookie BY <1>2, <2>1, CookiesStay, GrowsSame DEF store, identity
  <2>2. CASE req[r].cookie # Keep /\ cookie' = [cookie EXCEPT ![req[r].browser] = req[r].cookie]
    <3>1. req[r] \in Req BY <1>1, <1>2 DEF Typed, RequestsTyped
    <3>2. req[r].cookie \in Token \cup {None} /\ req[r].browser \in Browser BY <2>2, <3>1 DEF Req
    <3>3. cookie \in [Browser -> Token \cup {None}] BY <1>1 DEF Typed, CookiesTyped
    <3>4. CookiesTyped' BY <2>2, <3>2, <3>3 DEF CookiesTyped
    <3>5. UNCHANGED <<sessions, ended, logins>> BY <1>2 DEF store, identity
    <3>6. ASSUME NEW b \in Browser, cookie'[b] # None PROVE Backed(cookie[b], b)'
      <4>1. CASE b = req[r].browser
        <5>1. cookie'[b] = req[r].cookie BY <2>2, <3>2, <3>3, <4>1
        <5>2. Backed(req[r].cookie, b) BY <1>1, <1>2, <2>2, <3>6, <4>1, <5>1 DEF Sound, AnswerBacked
        <5>3. QED BY <3>5, <5>1, <5>2 DEF Backed, Tokens
      <4>2. CASE b # req[r].browser
        <5>1. cookie'[b] = cookie[b] BY <2>2, <3>2, <3>3, <4>2
        <5>2. Backed(cookie[b], b) BY <1>1, <3>6, <5>1 DEF BrowsersBacked
        <5>3. QED BY <3>5, <5>1, <5>2 DEF Backed, Tokens
      <4>3. QED BY <4>1, <4>2
    <3>7. QED BY <3>4, <3>6 DEF BrowsersBacked
  <2>3. QED BY <1>2, <2>1, <2>2
<1>6. "idle" \in Places /\ "idle" \notin Work /\ "idle" # "store" BY DEF Places, Work
<1>7. ASSUME pc'[r] = "idle" PROVE Sound(r)' BY <1>7 DEF Sound, Knows, AnswerBacked
<1>8. QED BY <1>2, <1>3, <1>4, <1>5, <1>6, <1>7, QuietStep

LEMMA ReplicaStep ==
    ASSUME SessionsInv, NEW g \in Gateway, Boot(g) \/ Terminate(g) \/ Crash(g)
    PROVE  SessionsInv'
<1>1. Typed /\ RowsOfLogins BY InvParts
<1>2. UNCHANGED <<identity, cookie>> BY DEF Boot, DropTable, CreateTable, Prepare, Drained, Terminate, Crash
<1>3. Grows({}) /\ StoreTyped' /\ RowsOfLogins'
  <2>1. CASE DropTable(g)
    <3>1. table' = FALSE /\ sessions' = {} /\ ended' = ended \cup Tokens(sessions) BY <2>1 DEF DropTable
    <3>2. logins' = logins BY <1>2 DEF identity
    <3>3. QED BY <1>1, <3>1, <3>2, DropStore DEF Typed
  <2>2. CASE CreateTable(g)
    <3>1. UNCHANGED <<sessions, ended, logins>> /\ table' = TRUE BY <1>2, <2>2 DEF CreateTable, identity
    <3>2. QED BY <1>1, <3>1, GrowsSame DEF Typed, StoreTyped, RowsOfLogins
  <2>3. CASE Prepare(g) \/ Drained(g) \/ Terminate(g) \/ Crash(g)
    <3>1. UNCHANGED <<table, sessions, ended, logins>>
      BY <1>2, <2>3 DEF Prepare, Drained, Terminate, Crash, identity, store
    <3>2. QED BY <1>1, <3>1, GrowsSame DEF Typed, StoreTyped, RowsOfLogins
  <2>4. QED BY <2>1, <2>2, <2>3 DEF Boot
<1>4. /\ RequestsTyped' /\ ReplicasTyped'
      /\ \A r \in Request : pc'[r] = "idle" \/ (pc'[r] = pc[r] /\ req'[r] = req[r])
  <2>1. CASE End(g) BY <1>1, <2>1, EndType DEF Typed
  <2>2. ASSUME NEW ph \in Phase, Becomes(g, ph), UNCHANGED <<pc, req>>,
               ph \in {"serving", "draining"} \/ \A r \in Request : ~ AtWork(r, g)
        PROVE  /\ RequestsTyped' /\ ReplicasTyped'
               /\ \A r \in Request : pc'[r] = "idle" \/ (pc'[r] = pc[r] /\ req'[r] = req[r])
    BY <1>1, <2>2, PhaseType DEF Typed
  <2>3. replica[g] \notin {"serving", "draining"} => \A r \in Request : ~ AtWork(r, g)
    BY <1>1 DEF Typed, ReplicasTyped
  <2>4. {"down", "dropped", "created", "serving", "draining"} \subseteq Phase BY DEF Phase
  <2>5. CASE DropTable(g) BY <2>2, <2>3, <2>4, <2>5 DEF DropTable
  <2>6. CASE CreateTable(g) BY <2>2, <2>3, <2>4, <2>6 DEF CreateTable
  <2>7. CASE Prepare(g) BY <2>2, <2>3, <2>4, <2>7 DEF Prepare
  <2>8. CASE Drained(g) BY <2>2, <2>4, <2>8 DEF Drained
  <2>9. CASE Terminate(g) BY <2>1, <2>2, <2>4, <2>9 DEF Terminate
  <2>10. CASE Crash(g) BY <2>1, <2>10 DEF Crash
  <2>11. QED BY <2>5, <2>6, <2>7, <2>8, <2>9, <2>10 DEF Boot
<1>5. StoresApart' /\ BrowsersBacked' /\ \A r \in Request : Sound(r)' BY <1>2, <1>3, <1>4, OthersStep
<1>6. CookiesTyped' /\ IdentityTyped' BY <1>1, <1>2 DEF Typed, CookiesTyped, IdentityTyped, identity
<1>7. Bounded'
  <2>1. UNCHANGED <<requests, faults>> /\ (stops' = stops \/ Stopping)
    BY DEF Boot, DropTable, CreateTable, Prepare, Drained, Terminate, Crash, bounds
  <2>2. QED BY <1>1, <2>1, SessionsAssumption DEF Typed, Bounded, Stopping
<1>8. QED BY <1>3, <1>4, <1>5, <1>6, <1>7, InvAfter DEF Typed

LEMMA TickStep ==
    ASSUME SessionsInv, Tick
    PROVE  SessionsInv'
<1>1. Typed BY InvParts
<1>2. /\ UNCHANGED <<replica, logins, cookie, pc, req, bounds>>
      /\ age' = [t \in Token |-> IF t <= Len(logins) /\ age[t] < AccessLife THEN age[t] + 1 ELSE age[t]]
  BY DEF Tick
<1>3. Grows({}) /\ StoreTyped' /\ RowsOfLogins' BY TickStore
<1>4. StoresApart' /\ BrowsersBacked' /\ \A r \in Request : Sound(r)' BY <1>2, <1>3, OthersStep
<1>5. IdentityTyped'
  <2>1. age' \in [Token -> 0..AccessLife] BY <1>1, <1>2, SessionsAssumption DEF Typed, IdentityTyped
  <2>2. QED BY <1>1, <1>2, <2>1 DEF Typed, IdentityTyped
<1>6. CookiesTyped' /\ RequestsTyped' /\ ReplicasTyped' /\ Bounded'
  BY <1>1, <1>2 DEF Typed, CookiesTyped, RequestsTyped, ReplicasTyped, AtWork, Bounded, bounds
<1>7. QED BY <1>3, <1>4, <1>5, <1>6, InvAfter DEF Typed

-----------------------------------------------------------------------------
LEMMA InvInit == Init => SessionsInv
<1> SUFFICES ASSUME Init PROVE SessionsInv OBVIOUS
<1>1. StoreTyped /\ CookiesTyped BY DEF Init, StoreTyped, CookiesTyped
<1>2. RequestsTyped BY DEF Init, RequestsTyped, Places
<1>3. Bounded BY SessionsAssumption DEF Init, Bounded
<1>4. IdentityTyped BY SessionsAssumption DEF Init, IdentityTyped
<1>5. ReplicasTyped BY DEF Init, ReplicasTyped, Phase, AtWork
<1>6. RowsOfLogins /\ StoresApart /\ BrowsersBacked /\ \A r \in Request : Sound(r)
  BY DEF Init, RowsOfLogins, StoresApart, BrowsersBacked, Sound, Knows, AnswerBacked
<1>7. QED BY <1>1, <1>2, <1>3, <1>4, <1>5, <1>6, InvParts DEF Typed

LEMMA InvStep == SessionsInv /\ [Next]_vars => SessionsInv'
<1> SUFFICES ASSUME SessionsInv, [Next]_vars PROVE SessionsInv' OBVIOUS
<1>1. CASE UNCHANGED vars
  BY <1>1 DEF vars, SessionsInv, TypeOK, RowsOfLogins, RequestsKnowTheirSession, StoresApart, CookiesBacked,
              CallsRestOnSessions, Backed, AtWork, Tokens
<1>2. ASSUME NEW g \in Gateway, Boot(g) \/ Terminate(g) \/ Crash(g) PROVE SessionsInv'
  BY <1>2, ReplicaStep
<1>3. ASSUME NEW r \in Request, NEW b \in Browser, NEW g \in Gateway,
             \/ \E u \in User : Arrive(r, "login", b, g, u)
             \/ \E kind \in {"logout", "call", "open"} : Arrive(r, kind, b, g, None)
      PROVE  SessionsInv'
  <2>1. \A kind \in Kind, u \in User \cup {None} : (kind = "login" => u \in User) /\ Arrive(r, kind, b, g, u) => SessionsInv'
    BY ArriveStep
  <2>2. QED BY <1>3, <2>1 DEF Kind
<1>4. ASSUME NEW r \in Request, Proceed(r) \/ Fail(r) \/ LoseAnswer(r) PROVE SessionsInv'
  BY <1>4, ReadStep, LoginStep, CallStep, RefusalStep, CreateStep, DeleteStep, DeliverStep DEF Proceed
<1>5. CASE Tick BY <1>5, TickStep
<1>6. QED BY <1>1, <1>2, <1>3, <1>4, <1>5 DEF Next

(* Every reachable state satisfies the inductive invariant: what the cookies,
   the requests in progress and the rows say agrees. *)
THEOREM SessionsInvariance == Spec => []SessionsInv
BY InvInit, InvStep, PTL DEF Spec

(* All variables keep their types. *)
THEOREM TypeCorrect == Spec => []TypeOK
<1>1. SessionsInv => TypeOK BY DEF SessionsInv
<1>2. QED BY <1>1, SessionsInvariance, PTL

(* A cookie is of a login of its browser whose row was stored: login sends it
   only after create_session, and delete_session, create_schema and the time
   to live only end sessions. *)
THEOREM CookiesAreBacked == Spec => []CookiesBacked
<1>1. SessionsInv => CookiesBacked BY DEF SessionsInv
<1>2. QED BY <1>1, SessionsInvariance, PTL

(* Identity acts for the user of the browser's login, on a session that had
   not ended when the request arrived: AuthSession reads the row anew. *)
THEOREM CallsAreBacked == Spec => []CallsRestOnSessions
<1>1. SessionsInv => CallsRestOnSessions BY DEF SessionsInv
<1>2. QED BY <1>1, SessionsInvariance, PTL

-----------------------------------------------------------------------------
(* The step that SessionsLast speaks of. *)
Lasting(s) ==
    table' /\ s.token \notin Tokens(sessions') =>
      s.left = 1 \/ \E r \in Request : pc[r] = "delete" /\ req[r].token = s.token

LEMMA LastingStep == ASSUME SessionsInv, Next, NEW s \in sessions PROVE Lasting(s)
<1>1. ASSUME sessions \subseteq sessions' PROVE Lasting(s) BY <1>1 DEF Lasting, Tokens
<1>2. ASSUME NEW g \in Gateway, Boot(g) \/ Terminate(g) \/ Crash(g) PROVE Lasting(s)
  <2>1. (table' = FALSE) \/ sessions' = sessions
    BY <1>2 DEF Boot, DropTable, CreateTable, Prepare, Drained, Terminate, Crash, store
  <2>2. QED BY <1>1, <2>1 DEF Lasting
<1>3. ASSUME NEW r \in Request, \E kind, b, g, u : Arrive(r, kind, b, g, u) PROVE Lasting(s)
  BY <1>1, <1>3 DEF Arrive, store
<1>4. ASSUME NEW r \in Request, Proceed(r) \/ Fail(r) \/ LoseAnswer(r) PROVE Lasting(s)
  <2>1. ASSUME NEW lost \in BOOLEAN, CreateSession(r, lost) PROVE Lasting(s)
    BY <1>1, <2>1 DEF CreateSession
  <2>2. ASSUME NEW lost \in BOOLEAN, DeleteSession(r, lost) PROVE Lasting(s)
    <3>1. pc[r] = "delete" /\ (sessions' = sessions \/ sessions' = OtherRows(r)) BY <2>2 DEF DeleteSession
    <3>2. CASE s.token = req[r].token BY <3>1, <3>2 DEF Lasting
    <3>3. CASE s.token # req[r].token
      <4>1. s \in sessions' BY <3>1, <3>3 DEF OtherRows
      <4>2. QED BY <4>1 DEF Lasting, Tokens
    <3>4. QED BY <3>2, <3>3
  <2>3. CASE ~ \E lost \in BOOLEAN : CreateSession(r, lost) \/ DeleteSession(r, lost)
    <3>1. sessions' = sessions
      BY <1>4, <2>3 DEF Proceed, Read, Forward, Deliver, LoginAtIdentity, CallIdentity, Refused, Fail, LoseAnswer, store
    <3>2. QED BY <1>1, <3>1
  <2>4. QED BY <2>1, <2>2, <2>3
<1>5. CASE Tick
  <2>1. s \in Row BY InvParts DEF Typed, StoreTyped
  <2>2. Older(s).token = s.token /\ Older(s).left = s.left - 1 /\ s.left \in Nat \ {0}
    BY <2>1, SessionsAssumption DEF Older, Row
  <2>3. sessions' = {o \in {Older(z) : z \in sessions} : o.left > 0} BY <1>5 DEF Tick
  <2>4. s.left # 1 => Older(s) \in sessions' BY <2>2, <2>3
  <2>5. QED BY <2>2, <2>4 DEF Lasting, Tokens
<1>6. QED BY <1>2, <1>3, <1>4, <1>5 DEF Next

(* While the table stands only its own logout or the end of its time takes a
   session away: delete_session finds its row by the token's hash, and no
   other statement but create_schema's deletes. *)
THEOREM SessionsAreKept == Spec => SessionsLast
<1>1. SessionsInv /\ [Next]_vars => [\A s \in sessions : Lasting(s)]_vars BY LastingStep
<1>2. [\A s \in sessions : Lasting(s)]_vars =>
        [\A s \in sessions : table' /\ s.token \notin Tokens(sessions') =>
           s.left = 1 \/ \E r \in Request : pc[r] = "delete" /\ req[r].token = s.token]_vars
  BY DEF Lasting
<1>3. QED BY <1>1, <1>2, SessionsInvariance, PTL DEF Spec, SessionsLast

-----------------------------------------------------------------------------
(* The failures that may leave a login without a session. *)
Failure ==
    \/ faults' > faults
    \/ ~ table
    \/ stops' > stops /\ \E g \in Gateway : replica[g] # "down" /\ replica'[g] = "down"

(* A login that is being stored, and is so still, is no orphan; nor is one that
   has been stored. *)
LEMMA OrphanKept ==
    ASSUME NEW new, Grows(new), logins' = logins, NEW t, Orphan(t)',
           \A r \in Request : pc[r] = "store" =>
             (pc'[r] = "store" /\ req'[r].token = req[r].token) \/ req[r].token \in Known'
    PROVE  Orphan(t)
<1>1. t \in 1..Len(logins) /\ t \notin Known' BY DEF Orphan, Known, Tokens
<1>2. t \notin Known BY <1>1 DEF Grows
<1>3. ~ Storing(t) BY <1>1 DEF Orphan, Storing
<1>4. QED BY <1>1, <1>2, <1>3 DEF Orphan, Known

LEMMA OrphanStep ==
    ASSUME SessionsInv, Next, NEW t \in Token, Orphan(t)', ~ Orphan(t)
    PROVE  Failure
<1>1. Typed BY InvParts
<1>t. RequestsTyped /\ IdentityTyped /\ Bounded BY <1>1 DEF Typed
<1>n. faults \in Nat /\ stops \in Nat BY <1>t, SessionsAssumption DEF Bounded
<1>2. ASSUME NEW new, Grows(new), logins' = logins PROVE
        \E r \in Request : /\ pc[r] = "store" /\ req[r].token \notin Known'
                           /\ ~ (pc'[r] = "store" /\ req'[r].token = req[r].token)
  BY <1>2, OrphanKept
(* No replica's step but its end at work touches a request. *)
<1>3. ASSUME NEW g \in Gateway, Boot(g) \/ Terminate(g) \/ Crash(g) PROVE Failure
  <2>1. Grows({}) /\ logins' = logins
    <3>1. logins' = logins
      BY <1>3 DEF Boot, DropTable, CreateTable, Prepare, Drained, Terminate, Crash, identity
    <3>2. StoreTyped /\ RowsOfLogins BY InvParts DEF Typed
    <3>3. CASE DropTable(g) BY <3>1, <3>2, <3>3, DropStore DEF DropTable
    <3>4. CASE ~ DropTable(g)
      <4>1. UNCHANGED <<sessions, ended>>
        BY <1>3, <3>4 DEF Boot, CreateTable, Prepare, Drained, Terminate, Crash, store
      <4>2. QED BY <3>1, <4>1, GrowsSame
    <3>5. QED BY <3>3, <3>4
  <2>2. UNCHANGED <<pc, req>> \/ (End(g) /\ Stopping /\ replica[g] # "down")
    BY <1>3 DEF Boot, DropTable, CreateTable, Prepare, Drained, Terminate, Crash
  <2>3. ~ UNCHANGED <<pc, req>> BY <1>2, <2>1
  <2>4. stops' > stops BY <1>n, <2>2, <2>3 DEF Stopping
  <2>5. replica'[g] = "down" BY <1>1, <2>2, <2>3 DEF End, Becomes, Typed, ReplicasTyped
  <2>6. QED BY <2>2, <2>3, <2>4, <2>5 DEF Failure
<1>4. ASSUME NEW r \in Request, NEW p, NEW x, Moves(r, p, x), UNCHANGED <<sessions, ended, logins>>
      PROVE  pc[r] = "store"
  <2>1. \A s \in Request \ {r} : pc'[s] = pc[s] /\ req'[s] = req[s] BY <1>4, <1>t DEF Moves, RequestsTyped
  <2>2. QED BY <1>2, <1>4, <2>1, GrowsSame
<1>5. ASSUME NEW r \in Request, \E kind, b, g, u : Arrive(r, kind, b, g, u) PROVE FALSE
  <2>1. PICK kind, b, g, u : Arrive(r, kind, b, g, u) BY <1>5
  <2>2. pc[r] = "idle" /\ UNCHANGED <<sessions, ended, logins>> BY <2>1 DEF Arrive, store, identity
  <2>3. \E p, x : Moves(r, p, x) BY <2>1, Zenon DEF Arrive, Moves, Goto
  <2>4. QED BY <1>4, <2>2, <2>3
<1>6. ASSUME NEW r \in Request, Proceed(r) \/ Fail(r) \/ LoseAnswer(r) PROVE Failure
  <2>1. CASE Read(r)
    <3>1. pc[r] = "read" /\ (\E p, x : Moves(r, p, x)) /\ UNCHANGED <<sessions, ended, logins>>
      BY <1>t, <2>1, ReadMoves DEF store, identity
    <3>2. QED BY <1>4, <3>1
  <2>2. CASE Forward(r) \/ \E code \in Refusal : Refused(r, code)
    <3>1. (\E p, x : Moves(r, p, x)) /\ UNCHANGED <<sessions, ended, logins>>
      BY <1>t, <2>2, RefusalMoves DEF store, identity
    <3>2. pc[r] = "identity" BY <2>2 DEF Forward, Refused
    <3>3. QED BY <1>4, <3>1, <3>2
  <2>3. CASE Deliver(r)
    <3>1. pc[r] = "answer" /\ Forget(r) /\ UNCHANGED <<sessions, ended, logins>> BY <2>3 DEF Deliver, store, identity
    <3>2. Moves(r, "idle", None) BY <1>t, <3>1, ForgetMoves
    <3>3. QED BY <1>4, <3>1, <3>2
  <2>4. CASE Fail(r) \/ LoseAnswer(r) BY <1>n, <2>4 DEF Fail, LoseAnswer, Failure
  <2>5. ASSUME NEW lost \in BOOLEAN, CallIdentity(r, lost) PROVE Failure
    <3>1. Knows(r) BY InvParts DEF Sound
    <3>2. pc[r] = "identity" /\ (\E p, x : Moves(r, p, x)) /\ UNCHANGED <<sessions, ended, logins>>
      BY <1>t, <2>5, <3>1, CallMoves DEF store, identity
    <3>3. QED BY <1>4, <3>2
  <2>6. ASSUME NEW lost \in BOOLEAN, DeleteSession(r, lost) PROVE Failure
    <3>1. /\ pc[r] = "delete" /\ UNCHANGED <<table, identity>>
          /\ \/ table /\ sessions' = OtherRows(r) /\ ended' = ended \cup {req[r].token}
             \/ ~ table /\ UNCHANGED <<sessions, ended>>
          /\ \E p, x : Moves(r, p, x)
      BY <1>t, <2>6, DeleteMoves
    <3>2. Grows({}) /\ logins' = logins BY <3>1, DeleteStore, GrowsSame DEF identity
    <3>3. \A s \in Request \ {r} : pc'[s] = pc[s] /\ req'[s] = req[s] BY <1>t, <3>1 DEF Moves, RequestsTyped
    <3>4. QED BY <1>2, <3>1, <3>2, <3>3
  <2>7. ASSUME NEW lost \in BOOLEAN, CreateSession(r, lost), table PROVE FALSE
    <3>1. /\ pc[r] = "store" /\ UNCHANGED <<table, ended, identity>>
          /\ sessions' = sessions \cup {[token |-> req[r].token, user |-> Sub(req[r].token), left |-> SessionLife]}
          /\ \E p, x : Moves(r, p, x)
      BY <1>t, <2>7, CreateMoves
    <3>2. Grows({req[r].token}) /\ req[r].token \in Known' /\ logins' = logins
      BY <2>7, <3>1, InsertStore DEF identity
    <3>3. \A s \in Request \ {r} : pc'[s] = pc[s] /\ req'[s] = req[s] BY <1>t, <3>1 DEF Moves, RequestsTyped
    <3>4. QED BY <1>2, <3>2, <3>3
  (* identity answers: the new login is lost, or on its way to the store. *)
  <2>8. ASSUME NEW lost \in BOOLEAN, LoginAtIdentity(r, lost) PROVE Failure
    <3>1. CASE lost BY <1>n, <2>8, <3>1 DEF LoginAtIdentity, May, Failure
    <3>2. CASE ~ lost
      <4>1. /\ pc[r] = "identity" /\ UNCHANGED <<sessions, ended>> /\ Len(logins) \in Nat
            /\ logins' = Append(logins, [user |-> req[r].user, browser |-> req[r].browser])
        BY <2>8 DEF LoginAtIdentity, store
      <4>2. pc' = [pc EXCEPT ![r] = "store"] /\ req' = [req EXCEPT ![r].token = Len(logins) + 1]
        BY <2>8, <3>2 DEF LoginAtIdentity, Goto
      <4>3. req[r] \in Req BY <1>t, <4>1, AtWorkPlace DEF Work
      <4>4. pc'[r] = "store" /\ req'[r].token = Len(logins) + 1
        BY <1>t, <4>2, <4>3 DEF RequestsTyped, Req
      <4>5. \A s \in Request \ {r} : pc'[s] = pc[s] /\ req'[s] = req[s] BY <1>t, <4>2 DEF RequestsTyped
      <4>6. t # Len(logins) + 1 BY <4>4 DEF Orphan, Storing
      <4>7. Len(logins') = Len(logins) + 1
        <5>1. logins \in Seq(Login) BY <1>t DEF IdentityTyped
        <5>2. [user |-> req[r].user, browser |-> req[r].browser] \in Login
          <6>1. req[r].user \in User
            <7>1. req[r].kind = "login" BY <2>8 DEF LoginAtIdentity
            <7>2. Knows(r) BY InvParts DEF Sound
            <7>3. QED BY <4>1, <7>1, <7>2 DEF Knows
          <6>2. QED BY <4>3, <6>1 DEF Login, Req
        <5> HIDE DEF Login
        <5>3. QED BY <4>1, <5>1, <5>2
      <4>8. t \in 1..Len(logins) BY <4>1, <4>6, <4>7 DEF Orphan
      <4>9. Storing(t) BY <4>1, <4>8 DEF Orphan, Tokens
      <4>10. Storing(t)' BY <4>1, <4>5, <4>9 DEF Storing
      <4>11. QED BY <4>10 DEF Orphan
    <3>3. QED BY <3>1, <3>2
  <2>9. QED BY <1>6, <2>1, <2>2, <2>3, <2>4, <2>5, <2>6, <2>7, <2>8 DEF Proceed, Failure
<1>7. ASSUME Tick PROVE FALSE
  <2>1. Grows({}) /\ UNCHANGED <<logins, pc, req>> BY <1>7, TickStore DEF Tick
  <2>2. QED BY <1>2, <2>1
<1>8. QED BY <1>3, <1>5, <1>6, <1>7 DEF Next

(* A login without a session has cost a failure, a dropped table or a process
   that ended at work, for any number of replicas, requests and logins. *)
THEOREM OrphansAreCharged == Spec => OrphansNeedFailures
<1>1. SessionsInv /\ [Next]_vars => [\A t \in Token : Orphan(t)' /\ ~ Orphan(t) => Failure]_vars BY OrphanStep
<1>2. [\A t \in Token : Orphan(t)' /\ ~ Orphan(t) => Failure]_vars =>
        [\A t \in Token : Orphan(t)' /\ ~ Orphan(t) =>
           \/ faults' > faults
           \/ ~ table
           \/ stops' > stops /\ \E g \in Gateway : replica[g] # "down" /\ replica'[g] = "down"]_vars
  BY DEF Failure
<1>3. QED BY <1>1, <1>2, SessionsInvariance, PTL DEF Spec, OrphansNeedFailures
=============================================================================
