------------------------- MODULE CredentialsProofs -------------------------
(***************************************************************************)
(* Proofs about Credentials, for any number of users, of passwords, of     *)
(* requests, of writes and of faults.                                      *)
(***************************************************************************)
EXTENDS Credentials, FiniteSetTheorems, TLAPS

(* The types hold of the initial rows. *)
LEMMA TypeInit == Init => TypeOK
<1> SUFFICES ASSUME Init PROVE TypeOK OBVIOUS
<1> USE CredentialsAssumption DEF Init
<1>1. rows \in [User -> Seq(Row)] /\ \A u \in User : Len(rows[u]) = 1
  <2>1. ASSUME NEW row \in [pw : ValidPassword, status : {"pending", "active"}, name : ValidName]
        PROVE  <<row>> \in Seq(Row) /\ Len(<<row>>) = 1
    <3>1. row \in Row BY DEF Row, Status
    <3>2. QED BY <3>1
  <2>2. ASSUME NEW u \in User PROVE rows[u] \in Seq(Row) /\ Len(rows[u]) = 1
    <3>1. PICK row \in [pw : ValidPassword, status : {"pending", "active"}, name : ValidName] :
            rows[u] = <<row>>
      OBVIOUS
    <3>2. QED BY <2>1, <3>1
  <2>3. QED BY <2>2
<1>2. pc \in [Request -> PC] BY DEF PC
<1>3. req \in [Request -> Req \cup {None}] /\ rowLock \in [User -> Request \cup {None}] OBVIOUS
<1>4. /\ events \in [User -> Nat]
      /\ changes \in [User -> Seq([row : Nat, offered : Password, start : Nat, snap : Nat])]
  OBVIOUS
<1>5. QED BY <1>1, <1>2, <1>3, <1>4 DEF TypeOK

(* The row of a user is one of its versions. *)
LEMMA CurrentType ==
    ASSUME TypeOK, NEW u \in User
    PROVE  Current(u) \in Row /\ Len(rows[u]) \in Nat \ {0} /\ Len(rows[u]) \in DOMAIN rows[u]
BY DEF TypeOK, Current

(* Writing a version: the history grows by one, and the row is the new one. *)
LEMMA WriteAppends ==
    ASSUME TypeOK, NEW u \in User, NEW row \in Row, Write(u, row)
    PROVE  /\ rows' \in [User -> Seq(Row)]
           /\ Len(rows'[u]) = Len(rows[u]) + 1
           /\ rows'[u][Len(rows[u]) + 1] = row
           /\ Current(u)' = row
           /\ \A v \in 1..Len(rows[u]) : rows'[u][v] = rows[u][v]
           /\ \A w \in User \ {u} : rows'[w] = rows[w]
<1>1. rows[u] \in Seq(Row) /\ rows \in [User -> Seq(Row)] BY DEF TypeOK
<1>2. rows' = [rows EXCEPT ![u] = Append(rows[u], row)] BY DEF Write
<1>3. rows'[u] = Append(rows[u], row) BY <1>1, <1>2
<1>4. Append(rows[u], row) \in Seq(Row) BY <1>1
<1>5. QED BY <1>1, <1>2, <1>3, <1>4 DEF Current

(* The three statements that write a version, and what they write. *)
Written(u, row) ==
    /\ Write(u, row) /\ Live(u)
    /\ \/ \E r \in Request : CommitChange(r) /\ req[r].user = u /\ rowLock[u] = r
                              /\ row = NewRow(r) /\ req[r].new \in Password
       \/ /\ rowLock[u] = None /\ row.pw = Current(u).pw
          /\ UNCHANGED <<rowLock, events, logins, changes, pc, req>>
          /\ \/ \E n \in Name : row = [Current(u) EXCEPT !.name = n]
             \/ \E s \in Status : row = [Current(u) EXCEPT !.status = s]

LEMMA RowsStep ==
    ASSUME TypeOK, RequestsKnowTheRow, [Next]_vars
    PROVE  \/ rows' = rows
           \/ \E u \in User : \E row \in Row :
                Written(u, row)
<1> SUFFICES ASSUME rows' # rows
             PROVE  \E u \in User : \E row \in Row : Written(u, row)
  BY Zenon DEF Written
<1> USE DEF Written
<1>1. ASSUME NEW r \in Request, CommitChange(r)
      PROVE  \E u \in User : \E row \in Row : Written(u, row)
  <2>1. pc[r] = "commit" /\ rowLock[req[r].user] = r /\ Write(req[r].user, NewRow(r))
    BY <1>1 DEF CommitChange
  <2>2. req[r] \in Req /\ req[r].user \in User BY <2>1 DEF TypeOK, Req
  <2>3. req[r].new \in Password BY <2>1, <2>2 DEF RequestsKnowTheRow, IsChange, Req
  <2>4. Live(req[r].user) BY <2>1, <2>2, CredentialsAssumption DEF TypeOK
  <2>5. Current(req[r].user) \in Row BY <2>2, CurrentType
  <2>6. NewRow(r) \in Row BY <2>3, <2>5 DEF NewRow, Row
  <2>7. Written(req[r].user, NewRow(r)) BY <1>1, <2>1, <2>3, <2>4
  <2>8. QED BY <2>2, <2>6, <2>7
<1>2. ASSUME NEW u \in User, NEW n \in Name, UpdateProfile(u, n)
      PROVE  \E v \in User : \E row \in Row : Written(v, row)
  <2> DEFINE row == [Current(u) EXCEPT !.name = n]
  <2>1. row \in Row /\ row.pw = Current(u).pw BY CurrentType DEF Row
  <2>2. Write(u, row) /\ Live(u) /\ rowLock[u] = None /\ UNCHANGED <<rowLock, events, logins, changes, pc, req>>
    BY <1>2 DEF UpdateProfile, CanWrite
  <2>3. Written(u, row) BY <2>1, <2>2
  <2>4. QED BY <2>1, <2>3
<1>3. ASSUME NEW u \in User, NEW s \in Status, SetStatus(u, s)
      PROVE  \E v \in User : \E row \in Row : Written(v, row)
  <2> DEFINE row == [Current(u) EXCEPT !.status = s]
  <2>1. row \in Row /\ row.pw = Current(u).pw BY CurrentType DEF Row
  <2>2. Write(u, row) /\ Live(u) /\ rowLock[u] = None /\ UNCHANGED <<rowLock, events, logins, changes, pc, req>>
    BY <1>3 DEF SetStatus, CanWrite
  <2>3. Written(u, row) BY <2>1, <2>2
  <2>4. QED BY <2>1, <2>3
<1>4. ASSUME NEW r \in Request,
             \/ \E u \in User, p \in Password :
                  BeginLogin(r, u, p) \/ \E q \in Password : BeginChange(r, u, p, q)
             \/ (Proceed(r) /\ ~ CommitChange(r)) \/ Fail(r)
      PROVE  rows' = rows
  BY <1>4 DEF BeginLogin, BeginChange, Arrive, Proceed, LookUp, Verify, SignTokens, StoreRefreshToken,
     UpdateHash, InsertEvent, Fail, Database
<1>5. CASE UNCHANGED vars BY <1>5 DEF vars
<1>6. QED BY <1>1, <1>2, <1>3, <1>4, <1>5 DEF Next, Proceed

(* Versions are only added. *)
LEMMA RowsGrow ==
    ASSUME TypeOK, RequestsKnowTheRow, [Next]_vars, NEW u \in User
    PROVE  /\ rows'[u] \in Seq(Row) /\ Len(rows'[u]) >= Len(rows[u])
           /\ \A v \in 1..Len(rows[u]) : v \in 1..Len(rows'[u]) /\ rows'[u][v] = rows[u][v]
<1>1. CASE rows' = rows BY <1>1 DEF TypeOK
<1>2. ASSUME NEW w \in User, NEW row \in Row, Written(w, row) PROVE
           /\ rows'[u] \in Seq(Row) /\ Len(rows'[u]) >= Len(rows[u])
           /\ \A v \in 1..Len(rows[u]) : v \in 1..Len(rows'[u]) /\ rows'[u][v] = rows[u][v]
  <2>1. Write(w, row) BY <1>2 DEF Written
  <2>0. Len(rows[u]) \in Nat /\ rows[u] \in Seq(Row) BY DEF TypeOK
  <2>2. rows' \in [User -> Seq(Row)] /\ Len(rows[u]) \in Nat
    <3>1. rows' \in [User -> Seq(Row)] BY <2>1, WriteAppends
    <3>2. QED BY <2>0, <3>1
  <2>3. CASE u = w
    <3>1. /\ Len(rows'[u]) = Len(rows[u]) + 1
          /\ \A v \in 1..Len(rows[u]) : rows'[u][v] = rows[u][v]
      BY <2>1, <2>3, WriteAppends
    <3>2. \A v \in 1..Len(rows[u]) : v \in 1..(Len(rows[u]) + 1) BY <2>2
    <3>3. QED BY <2>2, <3>1, <3>2
  <2>4. CASE u # w
    <3>1. rows'[u] = rows[u] BY <2>1, <2>4, WriteAppends
    <3>2. QED BY <2>2, <3>1
  <2>5. QED BY <2>3, <2>4
<1>3. QED BY <1>1, <1>2, RowsStep

(* Every step keeps the types: a row that is locked stays live. *)
LEMMA TypeStep == TypeOK /\ RequestsKnowTheRow /\ [Next]_vars => TypeOK'
<1> SUFFICES ASSUME TypeOK, RequestsKnowTheRow, [Next]_vars PROVE TypeOK' OBVIOUS
<1> DEFINE LockType == \A u \in User : rowLock[u] # None =>
                         pc[rowLock[u]] \in {"event", "commit"} /\ req[rowLock[u]].user = u /\ Live(u)
<1> DEFINE Db ==
      /\ rowLock \in [User -> Request \cup {None}]
      /\ events \in [User -> Nat]
      /\ logins \in SUBSET [id : Nat, user : User, offered : Password, start : Nat, snap : Nat]
      /\ changes \in [User -> Seq([row : Nat, offered : Password, start : Nat, snap : Nat])]
<1> DEFINE Requests ==
      /\ pc \in [Request -> PC]
      /\ req \in [Request -> Req \cup {None}]
      /\ \A r \in Request : pc[r] # "idle" => req[r] \in Req
<1> DEFINE Bounds == requests \in 0..MaxRequests /\ writes \in 0..MaxWrites /\ faults \in 0..MaxFaults
<1> DEFINE Rest == Db /\ Requests /\ Bounds
<1>1. rows' \in [User -> Seq(Row)] /\ \A u \in User : Len(rows'[u]) > 0
  <2>1. rows' \in [User -> Seq(Row)]
    <3>1. CASE rows' = rows BY <3>1 DEF TypeOK
    <3>2. ASSUME NEW u \in User, NEW row \in Row, Written(u, row) PROVE rows' \in [User -> Seq(Row)]
      BY <3>2, WriteAppends DEF Written
    <3>3. QED BY <3>1, <3>2, RowsStep
  <2>2. \A u \in User : Len(rows[u]) \in Nat /\ Len(rows[u]) > 0 BY DEF TypeOK
  <2>3. QED BY <2>1, <2>2, RowsGrow
<1> USE CredentialsAssumption
<1>t. Rest /\ LockType BY DEF TypeOK
<1>r. \A u \in User : Len(rows[u]) \in Nat BY DEF TypeOK
<1>l. \A u \in User : rows'[u] = rows[u] => (Live(u)' <=> Live(u)) BY DEF Live, Current
<1>g. ASSUME NEW r \in Request, NEW p \in PC, Goto(r, p), UNCHANGED req, req[r] \in Req PROVE Requests'
  BY <1>g, <1>t DEF Goto
<1>q. ASSUME NEW r \in Request, Reply(r) PROVE Requests'
  BY <1>q, <1>t DEF Reply, Goto, PC
<1>k. ASSUME NEW r \in Request, UNCHANGED <<rows, rowLock>>, \A s \in Request \ {r} : pc'[s] = pc[s] /\ req'[s] = req[s],
             pc[r] \notin {"event", "commit"} \/ (pc'[r] \in {"event", "commit"} /\ req'[r] = req[r])
      PROVE  LockType'
  <2> SUFFICES ASSUME NEW u \in User, rowLock'[u] # None
               PROVE pc'[rowLock'[u]] \in {"event", "commit"} /\ req'[rowLock'[u]].user = u /\ Live(u)'
    OBVIOUS
  <2>1. rowLock'[u] = rowLock[u] /\ rowLock[u] \in Request BY <1>k, <1>t
  <2>2. pc[rowLock[u]] \in {"event", "commit"} /\ req[rowLock[u]].user = u /\ Live(u) BY <1>t, <2>1
  <2>3. CASE rowLock[u] = r BY <1>k, <1>l, <2>1, <2>2, <2>3
  <2>4. CASE rowLock[u] # r BY <1>k, <1>l, <2>1, <2>2, <2>4
  <2>5. QED BY <2>3, <2>4
<1>o. ASSUME NEW r \in Request, Reply(r) \/ \E p \in PC : Goto(r, p) /\ UNCHANGED req
      PROVE  \A s \in Request \ {r} : pc'[s] = pc[s] /\ req'[s] = req[s]
  BY <1>o, <1>t DEF Reply, Goto
<1>2. ASSUME NEW r \in Request, NEW u \in User, NEW p \in Password, NEW q \in Password \cup {None}, Arrive(r, u, p, q)
      PROVE  Rest' /\ LockType'
  <2> DEFINE x == [id |-> requests, user |-> u, offered |-> p, new |-> q, start |-> Len(rows[u]), snap |-> 0]
  <2>1. x \in Req BY <1>t, <1>r DEF Req
  <2>2. req' = [req EXCEPT ![r] = x] /\ pc' = [pc EXCEPT ![r] = "lookup"] /\ pc[r] = "idle" BY <1>2 DEF Arrive, Goto
  <2>3. UNCHANGED Database /\ Bounds' BY <1>2, <1>t DEF Arrive
  <2> HIDE DEF x
  <2>4. Requests' BY <1>t, <2>1, <2>2 DEF PC
  <2>5. LockType' BY <1>t, <1>k, <2>2, <2>3 DEF Database
  <2>6. QED BY <1>t, <2>3, <2>4, <2>5 DEF Database
<1>3. ASSUME NEW r \in Request, LookUp(r) PROVE Rest' /\ LockType'
  <2>1. req[r] \in Req /\ req[r].user \in User /\ pc[r] = "lookup" BY <1>3, <1>t DEF LookUp, Req
  <2>2. UNCHANGED <<Database, bounds>> BY <1>3 DEF LookUp
  <2>3. CASE Live(req[r].user)
    <3> DEFINE x == [req[r] EXCEPT !.snap = Len(rows[req[r].user])]
    <3>1. x \in Req BY <2>1, <1>r DEF Req
    <3>2. req' = [req EXCEPT ![r] = x] /\ pc' = [pc EXCEPT ![r] = "verify"] BY <1>3, <2>3 DEF LookUp, Goto
    <3> HIDE DEF x
    <3>3. Requests' BY <1>t, <3>1, <3>2 DEF PC
    <3>4. LockType' BY <1>t, <1>k, <2>1, <2>2, <3>2 DEF Database
    <3>5. QED BY <1>t, <2>2, <3>3, <3>4 DEF Database, bounds
  <2>4. CASE ~ Live(req[r].user)
    <3>1. Reply(r) BY <1>3, <2>4 DEF LookUp
    <3>2. QED BY <1>t, <1>k, <1>o, <1>q, <2>1, <2>2, <3>1 DEF Database, bounds
  <2>5. QED BY <2>3, <2>4
<1>4. ASSUME NEW r \in Request, Verify(r) \/ SignTokens(r) PROVE Rest' /\ LockType'
  <2>1. req[r] \in Req /\ pc[r] \in {"verify", "sign"} BY <1>4, <1>t DEF Verify, SignTokens
  <2>2. UNCHANGED <<Database, bounds>> BY <1>4 DEF Verify, SignTokens
  <2>3. Reply(r) \/ \E p \in PC : Goto(r, p) /\ UNCHANGED req BY <1>4 DEF Verify, SignTokens, PC
  <2>4. Requests' BY <1>g, <1>q, <2>1, <2>3
  <2>5. LockType' BY <1>k, <1>o, <2>1, <2>2, <2>3 DEF Database
  <2>6. QED BY <1>t, <2>2, <2>4, <2>5 DEF Database, bounds
<1>5. ASSUME NEW r \in Request, StoreRefreshToken(r) PROVE Rest' /\ LockType'
  <2>1. req[r] \in Req /\ pc[r] = "store" /\ Reply(r) /\ UNCHANGED <<rows, rowLock, events, changes, bounds>>
    BY <1>5, <1>t DEF StoreRefreshToken
  <2>2. logins' \in SUBSET [id : Nat, user : User, offered : Password, start : Nat, snap : Nat]
    BY <1>5, <1>t, <2>1 DEF StoreRefreshToken, Req
  <2>3. Requests' BY <1>q, <2>1
  <2>4. LockType' BY <1>k, <1>o, <2>1
  <2>5. QED BY <1>t, <2>1, <2>2, <2>3, <2>4 DEF bounds
<1>6. ASSUME NEW r \in Request, UpdateHash(r) PROVE Rest' /\ LockType'
  <2>1. req[r] \in Req /\ req[r].user \in User /\ pc[r] = "update" /\ rowLock[req[r].user] = None /\ Goto(r, "event")
        /\ UNCHANGED <<rows, events, logins, changes, req, bounds>>
    BY <1>6, <1>t DEF UpdateHash, Req
  <2>2. rowLock' = IF Live(req[r].user) THEN [rowLock EXCEPT ![req[r].user] = r] ELSE rowLock BY <1>6 DEF UpdateHash
  <2>3. rowLock' \in [User -> Request \cup {None}] BY <1>t, <2>1, <2>2
  <2>4. Requests' BY <1>g, <2>1 DEF PC
  <2>5. LockType'
    <3> SUFFICES ASSUME NEW u \in User, rowLock'[u] # None
                 PROVE pc'[rowLock'[u]] \in {"event", "commit"} /\ req'[rowLock'[u]].user = u /\ Live(u)'
      OBVIOUS
    <3>1. pc' = [pc EXCEPT ![r] = "event"] /\ req' = req /\ (Live(u)' <=> Live(u)) BY <1>l, <2>1 DEF Goto
    <3>2. CASE rowLock'[u] = rowLock[u] BY <1>t, <2>1, <3>1, <3>2
    <3>3. CASE rowLock'[u] # rowLock[u]
      <4>1. u = req[r].user /\ Live(u) /\ rowLock'[u] = r BY <1>t, <2>1, <2>2, <3>3
      <4>2. QED BY <1>t, <3>1, <4>1
    <3>4. QED BY <3>2, <3>3
  <2>6. QED BY <1>t, <2>1, <2>3, <2>4, <2>5 DEF bounds
<1>7. ASSUME NEW r \in Request, InsertEvent(r) PROVE Rest' /\ LockType'
  <2>1. req[r] \in Req /\ pc[r] = "event" /\ Goto(r, "commit") /\ UNCHANGED <<Database, req, bounds>>
    BY <1>7, <1>t DEF InsertEvent
  <2>2. Requests' BY <1>g, <2>1 DEF PC
  <2>3. pc'[r] = "commit" BY <1>t, <2>1 DEF Goto
  <2>4. LockType' BY <1>k, <1>o, <2>1, <2>3 DEF Database, PC
  <2>5. QED BY <1>t, <2>1, <2>2, <2>4 DEF Database, bounds
<1>f. ASSUME NEW r \in Request, Release(r), Reply(r), \A u \in User : rowLock[u] # r => rows'[u] = rows[u]
      PROVE  LockType' /\ Requests' /\ rowLock' \in [User -> Request \cup {None}]
  <2>1. LockType'
    <3> SUFFICES ASSUME NEW u \in User, rowLock'[u] # None
                 PROVE pc'[rowLock'[u]] \in {"event", "commit"} /\ req'[rowLock'[u]].user = u /\ Live(u)'
      OBVIOUS
    <3>1. rowLock'[u] = rowLock[u] /\ rowLock[u] # r /\ rowLock[u] \in Request BY <1>f, <1>t DEF Release
    <3>2. pc'[rowLock[u]] = pc[rowLock[u]] /\ req'[rowLock[u]] = req[rowLock[u]] BY <1>f, <1>o, <3>1
    <3>3. QED BY <1>f, <1>t, <1>l, <3>1, <3>2
  <2>2. QED BY <1>f, <1>q, <1>t, <2>1 DEF Release
<1>8. ASSUME NEW r \in Request, CommitChange(r) PROVE Rest' /\ LockType'
  <2> DEFINE u == req[r].user
  <2> DEFINE c == [row |-> Len(rows[u]) + 1, offered |-> req[r].offered, start |-> req[r].start, snap |-> req[r].snap]
  <2>1. req[r] \in Req /\ u \in User BY <1>8, <1>t DEF CommitChange, Req
  <2>2. Release(r) /\ Reply(r) /\ UNCHANGED <<logins, bounds>> /\ events' = [events EXCEPT ![u] = @ + 1]
    BY <1>8 DEF CommitChange
  <2>3. changes' \in [User -> Seq([row : Nat, offered : Password, start : Nat, snap : Nat])]
    <3>1. CASE changes' = changes BY <1>t, <3>1
    <3>2. CASE rowLock[u] = r
      <4>1. c \in [row : Nat, offered : Password, start : Nat, snap : Nat] BY <2>1, <1>r DEF Req
      <4>2. changes' = [changes EXCEPT ![u] = Append(changes[u], c)] BY <1>8, <3>2 DEF CommitChange
      <4> HIDE DEF c, u
      <4>3. changes[u] \in Seq([row : Nat, offered : Password, start : Nat, snap : Nat]) BY <1>t, <2>1
      <4>4. Append(changes[u], c) \in Seq([row : Nat, offered : Password, start : Nat, snap : Nat]) BY <4>1, <4>3
      <4>5. QED BY <1>t, <4>2, <4>4
    <3>3. QED BY <1>8, <3>1, <3>2 DEF CommitChange
  <2>4. \A v \in User : rowLock[v] # r => rows'[v] = rows[v]
    <3>1. CASE rowLock[u] = r
      <4>1. rows \in [User -> Seq(Row)] BY DEF TypeOK
      <4>2. QED BY <1>8, <3>1, <4>1 DEF CommitChange, Write
    <3>2. CASE rowLock[u] # r BY <1>8, <3>2 DEF CommitChange
    <3>3. QED BY <3>1, <3>2
  <2>5. LockType' /\ Requests' /\ rowLock' \in [User -> Request \cup {None}] BY <1>f, <2>2, <2>4
  <2>6. events' \in [User -> Nat] BY <1>t, <2>1, <2>2
  <2>7. QED BY <1>t, <2>2, <2>3, <2>5, <2>6 DEF bounds
<1>9. ASSUME NEW r \in Request, Fail(r) PROVE Rest' /\ LockType'
  <2>1. Release(r) /\ Reply(r) /\ faults < MaxFaults /\ faults' = faults + 1
        /\ UNCHANGED <<rows, events, logins, changes, requests, writes>>
    BY <1>9 DEF Fail
  <2>2. LockType' /\ Requests' /\ rowLock' \in [User -> Request \cup {None}] BY <1>f, <2>1
  <2>3. Bounds' BY <1>t, <2>1
  <2>4. QED BY <1>t, <2>1, <2>2, <2>3
<1>10. ASSUME NEW u \in User, NEW row \in Row, Write(u, row), rowLock[u] = None,
              UNCHANGED <<rowLock, events, logins, changes, pc, req, requests, faults>>, writes' \in 0..MaxWrites
      PROVE  Rest' /\ LockType'
  <2>1. Rest' BY <1>10, <1>t
  <2>2. \A w \in User : rowLock[w] # None => rows'[w] = rows[w] BY <1>10, WriteAppends
  <2>3. LockType' BY <1>10, <1>t, <1>l, <2>2
  <2>4. QED BY <2>1, <2>3
<1>11. ASSUME NEW u \in User, NEW n \in Name, UpdateProfile(u, n) PROVE Rest' /\ LockType'
  <2>1. [Current(u) EXCEPT !.name = n] \in Row BY CurrentType DEF Row
  <2>2. writes' \in 0..MaxWrites BY <1>11, <1>t DEF UpdateProfile, CanWrite
  <2>3. QED BY <1>10, <1>11, <2>1, <2>2 DEF UpdateProfile, CanWrite
<1>12. ASSUME NEW u \in User, NEW s \in Status, SetStatus(u, s) PROVE Rest' /\ LockType'
  <2>1. [Current(u) EXCEPT !.status = s] \in Row BY CurrentType DEF Row
  <2>2. writes' \in 0..MaxWrites BY <1>12, <1>t DEF SetStatus, CanWrite
  <2>3. QED BY <1>10, <1>12, <2>1, <2>2 DEF SetStatus, CanWrite
<1>13. ASSUME UNCHANGED vars PROVE Rest' /\ LockType' BY <1>13, <1>t, <1>l DEF vars
<1>14. Rest' /\ LockType'
  BY <1>2, <1>3, <1>4, <1>5, <1>6, <1>7, <1>8, <1>9, <1>11, <1>12, <1>13
  DEF Next, Proceed, BeginLogin, BeginChange
<1>15. QED BY <1>1, <1>14 DEF TypeOK

-----------------------------------------------------------------------------
(* What a request has found out about the versions of its row. *)
Knows(r) ==
    LET u == req[r].user IN
    /\ 0 < req[r].start /\ req[r].start <= Len(rows[u])
    /\ pc[r] # "lookup" => req[r].start <= req[r].snap /\ req[r].snap <= Len(rows[u])
    /\ pc[r] \notin {"lookup", "verify"} => PasswordMatches(r)
    /\ pc[r] \in {"sign", "store"} => Snapshot(r).status = "active"
    /\ pc[r] \in {"update", "event", "commit"} => IsChange(r)

(* How a step moves a request. *)
LEMMA RequestStep ==
    ASSUME TypeOK, [Next]_vars, NEW r \in Request
    PROVE  \/ pc'[r] = pc[r] /\ req'[r] = req[r]
           \/ pc'[r] = "idle"
           \/ \E u \in User, p \in Password, q \in Password \cup {None} : Arrive(r, u, p, q)
           \/ LookUp(r) \/ Verify(r) \/ SignTokens(r) \/ UpdateHash(r) \/ InsertEvent(r)
<1> USE DEF TypeOK
<1>1. ASSUME NEW s \in Request, NEW u \in User, NEW p \in Password, NEW q \in Password \cup {None}, Arrive(s, u, p, q)
      PROVE  s = r \/ (pc'[r] = pc[r] /\ req'[r] = req[r])
  BY <1>1 DEF Arrive, Goto
<1>2. ASSUME NEW s \in Request, LookUp(s) \/ Verify(s) \/ SignTokens(s)
      PROVE  s = r \/ (pc'[r] = pc[r] /\ req'[r] = req[r])
  BY <1>2 DEF LookUp, Verify, SignTokens, Goto, Reply
<1>3. ASSUME NEW s \in Request, UpdateHash(s) \/ InsertEvent(s)
      PROVE  s = r \/ (pc'[r] = pc[r] /\ req'[r] = req[r])
  BY <1>3 DEF UpdateHash, InsertEvent, Goto
<1>4. ASSUME NEW s \in Request, StoreRefreshToken(s) \/ CommitChange(s) \/ Fail(s)
      PROVE  pc'[r] = "idle" \/ (pc'[r] = pc[r] /\ req'[r] = req[r])
  <2>1. Reply(s) BY <1>4 DEF StoreRefreshToken, CommitChange, Fail
  <2>2. QED BY <2>1 DEF Reply, Goto
<1>5. ASSUME NEW u \in User, (\E n \in Name : UpdateProfile(u, n)) \/ (\E s \in Status : SetStatus(u, s))
      PROVE  pc' = pc /\ req' = req
  BY <1>5 DEF UpdateProfile, SetStatus
<1>6. CASE UNCHANGED vars BY <1>6 DEF vars
<1> HIDE DEF TypeOK
<1>7. QED BY <1>1, <1>2, <1>3, <1>4, <1>5, <1>6 DEF Next, Proceed, BeginLogin, BeginChange

(* What a request knew it goes on knowing: versions are only added. *)
LEMMA KnowsKept ==
    ASSUME TypeOK, RequestsKnowTheRow, [Next]_vars, NEW r \in Request, pc[r] # "idle", req'[r] = req[r]
    PROVE  /\ Knows(r) /\ req[r] \in Req /\ req[r].user \in User
           /\ Len(rows[req[r].user]) \in Nat
           /\ 0 < req'[r].start /\ req'[r].start <= Len(rows'[req'[r].user])
           /\ pc[r] # "lookup" => /\ req'[r].start <= req'[r].snap /\ req'[r].snap <= Len(rows'[req'[r].user])
                                  /\ Snapshot(r)' = Snapshot(r)
                                  /\ PasswordMatches(r)' <=> PasswordMatches(r)
           /\ IsChange(r)' <=> IsChange(r)
<1>1. Knows(r) BY DEF Knows, RequestsKnowTheRow
<1>2. req[r] \in Req /\ req[r].user \in User /\ req[r].start \in Nat /\ req[r].snap \in Nat BY DEF TypeOK, Req
<1>3. Len(rows[req[r].user]) \in Nat /\ rows'[req[r].user] \in Seq(Row) BY <1>2, RowsGrow, CurrentType
<1>4. Len(rows'[req[r].user]) \in Nat /\ Len(rows'[req[r].user]) >= Len(rows[req[r].user]) BY <1>2, <1>3, RowsGrow
<1>5. 0 < req'[r].start /\ req'[r].start <= Len(rows'[req'[r].user]) BY <1>1, <1>2, <1>3, <1>4 DEF Knows
<1>6. ASSUME pc[r] # "lookup"
      PROVE /\ req'[r].start <= req'[r].snap /\ req'[r].snap <= Len(rows'[req'[r].user])
            /\ Snapshot(r)' = Snapshot(r)
  <2>1. req[r].snap \in 1..Len(rows[req[r].user]) BY <1>1, <1>2, <1>3, <1>6 DEF Knows
  <2>2. rows'[req[r].user][req[r].snap] = rows[req[r].user][req[r].snap] BY <1>2, <2>1, RowsGrow
  <2>3. QED BY <1>1, <1>2, <1>3, <1>4, <1>6, <2>1, <2>2 DEF Knows, Snapshot
<1>7. ASSUME Snapshot(r)' = Snapshot(r) PROVE PasswordMatches(r)' <=> PasswordMatches(r)
  BY <1>7 DEF PasswordMatches
<1>8. IsChange(r)' <=> IsChange(r) BY DEF IsChange
<1>9. QED BY <1>1, <1>2, <1>3, <1>5, <1>6, <1>7, <1>8

(* Requests keep knowing their row. *)
LEMMA KnowStep == TypeOK /\ RequestsKnowTheRow /\ [Next]_vars => RequestsKnowTheRow'
<1> SUFFICES ASSUME TypeOK, RequestsKnowTheRow, [Next]_vars, NEW r \in Request, pc'[r] # "idle"
             PROVE  Knows(r)'
  BY DEF Knows, RequestsKnowTheRow
<1>1. CASE pc'[r] = pc[r] /\ req'[r] = req[r]
  <2>1. Knows(r) BY <1>1, KnowsKept
  <2>2. QED BY <1>1, <2>1, KnowsKept DEF Knows
<1>2. ASSUME NEW u \in User, NEW p \in Password, NEW q \in Password \cup {None}, Arrive(r, u, p, q) PROVE Knows(r)'
  <2>1. pc'[r] = "lookup" /\ req'[r].start = Len(rows[u]) /\ req'[r].user = u /\ rows' = rows
    BY <1>2 DEF Arrive, Goto, Database, TypeOK
  <2>2. Len(rows[u]) \in Nat \ {0} BY CurrentType
  <2>3. QED BY <2>1, <2>2 DEF Knows
<1>3. CASE LookUp(r)
  <2>1. pc[r] = "lookup" /\ rows' = rows /\ req[r] \in Req /\ req[r].user \in User
    BY <1>3 DEF LookUp, Database, TypeOK, Req
  <2>2. Live(req[r].user) /\ req' = [req EXCEPT ![r].snap = Len(rows[req[r].user])] /\ pc'[r] = "verify"
    BY <1>3 DEF LookUp, Reply, Goto, TypeOK
  <2>3. req'[r].snap = Len(rows[req[r].user]) /\ req'[r].start = req[r].start /\ req'[r].user = req[r].user
    BY <2>1, <2>2 DEF TypeOK, Req
  <2>4. Knows(r) BY <2>1 DEF Knows, RequestsKnowTheRow
  <2>5. Len(rows[req[r].user]) \in Nat BY <2>1, CurrentType
  <2>6. QED BY <2>1, <2>2, <2>3, <2>4, <2>5 DEF Knows
<1>4. CASE Verify(r)
  <2>1. pc[r] = "verify" /\ req' = req /\ rows' = rows /\ PasswordMatches(r) BY <1>4 DEF Verify, Reply, Goto, Database, TypeOK
  <2>2. \/ pc'[r] = "update" /\ IsChange(r)
        \/ pc'[r] = "sign" /\ Snapshot(r).status = "active"
    BY <1>4 DEF Verify, Reply, Goto, TypeOK
  <2>3. QED BY <2>1, <2>2, KnowsKept DEF Knows
<1>5. CASE SignTokens(r)
  <2>1. pc[r] = "sign" /\ req' = req /\ pc'[r] = "store" BY <1>5 DEF SignTokens, Goto, TypeOK
  <2>2. QED BY <2>1, KnowsKept DEF Knows
<1>6. CASE UpdateHash(r)
  <2>1. pc[r] = "update" /\ req' = req /\ pc'[r] = "event" BY <1>6 DEF UpdateHash, Goto, TypeOK
  <2>2. QED BY <2>1, KnowsKept DEF Knows
<1>7. CASE InsertEvent(r)
  <2>1. pc[r] = "event" /\ req' = req /\ pc'[r] = "commit" BY <1>7 DEF InsertEvent, Goto, TypeOK
  <2>2. QED BY <2>1, KnowsKept DEF Knows
<1>8. QED BY <1>1, <1>2, <1>3, <1>4, <1>5, <1>6, <1>7, RequestStep

(* A row that is not live is not written. *)
LEMMA DeadStays ==
    ASSUME TypeOK, RequestsKnowTheRow, [Next]_vars, NEW u \in User, ~ Live(u)
    PROVE  rows'[u] = rows[u] /\ ~ Live(u)'
<1>1. ASSUME NEW w \in User, NEW row \in Row, Written(w, row) PROVE rows'[u] = rows[u]
  <2>1. Write(w, row) /\ u # w BY <1>1 DEF Written
  <2>2. QED BY <2>1, WriteAppends
<1>2. rows'[u] = rows[u] BY <1>1, RowsStep
<1>3. QED BY <1>2 DEF Live, Current

(* A request's lock is freed by the request alone. *)
LEMMA LockStays ==
    ASSUME TypeOK, [Next]_vars, NEW u \in User, rowLock[u] # None, pc'[rowLock[u]] # "idle"
    PROVE  rowLock'[u] = rowLock[u]
<1>0. rowLock[u] \in Request /\ pc[rowLock[u]] \in {"event", "commit"} BY DEF TypeOK
<1>1. ASSUME NEW s \in Request, UpdateHash(s) PROVE rowLock'[u] = rowLock[u]
  BY <1>1 DEF UpdateHash, TypeOK
<1>2. ASSUME NEW s \in Request, CommitChange(s) \/ Fail(s) PROVE rowLock'[u] = rowLock[u]
  <2>1. Release(s) /\ pc' = [pc EXCEPT ![s] = "idle"] BY <1>2 DEF CommitChange, Fail, Reply, Goto
  <2>2. rowLock[u] # s BY <1>0, <2>1 DEF TypeOK
  <2>3. QED BY <2>1, <2>2 DEF Release
<1>3. ASSUME NEW s \in Request,
             \/ \E v \in User, p \in Password :
                  BeginLogin(s, v, p) \/ \E q \in Password : BeginChange(s, v, p, q)
             \/ LookUp(s) \/ Verify(s) \/ SignTokens(s) \/ StoreRefreshToken(s) \/ InsertEvent(s)
      PROVE  rowLock' = rowLock
  BY <1>3 DEF BeginLogin, BeginChange, Arrive, LookUp, Verify, SignTokens, StoreRefreshToken, InsertEvent, Database
<1>4. ASSUME NEW v \in User, (\E n \in Name : UpdateProfile(v, n)) \/ (\E s \in Status : SetStatus(v, s))
      PROVE  rowLock' = rowLock
  BY <1>4 DEF UpdateProfile, SetStatus
<1>5. CASE UNCHANGED vars BY <1>5 DEF vars
<1>6. QED BY <1>1, <1>2, <1>3, <1>4, <1>5 DEF Next, Proceed

(* A transaction keeps its lock, or its user stays deleted. *)
LEMMA LockStep ==
    TypeOK /\ RequestsKnowTheRow /\ LockedOrDeleted /\ [Next]_vars => LockedOrDeleted'
<1> SUFFICES ASSUME TypeOK, RequestsKnowTheRow, LockedOrDeleted, [Next]_vars,
                    NEW r \in Request, pc'[r] \in {"event", "commit"}
             PROVE  (rowLock[req[r].user] = r \/ ~ Live(req[r].user))'
  BY Zenon DEF LockedOrDeleted
<1>1. ASSUME pc[r] \in {"event", "commit"}, req'[r] = req[r]
      PROVE  (rowLock[req[r].user] = r \/ ~ Live(req[r].user))'
  <2>1. req[r].user \in User BY <1>1 DEF TypeOK, Req
  <2>2. CASE rowLock[req[r].user] = r
    <3>1. rowLock[req[r].user] # None BY <2>2, CredentialsAssumption
    <3>2. QED BY <1>1, <2>1, <2>2, <3>1, LockStays
  <2>3. CASE ~ Live(req[r].user)
    <3>1. rows'[req[r].user] = rows[req[r].user] BY <2>1, <2>3, DeadStays
    <3>2. QED BY <1>1, <2>3, <3>1 DEF Live, Current
  <2>4. QED BY <1>1, <2>2, <2>3 DEF LockedOrDeleted
<1>2. CASE pc'[r] = pc[r] /\ req'[r] = req[r] BY <1>1, <1>2
<1>3. CASE InsertEvent(r) BY <1>1, <1>3 DEF InsertEvent
<1>4. CASE UpdateHash(r)
  <2>1. req' = req /\ rows' = rows /\ req[r].user \in User BY <1>4 DEF UpdateHash, TypeOK, Req
  <2>2. rowLock' = IF Live(req[r].user) THEN [rowLock EXCEPT ![req[r].user] = r] ELSE rowLock BY <1>4 DEF UpdateHash
  <2>3. CASE Live(req[r].user) BY <2>1, <2>2, <2>3 DEF TypeOK
  <2>4. CASE ~ Live(req[r].user) BY <2>1, <2>4 DEF Live, Current
  <2>5. QED BY <2>3, <2>4
<1>5. CASE LookUp(r) \/ Verify(r) \/ SignTokens(r)
  BY <1>5 DEF LookUp, Verify, SignTokens, Reply, Goto, TypeOK
<1>6. CASE \E u \in User, p \in Password, q \in Password \cup {None} : Arrive(r, u, p, q)
  BY <1>6 DEF Arrive, Goto, TypeOK
<1>7. QED BY <1>2, <1>3, <1>4, <1>5, <1>6, RequestStep

-----------------------------------------------------------------------------
(* The change a transaction commits. *)
ChangeOf(r) ==
    [row |-> Len(rows[req[r].user]) + 1, offered |-> req[r].offered,
     start |-> req[r].start, snap |-> req[r].snap]

(* What a step does to changes and events: nothing unless it commits. *)
LEMMA HistoryStep ==
    ASSUME TypeOK, [Next]_vars
    PROVE  \/ changes' = changes /\ events' = events
           \/ \E r \in Request : CommitChange(r)
<1>1. ASSUME NEW s \in Request,
             \/ \E v \in User, p \in Password :
                  BeginLogin(s, v, p) \/ \E q \in Password : BeginChange(s, v, p, q)
             \/ LookUp(s) \/ Verify(s) \/ SignTokens(s) \/ StoreRefreshToken(s) \/ UpdateHash(s)
             \/ InsertEvent(s) \/ Fail(s)
      PROVE  changes' = changes /\ events' = events
  BY <1>1 DEF BeginLogin, BeginChange, Arrive, LookUp, Verify, SignTokens, StoreRefreshToken, UpdateHash, InsertEvent,
     Fail, Database
<1>2. ASSUME NEW v \in User, (\E n \in Name : UpdateProfile(v, n)) \/ (\E s \in Status : SetStatus(v, s))
      PROVE  changes' = changes /\ events' = events
  BY <1>2 DEF UpdateProfile, SetStatus
<1>3. CASE UNCHANGED vars BY <1>3 DEF vars
<1>4. QED BY <1>1, <1>2, <1>3 DEF Next, Proceed

(* A commit with a lock: one version, one change, one event. *)
LEMMA CommitWithLock ==
    ASSUME TypeOK, RequestsKnowTheRow, NEW r \in Request, CommitChange(r), rowLock[req[r].user] = r
    PROVE  LET u == req[r].user IN
           /\ u \in User /\ Knows(r) /\ pc[r] = "commit" /\ Live(u)
           /\ NewRow(r) \in Row /\ Write(u, NewRow(r))
           /\ Len(changes'[u]) = Len(changes[u]) + 1
           /\ DOMAIN changes'[u] = 1..(Len(changes[u]) + 1)
           /\ changes'[u][Len(changes[u]) + 1] = ChangeOf(r)
           /\ \A j \in DOMAIN changes[u] : changes'[u][j] = changes[u][j]
           /\ \A w \in User \ {u} : changes'[w] = changes[w] /\ events'[w] = events[w]
           /\ events'[u] = events[u] + 1
<1> DEFINE u == req[r].user
<1>1. pc[r] = "commit" /\ Write(u, NewRow(r)) /\ events' = [events EXCEPT ![u] = @ + 1]
      /\ changes' = [changes EXCEPT ![u] = Append(@, ChangeOf(r))]
  BY DEF CommitChange, ChangeOf
<1>2. u \in User /\ req[r] \in Req BY <1>1 DEF TypeOK, Req
<1>3. Knows(r) BY <1>1 DEF Knows, RequestsKnowTheRow
<1>4. req[r].new \in Password BY <1>1, <1>2, <1>3 DEF Knows, IsChange, Req
<1>5. Live(u) BY <1>2, CredentialsAssumption DEF TypeOK
<1>6. NewRow(r) \in Row BY <1>2, <1>4, CurrentType DEF NewRow, Row
<1> HIDE DEF u
<1>7. changes[u] \in Seq([row : Nat, offered : Password, start : Nat, snap : Nat]) BY <1>2 DEF TypeOK
<1>8. changes'[u] = Append(changes[u], ChangeOf(r)) BY <1>1, <1>2 DEF TypeOK
<1>9. /\ Len(changes'[u]) = Len(changes[u]) + 1
      /\ DOMAIN changes'[u] = 1..(Len(changes[u]) + 1)
      /\ changes'[u][Len(changes[u]) + 1] = ChangeOf(r)
      /\ \A j \in DOMAIN changes[u] : changes'[u][j] = changes[u][j]
  <2>1. ASSUME NEW s \in Seq([row : Nat, offered : Password, start : Nat, snap : Nat]), NEW x
        PROVE  /\ Len(Append(s, x)) = Len(s) + 1
               /\ DOMAIN Append(s, x) = 1..(Len(s) + 1)
               /\ Append(s, x)[Len(s) + 1] = x
               /\ \A j \in DOMAIN s : Append(s, x)[j] = s[j]
    OBVIOUS
  <2>2. QED BY <1>7, <1>8, <2>1
<1>10. /\ \A w \in User \ {u} : changes'[w] = changes[w] /\ events'[w] = events[w]
       /\ events'[u] = events[u] + 1
  BY <1>1, <1>2 DEF TypeOK
<1>11. QED BY <1>1, <1>2, <1>3, <1>5, <1>6, <1>9, <1>10 DEF u

(* A commit without a lock leaves an event only. *)
LEMMA CommitWithoutLock ==
    ASSUME TypeOK, NEW r \in Request, CommitChange(r), rowLock[req[r].user] # r
    PROVE  /\ req[r].user \in User /\ pc[r] = "commit" /\ rows' = rows /\ changes' = changes
           /\ events'[req[r].user] = events[req[r].user] + 1
           /\ \A w \in User \ {req[r].user} : events'[w] = events[w]
<1>1. pc[r] = "commit" /\ rows' = rows /\ changes' = changes
      /\ events' = [events EXCEPT ![req[r].user] = @ + 1]
  BY DEF CommitChange
<1>2. req[r].user \in User BY <1>1 DEF TypeOK, Req
<1>3. QED BY <1>1, <1>2 DEF TypeOK

(* Changes are only added, and what is added is a commit of its user. *)
LEMMA ChangesGrow ==
    ASSUME TypeOK, RequestsKnowTheRow, [Next]_vars, NEW u \in User
    PROVE  \/ changes'[u] = changes[u]
           \/ \E r \in Request :
                /\ CommitChange(r) /\ rowLock[req[r].user] = r /\ req[r].user = u
                /\ DOMAIN changes'[u] = DOMAIN changes[u] \cup {Len(changes[u]) + 1}
                /\ Len(changes[u]) + 1 \notin DOMAIN changes[u]
                /\ \A j \in DOMAIN changes[u] : changes'[u][j] = changes[u][j]
<1>1. ASSUME NEW r \in Request, CommitChange(r), rowLock[req[r].user] = r, req[r].user = u
      PROVE  /\ DOMAIN changes'[u] = DOMAIN changes[u] \cup {Len(changes[u]) + 1}
             /\ Len(changes[u]) + 1 \notin DOMAIN changes[u]
             /\ \A j \in DOMAIN changes[u] : changes'[u][j] = changes[u][j]
  <2>1. DOMAIN changes[u] = 1..Len(changes[u]) /\ Len(changes[u]) \in Nat BY DEF TypeOK
  <2>2. DOMAIN changes'[u] = 1..(Len(changes[u]) + 1) BY <1>1, CommitWithLock
  <2>3. \A j \in DOMAIN changes[u] : changes'[u][j] = changes[u][j] BY <1>1, CommitWithLock
  <2>4. QED BY <2>1, <2>2, <2>3
<1>2. ASSUME NEW r \in Request, CommitChange(r), rowLock[req[r].user] = r, req[r].user # u
      PROVE  changes'[u] = changes[u]
  BY <1>2, CommitWithLock
<1>3. ASSUME NEW r \in Request, CommitChange(r), rowLock[req[r].user] # r PROVE changes'[u] = changes[u]
  BY <1>3, CommitWithoutLock
<1>4. QED BY <1>1, <1>2, <1>3, HistoryStep

(* What is recorded of a change. *)
LEMMA ChangeType ==
    ASSUME TypeOK, NEW u \in User, NEW i \in DOMAIN changes[u]
    PROVE  /\ changes[u][i] \in [row : Nat, offered : Password, start : Nat, snap : Nat]
           /\ changes[u][i].row \in Nat
<1> DEFINE C == [row : Nat, offered : Password, start : Nat, snap : Nat]
<1>1. changes[u] \in Seq(C) BY DEF TypeOK
<1> HIDE DEF C
<1>2. changes[u][i] \in C BY <1>1
<1>3. QED BY <1>2 DEF C

(* The two ways a row gets a version, as they look to its user. *)
LEMMA VersionStep ==
    ASSUME TypeOK, RequestsKnowTheRow, [Next]_vars, NEW u \in User
    PROVE  \/ rows'[u] = rows[u]
           \/ \E row \in Row :
                /\ Write(u, row)
                /\ \/ row.pw = Current(u).pw
                   \/ /\ Len(changes[u]) + 1 \in DOMAIN changes'[u]
                      /\ changes'[u][Len(changes[u]) + 1].row = Len(rows[u]) + 1
<1>1. ASSUME NEW w \in User, NEW row \in Row, Written(w, row)
      PROVE  \/ rows'[u] = rows[u]
             \/ /\ Write(u, row)
                /\ \/ row.pw = Current(u).pw
                   \/ /\ Len(changes[u]) + 1 \in DOMAIN changes'[u]
                      /\ changes'[u][Len(changes[u]) + 1].row = Len(rows[u]) + 1
  <2>1. Write(w, row) BY <1>1 DEF Written
  <2>2. CASE u # w BY <2>1, <2>2, WriteAppends
  <2>3. CASE u = w
    <3>1. ASSUME NEW r \in Request, CommitChange(r), req[r].user = u, rowLock[u] = r
          PROVE  /\ Len(changes[u]) + 1 \in DOMAIN changes'[u]
                 /\ changes'[u][Len(changes[u]) + 1].row = Len(rows[u]) + 1
      <4>1. /\ DOMAIN changes'[u] = 1..(Len(changes[u]) + 1)
            /\ changes'[u][Len(changes[u]) + 1] = ChangeOf(r)
        BY <3>1, CommitWithLock
      <4>2. Len(changes[u]) \in Nat BY DEF TypeOK
      <4>3. QED BY <3>1, <4>1, <4>2 DEF ChangeOf
    <3>2. QED BY <1>1, <2>1, <2>3, <3>1 DEF Written
  <2>4. QED BY <2>2, <2>3
<1>2. QED BY <1>1, RowsStep

-----------------------------------------------------------------------------
(* Passwords change by changes. *)
LEMMA PasswordStep ==
    TypeOK /\ RequestsKnowTheRow /\ PasswordsChangeByChanges /\ [Next]_vars => PasswordsChangeByChanges'
<1> SUFFICES ASSUME TypeOK, RequestsKnowTheRow, PasswordsChangeByChanges, [Next]_vars, NEW u \in User,
                    NEW v \in 1..Len(rows'[u]), NEW w \in 1..Len(rows'[u]), v < w,
                    rows'[u][v].pw # rows'[u][w].pw
             PROVE  \E j \in DOMAIN changes'[u] : v < changes'[u][j].row /\ changes'[u][j].row <= w
  BY DEF PasswordsChangeByChanges
<1>1. ASSUME NEW x \in 1..Len(rows[u]), NEW y \in 1..Len(rows[u]), x < y, rows[u][x].pw # rows[u][y].pw
      PROVE  \E j \in DOMAIN changes'[u] : x < changes'[u][j].row /\ changes'[u][j].row <= y
  <2>1. PICK j \in DOMAIN changes[u] : x < changes[u][j].row /\ changes[u][j].row <= y
    BY <1>1 DEF PasswordsChangeByChanges
  <2>2. j \in DOMAIN changes'[u] /\ changes'[u][j] = changes[u][j] BY ChangesGrow
  <2>3. QED BY <2>1, <2>2
<1>2. Len(rows[u]) \in Nat \ {0} BY CurrentType
<1>3. CASE rows'[u] = rows[u] BY <1>1, <1>3
<1>4. ASSUME NEW row \in Row, Write(u, row),
             \/ row.pw = Current(u).pw
             \/ /\ Len(changes[u]) + 1 \in DOMAIN changes'[u]
                /\ changes'[u][Len(changes[u]) + 1].row = Len(rows[u]) + 1
      PROVE  \E j \in DOMAIN changes'[u] : v < changes'[u][j].row /\ changes'[u][j].row <= w
  <2>1. /\ Len(rows'[u]) = Len(rows[u]) + 1
        /\ rows'[u][Len(rows[u]) + 1] = row
        /\ \A x \in 1..Len(rows[u]) : rows'[u][x] = rows[u][x]
    BY <1>4, WriteAppends
  <2>2. v \in 1..Len(rows[u]) BY <1>2, <2>1
  <2>3. CASE w \in 1..Len(rows[u]) BY <1>1, <2>1, <2>2, <2>3
  <2>4. CASE w = Len(rows[u]) + 1
    <3>1. CASE changes'[u][Len(changes[u]) + 1].row = Len(rows[u]) + 1 /\ Len(changes[u]) + 1 \in DOMAIN changes'[u]
      BY <1>2, <2>2, <2>4, <3>1
    <3>2. CASE row.pw = Current(u).pw
      <4>1. rows[u][v].pw # rows[u][Len(rows[u])].pw BY <2>1, <2>2, <2>4, <3>2 DEF Current
      <4>2. v < Len(rows[u]) BY <1>2, <2>2, <4>1
      <4>3. PICK j \in DOMAIN changes'[u] : v < changes'[u][j].row /\ changes'[u][j].row <= Len(rows[u])
        BY <1>1, <1>2, <2>2, <4>1, <4>2
      <4>4. PICK k \in DOMAIN changes[u] : v < changes[u][k].row /\ changes[u][k].row <= Len(rows[u])
        BY <1>2, <2>2, <4>1, <4>2 DEF PasswordsChangeByChanges
      <4>5. k \in DOMAIN changes'[u] /\ changes'[u][k] = changes[u][k] BY ChangesGrow
      <4>6. changes[u][k].row \in Nat BY ChangeType
      <4>7. QED BY <1>2, <2>4, <4>4, <4>5, <4>6
    <3>3. QED BY <1>4, <3>1, <3>2
  <2>5. QED BY <1>2, <2>1, <2>3, <2>4
<1>5. QED BY <1>3, <1>4, VersionStep

(* What holds of a version holds after the step. *)
LEMMA VersionsStay ==
    ASSUME TypeOK, RequestsKnowTheRow, [Next]_vars, NEW u \in User, NEW v \in Nat, 0 < v, v <= Len(rows[u])
    PROVE  v <= Len(rows'[u]) /\ rows'[u][v] = rows[u][v]
<1>1. v \in 1..Len(rows[u]) BY CurrentType
<1>2. v \in 1..Len(rows'[u]) /\ rows'[u][v] = rows[u][v] BY <1>1, RowsGrow
<1>3. QED BY <1>2

(* Logins keep resting on the row. *)
LEMMA LoginStep ==
    TypeOK /\ RequestsKnowTheRow /\ LoginsRestOnTheRow /\ [Next]_vars => LoginsRestOnTheRow'
<1> SUFFICES ASSUME TypeOK, RequestsKnowTheRow, LoginsRestOnTheRow, [Next]_vars, NEW l \in logins'
             PROVE  /\ 0 < l.start /\ l.start <= l.snap /\ l.snap <= Len(rows'[l.user])
                    /\ rows'[l.user][l.snap].status = "active"
                    /\ rows'[l.user][l.snap].pw = l.offered
  BY DEF LoginsRestOnTheRow
<1>1. CASE l \in logins
  <2>1. l.user \in User /\ l.start \in Nat /\ l.snap \in Nat BY <1>1 DEF TypeOK
  <2>2. /\ 0 < l.start /\ l.start <= l.snap /\ l.snap <= Len(rows[l.user])
        /\ rows[l.user][l.snap].status = "active"
        /\ rows[l.user][l.snap].pw = l.offered
    BY <1>1 DEF LoginsRestOnTheRow
  <2>3. l.snap <= Len(rows'[l.user]) /\ rows'[l.user][l.snap] = rows[l.user][l.snap]
    BY <2>1, <2>2, VersionsStay
  <2>4. QED BY <2>2, <2>3
<1>2. ASSUME NEW r \in Request, StoreRefreshToken(r), l \notin logins
      PROVE  /\ 0 < l.start /\ l.start <= l.snap /\ l.snap <= Len(rows'[l.user])
             /\ rows'[l.user][l.snap].status = "active"
             /\ rows'[l.user][l.snap].pw = l.offered
  <2>1. pc[r] = "store" /\ rows' = rows
        /\ l = [id |-> req[r].id, user |-> req[r].user, offered |-> req[r].offered,
                start |-> req[r].start, snap |-> req[r].snap]
    BY <1>2 DEF StoreRefreshToken
  <2>2. Knows(r) BY <2>1 DEF Knows, RequestsKnowTheRow
  <2>3. QED BY <2>1, <2>2 DEF Knows, Snapshot, PasswordMatches
<1>3. ASSUME l \notin logins PROVE \E r \in Request : StoreRefreshToken(r)
  <2>1. ASSUME NEW s \in Request,
               \/ \E v \in User, p \in Password :
                    BeginLogin(s, v, p) \/ \E q \in Password : BeginChange(s, v, p, q)
               \/ LookUp(s) \/ Verify(s) \/ SignTokens(s) \/ CommitChange(s) \/ UpdateHash(s)
               \/ InsertEvent(s) \/ Fail(s)
        PROVE  logins' = logins
    BY <2>1 DEF BeginLogin, BeginChange, Arrive, LookUp, Verify, SignTokens, CommitChange, UpdateHash, InsertEvent,
       Fail, Database
  <2>2. ASSUME NEW v \in User, (\E n \in Name : UpdateProfile(v, n)) \/ (\E s \in Status : SetStatus(v, s))
        PROVE  logins' = logins
    BY <2>2 DEF UpdateProfile, SetStatus
  <2>3. CASE UNCHANGED vars BY <1>3, <2>3 DEF vars
  <2>4. QED BY <1>3, <2>1, <2>2, <2>3 DEF Next, Proceed
<1>4. QED BY <1>1, <1>2, <1>3

-----------------------------------------------------------------------------
(* Changes keep having proved a password of their time. *)
Proved(u, c) ==
    /\ 0 < c.start /\ c.start <= c.snap /\ c.snap < c.row /\ c.row <= Len(rows[u])
    /\ rows[u][c.snap].pw = c.offered
    /\ rows[u][c.row - 1].pw # c.offered =>
         \E j \in DOMAIN changes[u] : c.start < changes[u][j].row /\ changes[u][j].row < c.row

LEMMA ProvedStays ==
    ASSUME TypeOK, RequestsKnowTheRow, [Next]_vars, NEW u \in User,
           NEW c \in [row : Nat, offered : Password, start : Nat, snap : Nat], Proved(u, c)
    PROVE  Proved(u, c)'
<1>1. 0 < c.start /\ c.start <= c.snap /\ c.snap < c.row /\ c.row <= Len(rows[u])
      /\ c.start \in Nat /\ c.snap \in Nat /\ c.row \in Nat
  BY DEF Proved
<1>2. Len(rows[u]) \in Nat BY CurrentType
<1>3. rows'[u][c.snap] = rows[u][c.snap] BY <1>1, <1>2, VersionsStay
<1>4. c.row - 1 \in Nat /\ 0 < c.row - 1 /\ c.row - 1 <= Len(rows[u]) BY <1>1, <1>2
<1>5. rows'[u][c.row - 1] = rows[u][c.row - 1] BY <1>4, VersionsStay
<1>6. 0 < c.row BY <1>1
<1>7. c.row <= Len(rows'[u]) BY <1>1, <1>6, VersionsStay
<1>8. ASSUME rows'[u][c.row - 1].pw # c.offered
      PROVE  \E j \in DOMAIN changes'[u] : c.start < changes'[u][j].row /\ changes'[u][j].row < c.row
  <2>1. PICK j \in DOMAIN changes[u] : c.start < changes[u][j].row /\ changes[u][j].row < c.row
    BY <1>5, <1>8 DEF Proved
  <2>2. j \in DOMAIN changes'[u] /\ changes'[u][j] = changes[u][j] BY ChangesGrow
  <2>3. QED BY <2>1, <2>2
<1>9. rows'[u][c.snap].pw = c.offered BY <1>3 DEF Proved
<1>10. QED BY <1>1, <1>7, <1>8, <1>9 DEF Proved

LEMMA ChangeStep ==
    TypeOK /\ RequestsKnowTheRow /\ PasswordsChangeByChanges /\ ChangesProvePassword /\ [Next]_vars
      => ChangesProvePassword'
<1> SUFFICES ASSUME TypeOK, RequestsKnowTheRow, PasswordsChangeByChanges, ChangesProvePassword, [Next]_vars,
                    NEW u \in User, NEW i \in DOMAIN changes'[u]
             PROVE  Proved(u, changes[u][i])'
  BY DEF ChangesProvePassword, Proved
<1>1. ASSUME i \in DOMAIN changes[u], changes'[u][i] = changes[u][i] PROVE Proved(u, changes[u][i])'
  <2>1. PICK c \in [row : Nat, offered : Password, start : Nat, snap : Nat] : c = changes[u][i]
    BY <1>1, ChangeType
  <2>2. Proved(u, c) BY <1>1, <2>1 DEF ChangesProvePassword, Proved
  <2>3. Proved(u, c)' BY <2>2, ProvedStays
  <2>4. c = changes'[u][i] BY <1>1, <2>1
  <2>5. QED BY <2>3, <2>4 DEF Proved
<1>2. ASSUME NEW r \in Request, CommitChange(r), rowLock[req[r].user] = r, req[r].user = u, i = Len(changes[u]) + 1
      PROVE  Proved(u, changes[u][i])'
  <2> DEFINE start == req[r].start
             snap == req[r].snap
             n == Len(rows[u])
  <2>1. /\ Knows(r) /\ pc[r] = "commit" /\ Write(u, NewRow(r)) /\ NewRow(r) \in Row
        /\ changes'[u][i] = ChangeOf(r)
    BY <1>2, CommitWithLock
  <2>2. req[r] \in Req /\ start \in Nat /\ snap \in Nat BY <2>1 DEF TypeOK, Req
  <2>3. n \in Nat \ {0} BY CurrentType
  <2>4. 0 < start /\ start <= snap /\ snap <= n BY <1>2, <2>1 DEF Knows
  <2>5. rows[u][snap].pw = req[r].offered BY <1>2, <2>1 DEF Knows, PasswordMatches, Snapshot
  <2>6. Len(rows'[u]) = n + 1 /\ \A v \in 1..n : rows'[u][v] = rows[u][v] BY <2>1, WriteAppends
  <2>7. changes'[u][i] = [row |-> n + 1, offered |-> req[r].offered, start |-> start, snap |-> snap]
    BY <1>2, <2>1 DEF ChangeOf
  <2> HIDE DEF start, snap, n
  <2>8. rows'[u][snap] = rows[u][snap] /\ rows'[u][n] = rows[u][n] BY <2>2, <2>3, <2>4, <2>6
  <2>9. ASSUME rows'[u][n].pw # req[r].offered
        PROVE  \E j \in DOMAIN changes'[u] : start < changes'[u][j].row /\ changes'[u][j].row < n + 1
    <3>1. rows[u][snap].pw # rows[u][n].pw BY <2>5, <2>8, <2>9
    <3>2. snap < n BY <2>2, <2>3, <2>4, <3>1
    <3>3. snap \in 1..Len(rows[u]) /\ n \in 1..Len(rows[u]) BY <2>2, <2>3, <2>4 DEF n
    <3>4. PICK j \in DOMAIN changes[u] : snap < changes[u][j].row /\ changes[u][j].row <= n
      BY <3>1, <3>2, <3>3 DEF PasswordsChangeByChanges
    <3>5. j \in DOMAIN changes'[u] /\ changes'[u][j] = changes[u][j] BY ChangesGrow
    <3>6. changes[u][j].row \in Nat BY ChangeType
    <3>7. start < changes[u][j].row /\ changes[u][j].row < n + 1 BY <2>2, <2>3, <2>4, <3>4, <3>6
    <3>8. QED BY <3>5, <3>7
  <2>10. (n + 1) - 1 = n BY <2>3
  <2>11. 0 < start /\ start <= snap /\ snap < n + 1 /\ n + 1 <= Len(rows'[u]) BY <2>2, <2>3, <2>4, <2>6
  <2>12. rows'[u][snap].pw = req[r].offered BY <2>5, <2>8
  <2>13. QED BY <2>7, <2>9, <2>10, <2>11, <2>12 DEF Proved
<1>3. QED BY <1>1, <1>2, ChangesGrow

(* Changes and events keep step. *)
LEMMA EventStep ==
    TypeOK /\ RequestsKnowTheRow /\ LockedOrDeleted /\ EventPerChange /\ [Next]_vars => EventPerChange'
<1> SUFFICES ASSUME TypeOK, RequestsKnowTheRow, LockedOrDeleted, EventPerChange, [Next]_vars, NEW u \in User
             PROVE  /\ Len(changes'[u]) <= events'[u]
                    /\ Live(u)' => events'[u] = Len(changes'[u])
  BY DEF EventPerChange
<1>1. Len(changes[u]) <= events[u] /\ (Live(u) => events[u] = Len(changes[u])) BY DEF EventPerChange
<1>2. Len(changes[u]) \in Nat /\ events[u] \in Nat BY DEF TypeOK
<1>3. Live(u)' => Live(u) BY DeadStays
<1>4. CASE changes'[u] = changes[u] /\ events'[u] = events[u] BY <1>1, <1>3, <1>4
<1>5. ASSUME NEW r \in Request, CommitChange(r), rowLock[req[r].user] = r
      PROVE  /\ Len(changes'[u]) <= events'[u]
             /\ Live(u)' => events'[u] = Len(changes'[u])
  <2>1. CASE u = req[r].user
    <3>1. Len(changes'[u]) = Len(changes[u]) + 1 /\ events'[u] = events[u] + 1 BY <1>5, <2>1, CommitWithLock
    <3>2. QED BY <1>1, <1>2, <1>3, <3>1
  <2>2. CASE u # req[r].user
    <3>1. changes'[u] = changes[u] /\ events'[u] = events[u] BY <1>5, <2>2, CommitWithLock
    <3>2. QED BY <1>4, <3>1
  <2>3. QED BY <2>1, <2>2
<1>6. ASSUME NEW r \in Request, CommitChange(r), rowLock[req[r].user] # r
      PROVE  /\ Len(changes'[u]) <= events'[u]
             /\ Live(u)' => events'[u] = Len(changes'[u])
  <2>1. changes' = changes /\ pc[r] = "commit" BY <1>6, CommitWithoutLock
  <2>2. CASE u = req[r].user
    <3>1. events'[u] = events[u] + 1 BY <1>6, <2>2, CommitWithoutLock
    <3>2. ~ Live(u) BY <1>6, <2>1, <2>2 DEF LockedOrDeleted
    <3>3. Len(changes'[u]) <= events'[u] BY <1>1, <1>2, <2>1, <3>1
    <3>4. QED BY <1>3, <3>2, <3>3
  <2>3. CASE u # req[r].user
    <3>1. events'[u] = events[u] BY <1>6, <2>3, CommitWithoutLock
    <3>2. QED BY <1>4, <2>1, <3>1
  <2>4. QED BY <2>2, <2>3
<1>7. QED BY <1>4, <1>5, <1>6, HistoryStep

-----------------------------------------------------------------------------
(* Theorems. *)

(* The invariant holds at first: there are neither requests nor changes. *)
LEMMA InvInit == Init => CredentialsInv
<1> SUFFICES ASSUME Init PROVE CredentialsInv OBVIOUS
<1>1. TypeOK BY TypeInit
<1>2. RequestsKnowTheRow /\ LockedOrDeleted BY DEF Init, RequestsKnowTheRow, LockedOrDeleted
<1>3. LoginsRestOnTheRow BY DEF Init, LoginsRestOnTheRow
<1>4. \A u \in User : changes[u] = <<>> /\ events[u] = 0 /\ Len(rows[u]) = 1
  <2>1. ASSUME NEW u \in User PROVE Len(rows[u]) = 1
    <3>1. PICK row \in [pw : ValidPassword, status : {"pending", "active"}, name : ValidName] : rows[u] = <<row>>
      BY DEF Init
    <3>2. QED BY <3>1
  <2>2. QED BY <2>1 DEF Init
<1>5. ChangesProvePassword BY <1>4 DEF ChangesProvePassword
<1>6. EventPerChange BY <1>4 DEF EventPerChange
<1>7. PasswordsChangeByChanges BY <1>4 DEF PasswordsChangeByChanges
<1>8. QED BY <1>1, <1>2, <1>3, <1>5, <1>6, <1>7 DEF CredentialsInv

(* The inductive invariant: what requests found out about the rows they met
   stays true of the versions, and a transaction holds its row. *)
THEOREM CredentialsInvariance == Spec => []CredentialsInv
<1>1. Init => CredentialsInv BY InvInit
<1>2. CredentialsInv /\ [Next]_vars => CredentialsInv'
  BY TypeStep, KnowStep, LockStep, PasswordStep, LoginStep, ChangeStep, EventStep DEF CredentialsInv
<1>3. QED BY <1>1, <1>2, PTL DEF Spec

(* Every variable keeps its type, and a locked row is of a live user. *)
THEOREM TypeCorrect == Spec => []TypeOK
<1>1. CredentialsInv => TypeOK BY DEF CredentialsInv
<1>2. QED BY <1>1, CredentialsInvariance, PTL

(* A login rests on one version of the row that was current during it
   (login.rs:78, 90). *)
THEOREM LoginsAreSound == Spec => []LoginsRestOnTheRow
<1>1. CredentialsInv => LoginsRestOnTheRow BY DEF CredentialsInv
<1>2. QED BY <1>1, CredentialsInvariance, PTL

(* A change rests on a password that was current during it, and replaces
   another only if that came in the meantime (update_password.rs:99). *)
THEOREM ChangesAreSound == Spec => []ChangesProvePassword
<1>1. CredentialsInv => ChangesProvePassword BY DEF CredentialsInv
<1>2. QED BY <1>1, CredentialsInvariance, PTL

(* Each change has its event (update_password.rs:97). *)
THEOREM ChangesAreTold == Spec => []EventPerChange
<1>1. CredentialsInv => EventPerChange BY DEF CredentialsInv
<1>2. QED BY <1>1, CredentialsInvariance, PTL

(* Steps of different requests keep each other's columns. *)
THEOREM ColumnsAreKept == Spec => OneColumnAtATime
<1> DEFINE Columns(u) ==
      rows'[u] # rows[u] =>
        LET old == Current(u)  new == rows'[u][Len(rows'[u])] IN
        Cardinality({f \in {"pw", "status", "name"} : old[f] # new[f]}) <= 1
<1>1. ASSUME NEW old \in Row, NEW row, NEW g \in {"pw", "status", "name"}, NEW x,
             row = [old EXCEPT ![g] = x]
      PROVE  Cardinality({f \in {"pw", "status", "name"} : old[f] # row[f]}) <= 1
  <2> DEFINE F == {f \in {"pw", "status", "name"} : old[f] # row[f]}
  <2>1. F \subseteq {g} BY <1>1 DEF Row
  <2> HIDE DEF F
  <2>2. F = {} \/ F = {g} BY <2>1
  <2>3. Cardinality({}) = 0 /\ Cardinality({g}) = 1 BY FS_EmptySet, FS_Singleton
  <2>4. Cardinality(F) <= 1 BY <2>2, <2>3
  <2>5. QED BY <2>4 DEF F
<1>2. ASSUME TypeOK, RequestsKnowTheRow, [Next]_vars PROVE \A u \in User : Columns(u)
  <2> SUFFICES ASSUME NEW u \in User, rows'[u] # rows[u] PROVE Columns(u) OBVIOUS
  <2>1. PICK row \in Row : Written(u, row)
    <3>1. ASSUME NEW w \in User, NEW row \in Row, Written(w, row) PROVE w = u
      BY <1>2, <3>1, WriteAppends DEF Written
    <3>2. QED BY <1>2, <3>1, RowsStep
  <2>2. Len(rows[u]) \in Nat /\ Current(u) \in Row BY <1>2, CurrentType
  <2>3. rows'[u][Len(rows'[u])] = row BY <1>2, <2>1, <2>2, WriteAppends DEF Written
  <2>4. \E g \in {"pw", "status", "name"} : \E x : row = [Current(u) EXCEPT ![g] = x]
    <3>1. ASSUME NEW r \in Request, req[r].user = u, row = NewRow(r)
          PROVE  \E g \in {"pw", "status", "name"} : \E x : row = [Current(u) EXCEPT ![g] = x]
      <4>1. row = [Current(u) EXCEPT !["pw"] = req[r].new] BY <3>1 DEF NewRow
      <4>2. QED BY <4>1
    <3>2. QED BY <2>1, <3>1 DEF Written
  <2>5. PICK g \in {"pw", "status", "name"} : \E x : row = [Current(u) EXCEPT ![g] = x] BY <2>4
  <2>6. PICK x : row = [Current(u) EXCEPT ![g] = x] BY <2>5
  <2>7. Cardinality({f \in {"pw", "status", "name"} : Current(u)[f] # row[f]}) <= 1
    <3>1. PICK old \in Row : old = Current(u) BY <2>2
    <3>2. row = [old EXCEPT ![g] = x] BY <2>6, <3>1
    <3>3. QED BY <1>1, <3>1, <3>2
  <2>8. QED BY <2>3, <2>7
<1>3. CredentialsInv /\ [Next]_vars => [\A u \in User : Columns(u)]_vars
  BY <1>2 DEF CredentialsInv
<1>4. QED BY <1>3, CredentialsInvariance, PTL DEF Spec, OneColumnAtATime
=============================================================================
