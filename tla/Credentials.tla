---------------------------- MODULE Credentials ----------------------------
(***************************************************************************)
(* Logins, password changes and profile updates of the identity service:   *)
(* services/{login,update_password,update_profile,mod,validation}.rs.      *)
(*                                                                         *)
(* rows[u] is the history of a user's row, its last element the row as     *)
(* committed.  A request reads the row, gives its connection back, works   *)
(* with passwords on another thread and writes later by id alone; each     *)
(* await is a step boundary.  A salted hash stands for its password.       *)
(***************************************************************************)
EXTENDS Naturals, Sequences, FiniteSets

CONSTANTS
    User, Password, Name,
    ValidPassword,   \* what validate_password lets through
    ValidName,       \* what validate_username lets through
    Lower,           \* [Name -> Name], LOWER() of the unique index
    Request,         \* requests in progress at the same time
    MaxRequests,     \* bound on requests
    MaxWrites,       \* bound on other writes to the rows
    MaxFaults,       \* bound on requests that fail
    None

ASSUME CredentialsAssumption ==
    /\ ValidPassword \subseteq Password /\ ValidName \subseteq Name
    /\ Lower \in [Name -> Name]
    /\ MaxRequests \in Nat /\ MaxWrites \in Nat /\ MaxFaults \in Nat
    /\ None \notin Request

VARIABLES
    rows,       \* versions of each user's row
    rowLock,    \* the request whose open transaction updated the row
    events,     \* PasswordChanged rows of the outbox, by user
    logins,     \* refresh_tokens, with how each came about
    changes,    \* history: how each committed password change came about
    pc,         \* where each request is
    req,        \* what it carries, and the row versions it met
    requests,        \* requests so far
    writes,          \* other writes so far
    faults           \* failed requests so far

vars == <<rows, rowLock, events, logins, changes, pc, req, requests, writes, faults>>

(* suspended stands for locked as well: to login every status but active is
   AccountNotActive (login.rs:93).  deleted stands for a row with deleted_at,
   whatever its status. *)
Status == {"pending", "active", "suspended", "deleted"}
Row == [pw : Password, status : Status, name : Name]
PC == {"idle", "lookup", "verify", "sign", "store", "update", "event", "commit"}

(* start: the version of the row when the request arrived; snap: the version
   it read. *)
Req == [id : Nat, user : User, offered : Password, new : Password \cup {None}, start : Nat, snap : Nat]

Current(u) == rows[u][Len(rows[u])]
Live(u)    == Current(u).status # "deleted"

TypeOK ==
    /\ rows \in [User -> Seq(Row)]
    /\ \A u \in User : Len(rows[u]) > 0
    /\ rowLock \in [User -> Request \cup {None}]
    /\ events \in [User -> Nat]
    /\ logins \in SUBSET [id : Nat, user : User, offered : Password, start : Nat, snap : Nat]
    /\ changes \in [User -> Seq([row : Nat, offered : Password, start : Nat, snap : Nat])]
    /\ pc \in [Request -> PC]
    /\ req \in [Request -> Req \cup {None}]
    /\ \A r \in Request : pc[r] # "idle" => req[r] \in Req
    /\ \A u \in User : rowLock[u] # None =>
         pc[rowLock[u]] \in {"event", "commit"} /\ req[rowLock[u]].user = u /\ Live(u)
    /\ requests \in 0..MaxRequests
    /\ writes \in 0..MaxWrites
    /\ faults \in 0..MaxFaults

(* idx_users_username: LOWER(username) is unique among live rows. *)
NameFree(u, n) == \A v \in User \ {u} : Live(v) => Lower[Current(v).name] # Lower[n]

Init ==
    /\ rows \in [User -> {<<row>> : row \in [pw : ValidPassword, status : {"pending", "active"}, name : ValidName]}]
    /\ \A u \in User : NameFree(u, Current(u).name)
    /\ rowLock = [u \in User |-> None]
    /\ events = [u \in User |-> 0]
    /\ logins = {}
    /\ changes = [u \in User |-> <<>>]
    /\ pc = [r \in Request |-> "idle"]
    /\ req = [r \in Request |-> None]
    /\ requests = 0
    /\ writes = 0
    /\ faults = 0

Goto(r, p) == pc' = [pc EXCEPT ![r] = p]

(* The request answers and is forgotten. *)
Reply(r) == Goto(r, "idle") /\ req' = [req EXCEPT ![r] = None]

Write(u, row) == rows' = [rows EXCEPT ![u] = Append(@, row)]
Database == <<rows, rowLock, events, logins, changes>>
bounds == <<requests, writes, faults>>

-----------------------------------------------------------------------------
(* Requests arrive. *)

Arrive(r, u, offered, new) ==
    /\ pc[r] = "idle" /\ requests < MaxRequests
    /\ requests' = requests + 1
    /\ req' = [req EXCEPT ![r] = [id |-> requests, user |-> u, offered |-> offered, new |-> new,
                                  start |-> Len(rows[u]), snap |-> 0]]
    /\ Goto(r, "lookup")
    /\ UNCHANGED <<Database, writes, faults>>

(* login: the e-mail address names the user. *)
BeginLogin(r, u, p) == Arrive(r, u, p, None)

(* update_password: authenticated by an access token, which a login gave;
   validate_password looks at the new one first. *)
BeginChange(r, u, p, q) ==
    /\ q \in ValidPassword
    /\ \E l \in logins : l.user = u
    /\ Arrive(r, u, p, q)

IsChange(r) == req[r].new # None

-----------------------------------------------------------------------------
(* The steps login and update_password share. *)

(* get_user_by_email, get_user_by_id: live rows only.  The connection is
   dropped afterwards. *)
LookUp(r) ==
    /\ pc[r] = "lookup"
    /\ IF Live(req[r].user)
       THEN /\ req' = [req EXCEPT ![r].snap = Len(rows[req[r].user])]
            /\ Goto(r, "verify")
       ELSE Reply(r)
    /\ UNCHANGED <<Database, bounds>>

(* The row the request has read. *)
Snapshot(r) == rows[req[r].user][req[r].snap]

(* Mutant: the offered password is compared with the row as it is now. *)
PasswordMatchesNow(r) == Current(req[r].user).pw = req[r].offered

(* verify_password on a blocking thread, against the hash that was read. *)
PasswordMatches(r) == Snapshot(r).pw = req[r].offered

(* Mutant: update_password trusts the access token alone. *)
VerifyLogins(r) ==
    /\ pc[r] = "verify"
    /\ IF IsChange(r) THEN Goto(r, "update") /\ UNCHANGED req
       ELSE IF PasswordMatches(r) /\ Snapshot(r).status = "active"
            THEN Goto(r, "sign") /\ UNCHANGED req
       ELSE Reply(r)
    /\ UNCHANGED <<Database, bounds>>

(* InvalidCredentials, InvalidCurrentPassword; login then looks at the status
   it read, update_password hashes the new password. *)
Verify(r) ==
    /\ pc[r] = "verify"
    /\ IF ~ PasswordMatches(r) THEN Reply(r)
       ELSE IF IsChange(r) THEN Goto(r, "update") /\ UNCHANGED req
       ELSE IF Snapshot(r).status = "active" THEN Goto(r, "sign") /\ UNCHANGED req
       ELSE Reply(r)
    /\ UNCHANGED <<Database, bounds>>

-----------------------------------------------------------------------------
(* login. *)

(* get_active_signing_key; the access and the ID token are signed. *)
SignTokens(r) ==
    /\ pc[r] = "sign"
    /\ Goto(r, "store")
    /\ UNCHANGED <<Database, req, bounds>>

(* insert_refresh_token, and the answer. *)
StoreRefreshToken(r) ==
    /\ pc[r] = "store"
    /\ logins' = logins \cup {[id |-> req[r].id, user |-> req[r].user,
                               offered |-> req[r].offered,
                               start |-> req[r].start, snap |-> req[r].snap]}
    /\ Reply(r)
    /\ UNCHANGED <<rows, rowLock, events, changes, bounds>>

-----------------------------------------------------------------------------
(* update_password: one transaction. *)

(* UPDATE users ... WHERE id = $1: waits for the row lock, and does not look
   at the hash the request verified; no row is found of a deleted user. *)
UpdateHash(r) ==
    /\ pc[r] = "update" /\ rowLock[req[r].user] = None
    /\ rowLock' = IF Live(req[r].user) THEN [rowLock EXCEPT ![req[r].user] = r] ELSE rowLock
    /\ Goto(r, "event")
    /\ UNCHANGED <<rows, events, logins, changes, req, bounds>>

(* Mutant: the event is inserted outside of the transaction. *)
InsertEventAtOnce(r) ==
    /\ pc[r] = "event"
    /\ events' = [events EXCEPT ![req[r].user] = @ + 1]
    /\ Goto(r, "commit")
    /\ UNCHANGED <<rows, rowLock, logins, changes, req, bounds>>

(* Mutant: an UPDATE that found no row is tried again. *)
RetryUpdate(r) ==
    /\ pc[r] = "event"
    /\ Goto(r, IF rowLock[req[r].user] = r THEN "commit" ELSE "update")
    /\ UNCHANGED <<Database, req, bounds>>

InsertEvent(r) ==
    /\ pc[r] = "event"
    /\ Goto(r, "commit")
    /\ UNCHANGED <<Database, req, bounds>>

(* The end of a transaction frees its lock. *)
Release(r) == rowLock' = [u \in User |-> IF rowLock[u] = r THEN None ELSE rowLock[u]]

(* Mutant: the whole row is written back as it was read. *)
NewRowFromSnapshot(r) == [Snapshot(r) EXCEPT !.pw = req[r].new]

(* The row as the transaction leaves it: one column is written. *)
NewRow(r) == [Current(req[r].user) EXCEPT !.pw = req[r].new]

(* The row shows its new hash and the outbox its event; where no row was
   found the event stands alone. *)
CommitChange(r) ==
    LET u == req[r].user IN
    /\ pc[r] = "commit"
    /\ events' = [events EXCEPT ![u] = @ + 1]
    /\ Release(r)
    /\ IF rowLock[u] = r
       THEN /\ Write(u, NewRow(r))
            /\ changes' = [changes EXCEPT ![u] = Append(@,
                 [row |-> Len(rows[u]) + 1, offered |-> req[r].offered,
                  start |-> req[r].start, snap |-> req[r].snap])]
       ELSE UNCHANGED <<rows, changes>>
    /\ Reply(r)
    /\ UNCHANGED <<logins, bounds>>

(* A request fails or is dropped at any of its awaits; its transaction is
   rolled back. *)
Fail(r) ==
    /\ pc[r] # "idle" /\ faults < MaxFaults
    /\ faults' = faults + 1
    /\ Release(r)
    /\ Reply(r)
    /\ UNCHANGED <<rows, events, logins, changes, requests, writes>>

-----------------------------------------------------------------------------
(* Single statements on the row. *)

CanWrite(u) == rowLock[u] = None /\ Live(u) /\ writes < MaxWrites /\ writes' = writes + 1

(* update_profile: authenticated; the other columns keep their values by
   COALESCE; a clash on the index is answered with UsernameTaken. *)
UpdateProfile(u, n) ==
    /\ n \in ValidName /\ \E l \in logins : l.user = u
    /\ CanWrite(u) /\ NameFree(u, n) /\ n # Current(u).name
    /\ Write(u, [Current(u) EXCEPT !.name = n])
    /\ UNCHANGED <<rowLock, events, logins, changes, pc, req, requests, faults>>

(* verify_email activates a user (module Verification); an administrator
   suspends, restores and deletes them. *)
SetStatus(u, s) ==
    /\ CanWrite(u) /\ s # Current(u).status /\ s # "pending"
    /\ Write(u, [Current(u) EXCEPT !.status = s])
    /\ UNCHANGED <<rowLock, events, logins, changes, pc, req, requests, faults>>

-----------------------------------------------------------------------------
Proceed(r) ==
    \/ LookUp(r) \/ Verify(r) \/ SignTokens(r) \/ StoreRefreshToken(r)
    \/ UpdateHash(r) \/ InsertEvent(r) \/ CommitChange(r)

Next ==
    \/ \E r \in Request :
         \/ \E u \in User, p \in Password :
              BeginLogin(r, u, p) \/ \E q \in Password : BeginChange(r, u, p, q)
         \/ Proceed(r) \/ Fail(r)
    \/ \E u \in User : (\E n \in Name : UpdateProfile(u, n)) \/ \E s \in Status : SetStatus(u, s)

Spec == Init /\ [][Next]_vars

(* A request that has begun goes on; PostgreSQL grants a free row lock to one
   that keeps asking. *)
Fairness == \A r \in Request : WF_vars(Proceed(r)) /\ SF_vars(UpdateHash(r))

FairSpec == Spec /\ Fairness

-----------------------------------------------------------------------------
(* Properties. *)

(* A login that succeeds rests on one version of the row, current at some
   moment of the request, that was active and had the offered password
   (login.rs:78, 90): not on a password or a status that was replaced before
   the request arrived, nor on parts of two versions. *)
LoginsRestOnTheRow ==
    \A l \in logins :
        /\ 0 < l.start /\ l.start <= l.snap /\ l.snap <= Len(rows[l.user])
        /\ rows[l.user][l.snap].status = "active"
        /\ rows[l.user][l.snap].pw = l.offered

(* A change proved a password that was current during the request.  It is not
   always the one it replaces (update_password.rs:99), but then the other
   change was committed while this request was in progress. *)
ChangesProvePassword ==
    \A u \in User : \A i \in DOMAIN changes[u] :
        LET c == changes[u][i] IN
        /\ 0 < c.start /\ c.start <= c.snap /\ c.snap < c.row /\ c.row <= Len(rows[u])
        /\ rows[u][c.snap].pw = c.offered
        /\ rows[u][c.row - 1].pw # c.offered =>
             \E j \in DOMAIN changes[u] : c.start < changes[u][j].row /\ changes[u][j].row < c.row

(* The mail about a changed password and the change are one (update_password.rs:97):
   each change has its event, and only a deleted user has one without. *)
EventPerChange ==
    \A u \in User :
        /\ Len(changes[u]) <= events[u]
        /\ Live(u) => events[u] = Len(changes[u])

(* Concurrent updates of a row keep each other's columns: a new version
   differs from the last in one column. *)
OneColumnAtATime ==
    [][\A u \in User : rows'[u] # rows[u] =>
         LET old == Current(u)  new == rows'[u][Len(rows'[u])] IN
         Cardinality({f \in {"pw", "status", "name"} : old[f] # new[f]}) <= 1]_vars

(* Requests end: none waits for ever for the lock of another. *)
RequestsEnd == \A r \in Request : (pc[r] # "idle") ~> (pc[r] = "idle")

-----------------------------------------------------------------------------
(* The inductive invariant of the proofs. *)

(* What a request has found out about the versions of the row it met. *)
RequestsKnowTheRow ==
    \A r \in Request : pc[r] # "idle" =>
        LET u == req[r].user IN
        /\ 0 < req[r].start /\ req[r].start <= Len(rows[u])
        /\ pc[r] # "lookup" => req[r].start <= req[r].snap /\ req[r].snap <= Len(rows[u])
        /\ pc[r] \notin {"lookup", "verify"} => PasswordMatches(r)
        /\ pc[r] \in {"sign", "store"} => Snapshot(r).status = "active"
        /\ pc[r] \in {"update", "event", "commit"} => IsChange(r)

(* A transaction holds its row, or the row was deleted before it. *)
LockedOrDeleted ==
    \A r \in Request : pc[r] \in {"event", "commit"} =>
        rowLock[req[r].user] = r \/ ~ Live(req[r].user)

(* Between two versions with different passwords lies a change. *)
PasswordsChangeByChanges ==
    \A u \in User : \A v \in 1..Len(rows[u]), w \in 1..Len(rows[u]) :
        v < w /\ rows[u][v].pw # rows[u][w].pw =>
            \E j \in DOMAIN changes[u] : v < changes[u][j].row /\ changes[u][j].row <= w

CredentialsInv ==
    /\ TypeOK
    /\ RequestsKnowTheRow
    /\ LockedOrDeleted
    /\ PasswordsChangeByChanges
    /\ LoginsRestOnTheRow
    /\ ChangesProvePassword
    /\ EventPerChange
=============================================================================
