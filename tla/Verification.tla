---------------------------- MODULE Verification ----------------------------
(***************************************************************************)
(* Registration and e-mail verification in the identity service: sign_up,  *)
(* resend_verification and verify_email as concurrent requests over the    *)
(* users and email_verification_tokens tables, under READ COMMITTED.       *)
(*                                                                         *)
(* A statement is a step; a transaction's writes show at its commit, and   *)
(* the rows it updated are locked until then.  A user stands for one       *)
(* (username, email) pair; a token for the event mailed with it, which is  *)
(* inserted by the same transaction.                                       *)
(***************************************************************************)
EXTENDS Integers, FiniteSets

CONSTANTS
    User,               \* registrations
    Token,              \* random verification tokens
    Client,             \* requests in progress at one time
    MaxTokensPerHour,   \* MAX_TOKENS_PER_HOUR
    Hour,               \* the window of the rate limit, in ticks of the clock
    Lifetime,           \* TOKEN_EXPIRES_MINUTES, in ticks
    MaxTime,            \* bound on the clock
    None                \* no user, no token, no holder

ASSUME VerificationAssumption ==
    /\ IsFiniteSet(Client) /\ Client # {}
    /\ IsFiniteSet(Token)
    /\ MaxTokensPerHour \in Nat \ {0}
    /\ Hour \in Nat \ {0} /\ Lifetime \in Nat /\ MaxTime \in Nat
    /\ None \notin User \cup Token \cup Client \cup {"pending", "active"}

VARIABLES
    status,     \* users.status: None before sign-up, then pending or active
    owner,      \* email_verification_tokens.user_id, None for no row
    created,    \* its created_at
    expires,    \* its expires_at
    consumed,   \* tokens whose consumed_at is set
    tokenLock,  \* the request that updated the token row and has not committed
    userLock,   \* the same for the users row
    pc,         \* where each request is
    target,     \* the user or the token it is about
    deadline,   \* the expires_at it computed
    now,        \* the clock
    verified    \* history: how often each token was answered with success

rows  == <<status, owner, created, expires, consumed>>
locks == <<tokenLock, userLock>>
local == <<pc, target, deadline>>
vars  == <<rows, locks, local, now, verified>>

(* resend: looked (user is pending), counted (below the limit).
   verify: found (a live token), consumed, marked. *)
PC == {"idle", "looked", "counted", "found", "consumed", "marked"}
Resending == {"looked", "counted"}
Verifying == {"found", "consumed", "marked"}

TypeOK ==
    /\ status \in [User -> {None, "pending", "active"}]
    /\ owner \in [Token -> User \cup {None}]
    /\ created \in [Token -> Nat]
    /\ expires \in [Token -> Nat]
    /\ consumed \subseteq Token
    /\ tokenLock \in [Token -> Client \cup {None}]
    /\ userLock \in [User -> Client \cup {None}]
    /\ pc \in [Client -> PC]
    /\ target \in [Client -> User \cup Token \cup {None}]
    /\ \A c \in Client : /\ pc[c] \in Resending => target[c] \in User
                         /\ pc[c] \in Verifying => target[c] \in Token
    /\ deadline \in [Client -> Nat]
    /\ now \in 0..MaxTime
    /\ verified \in [Token -> Nat]

Init ==
    /\ status = [u \in User |-> None]
    /\ owner = [t \in Token |-> None]
    /\ created = [t \in Token |-> 0]
    /\ expires = [t \in Token |-> 0]
    /\ consumed = {}
    /\ tokenLock = [t \in Token |-> None]
    /\ userLock = [u \in User |-> None]
    /\ pc = [c \in Client |-> "idle"]
    /\ target = [c \in Client |-> None]
    /\ deadline = [c \in Client |-> 0]
    /\ now = 0
    /\ verified = [t \in Token |-> 0]

Goto(c, p, x) ==
    /\ pc' = [pc EXCEPT ![c] = p]
    /\ target' = [target EXCEPT ![c] = x]

(* insert_token: a fresh random token, created_at = NOW(). *)
InsertToken(t, u, expiry) ==
    /\ owner[t] = None
    /\ owner' = [owner EXCEPT ![t] = u]
    /\ created' = [created EXCEPT ![t] = now]
    /\ expires' = [expires EXCEPT ![t] = expiry]

-----------------------------------------------------------------------------
(* sign_up reads nothing before its one transaction, which inserts user, token
   and event; a clash on a unique index rolls all of it back and is not a step
   here.  The expiry was computed before the pool gave a connection, up to
   `late` ticks ago. *)
SignUp(u, t, late) ==
    /\ status[u] = None
    /\ status' = [status EXCEPT ![u] = "pending"]
    /\ late \in 0..now
    /\ InsertToken(t, u, now - late + Lifetime)
    /\ UNCHANGED <<consumed, locks, local, now, verified>>

-----------------------------------------------------------------------------
(* resend_verification. *)

LookUpAnyUser(c, u) == \* mutant: no comparison with UserStatus::Pending
    /\ pc[c] = "idle"
    /\ status[u] # None
    /\ Goto(c, "looked", u)
    /\ UNCHANGED <<rows, locks, deadline, now, verified>>

(* Anything but a pending user is answered with success and no effect. *)
LookUpUser(c, u) ==
    /\ pc[c] = "idle"
    /\ status[u] = "pending"
    /\ Goto(c, "looked", u)
    /\ UNCHANGED <<rows, locks, deadline, now, verified>>

Recent(u) == {t \in Token : owner[t] = u /\ created[t] > now - Hour}

BelowOrAtLimit(u) == Cardinality(Recent(u)) <= MaxTokensPerHour \* mutant: > for >=
BelowLimit(u) == Cardinality(Recent(u)) < MaxTokensPerHour

(* count_recent_tokens, outside any transaction; then the expiry. *)
CountTokens(c) ==
    /\ pc[c] = "looked"
    /\ IF BelowLimit(target[c])
       THEN /\ Goto(c, "counted", target[c])
            /\ deadline' = [deadline EXCEPT ![c] = now + Lifetime]
       ELSE Goto(c, "idle", None) /\ UNCHANGED deadline \* RateLimited
    /\ UNCHANGED <<rows, locks, now, verified>>

InsertTokenAndEvent(c, t) ==
    /\ pc[c] = "counted"
    /\ InsertToken(t, target[c], deadline[c])
    /\ Goto(c, "idle", None)
    /\ deadline' = [deadline EXCEPT ![c] = 0]
    /\ UNCHANGED <<status, consumed, locks, now, verified>>

-----------------------------------------------------------------------------
(* verify_email, one transaction. *)

(* get_token_by_hash and the expiry check; the other answers are InvalidToken
   and change nothing. *)
FindToken(c, t) ==
    /\ pc[c] = "idle"
    /\ owner[t] # None
    /\ t \notin consumed
    /\ expires[t] >= now
    /\ Goto(c, "found", t)
    /\ UNCHANGED <<rows, locks, deadline, now, verified>>

Release(c) ==
    /\ tokenLock' = [t \in Token |-> IF tokenLock[t] = c THEN None ELSE tokenLock[t]]
    /\ userLock' = [u \in User |-> IF userLock[u] = c THEN None ELSE userLock[u]]

(* consume_token: waits for the row, and updates it only if it is still not
   consumed; 0 rows is AlreadyConsumed and rolls back. *)
ConsumeAnyway(c) == \* mutant: no AND consumed_at IS NULL
    LET t == target[c]
    IN  /\ pc[c] = "found"
        /\ tokenLock[t] = None
        /\ tokenLock' = [tokenLock EXCEPT ![t] = c]
        /\ Goto(c, "consumed", t)
        /\ UNCHANGED <<rows, userLock, deadline, now, verified>>
ConsumeAtOnce(c) == \* mutant: the update is not part of the transaction
    LET t == target[c]
    IN  /\ pc[c] = "found"
        /\ t \notin consumed
        /\ consumed' = consumed \cup {t}
        /\ Goto(c, "consumed", t)
        /\ UNCHANGED <<status, owner, created, expires, locks, deadline, now, verified>>
ConsumeToken(c) ==
    LET t == target[c]
    IN  /\ pc[c] = "found"
        /\ tokenLock[t] = None
        /\ IF t \in consumed
           THEN Goto(c, "idle", None) /\ UNCHANGED tokenLock
           ELSE Goto(c, "consumed", t) /\ tokenLock' = [tokenLock EXCEPT ![t] = c]
        /\ UNCHANGED <<rows, userLock, deadline, now, verified>>

(* mark_email_verified: waits for the user row; the user exists, and nothing
   in the service deletes one.  The UPDATE sets 'active' whatever the status
   was (verify_email.rs:123); pending and active are the only ones here, as
   nothing in the repository makes a user suspended or locked. *)
MarkEmailVerified(c) ==
    LET u == owner[target[c]]
    IN  /\ pc[c] = "consumed"
        /\ userLock[u] = None
        /\ userLock' = [userLock EXCEPT ![u] = c]
        /\ Goto(c, "marked", target[c])
        /\ UNCHANGED <<rows, tokenLock, deadline, now, verified>>

CommitKeepingLocks(c) == \* mutant: the connection goes back inside its transaction
    LET t == target[c]
    IN  /\ pc[c] = "marked"
        /\ consumed' = consumed \cup {t}
        /\ status' = [status EXCEPT ![owner[t]] = "active"]
        /\ verified' = [verified EXCEPT ![t] = @ + 1]
        /\ Goto(c, "idle", None)
        /\ UNCHANGED <<owner, created, expires, locks, deadline, now>>
CommitVerification(c) ==
    LET t == target[c]
    IN  /\ pc[c] = "marked"
        /\ consumed' = consumed \cup {t}
        /\ status' = [status EXCEPT ![owner[t]] = "active"]
        /\ verified' = [verified EXCEPT ![t] = @ + 1]
        /\ Goto(c, "idle", None)
        /\ Release(c)
        /\ UNCHANGED <<owner, created, expires, deadline, now>>

-----------------------------------------------------------------------------
(* The request fails: an error of the database, or the end of the process or
   of the connection.  Its transaction rolls back. *)
Fail(c) ==
    /\ pc[c] # "idle"
    /\ Goto(c, "idle", None)
    /\ Release(c)
    /\ deadline' = [deadline EXCEPT ![c] = 0]
    /\ UNCHANGED <<rows, now, verified>>

Tick ==
    /\ now < MaxTime
    /\ now' = now + 1
    /\ UNCHANGED <<rows, locks, local, verified>>

Resend(c) ==
    \/ CountTokens(c)
    \/ \E t \in Token : InsertTokenAndEvent(c, t)
Verify(c) == ConsumeToken(c) \/ MarkEmailVerified(c) \/ CommitVerification(c)

Next ==
    \/ \E u \in User, t \in Token, late \in 0..MaxTime : SignUp(u, t, late)
    \/ \E c \in Client :
        \/ \E u \in User : LookUpUser(c, u)
        \/ \E t \in Token : FindToken(c, t)
        \/ Resend(c) \/ Verify(c) \/ Fail(c)
    \/ Tick

Spec == Init /\ [][Next]_vars

(* A statement that can run does; PostgreSQL grants a freed row lock to one
   of those waiting, and to each of them in turn. *)
Fairness == \A c \in Client : SF_vars(Verify(c))

FairSpec == Spec /\ Fairness
-----------------------------------------------------------------------------
(* Properties. *)

(* A token verifies at most once, even when requests with the same link race
   (a double click): the second is answered AlreadyConsumed or InvalidToken. *)
VerifiedAtMostOnce == \A t \in Token : verified[t] <= 1

(* A user is active exactly when one of their tokens is consumed: a request
   that dies after consume_token neither burns the token nor activates. *)
ActiveIffTokenConsumed ==
    \A u \in User : status[u] = "active" <=> \E t \in consumed : owner[t] = u

(* The strengthening of the two: a request between consume_token and
   its commit holds the lock of a token nobody has consumed, a token counts as
   verified once it is consumed and never again, and it belongs to a user. *)
TokensBelongToUsers ==
    /\ \A t \in Token : owner[t] # None => status[owner[t]] # None
    /\ \A t \in consumed : owner[t] # None
    /\ \A c \in Client : /\ pc[c] \in Resending => status[target[c]] # None
                         /\ pc[c] \in Verifying => owner[target[c]] # None

LockedUntilCommit ==
    \A c \in Client :
        pc[c] \in {"consumed", "marked"} =>
            tokenLock[target[c]] = c /\ target[c] \notin consumed

VerifiedIffConsumed ==
    \A t \in Token : verified[t] = IF t \in consumed THEN 1 ELSE 0

(* MAX_TOKENS_PER_HOUR, "Maximum verification emails per user per hour"
   (resend_verification.rs:12) and "Rate limit: max 3 tokens per hour" (63). *)
RateLimit == \A u \in User : Cardinality(Recent(u)) <= MaxTokensPerHour

(* What the check before the transaction does give: each request that may run
   at the same time as another can exceed the limit by one. *)
RateLimitUpToRaces ==
    \A u \in User : Cardinality(Recent(u)) <= MaxTokensPerHour + Cardinality(Client) - 1

(* Its strengthening: a request that has passed the check counts already. *)
Counted(u) == {c \in Client : pc[c] = "counted" /\ target[c] = u}

LimitWithCounted ==
    \A u \in User :
        Cardinality(Recent(u)) + Cardinality(Counted(u))
            <= MaxTokensPerHour + Cardinality(Client) - 1

(* resend_verification looks the user up, counts and inserts in three steps
   (resend_verification.rs:59-98), and verify_email may commit between them.
   Once it has, only the requests that saw the user pending can still mail a
   token: tokens and such requests together never become more. *)
TokensOf(u) == {t \in Token : owner[t] = u}
ResendsOf(u) == {c \in Client : pc[c] \in Resending /\ target[c] = u}

NoMailsOnceActive ==
    [][\A u \in User : status[u] = "active" =>
         Cardinality(TokensOf(u))' + Cardinality(ResendsOf(u))'
             <= Cardinality(TokensOf(u)) + Cardinality(ResendsOf(u))]_vars

VerificationInv ==
    /\ TypeOK
    /\ TokensBelongToUsers
    /\ LockedUntilCommit
    /\ VerifiedIffConsumed
    /\ ActiveIffTokenConsumed
    /\ LimitWithCounted

(* A request waits for another when that has the row of its next UPDATE. *)
WaitsFor(c, d) ==
    \/ pc[c] = "found" /\ tokenLock[target[c]] = d
    \/ pc[c] = "consumed" /\ userLock[owner[target[c]]] = d

StatementsLeft(c) ==
    CASE pc[c] = "marked" -> 1
      [] pc[c] = "consumed" -> 2
      [] pc[c] = "found" -> 3
      [] OTHER -> 4

(* Whoever is waited for is nearer to its commit than who waits
   (verify_email.rs:61-62, the token first and the user second): no
   circle of verifications, and none that waits for a request which is over. *)
NoCircularWait ==
    \A c, d \in Client : WaitsFor(c, d) => StatementsLeft(d) < StatementsLeft(c)

(* Its strengthening: a row lock belongs to a transaction under way, which is
   past the UPDATE of that row. *)
LocksOfTransactions ==
    /\ \A t \in Token, c \in Client :
           tokenLock[t] = c => pc[c] \in {"consumed", "marked"} /\ target[c] = t
    /\ \A u \in User, c \in Client :
           userLock[u] = c => pc[c] = "marked" /\ owner[target[c]] = u

(* Row locks are taken token first, user second, so verifications never wait
   for each other in a circle: every one ends, and leaves no lock behind. *)
VerificationsEnd ==
    \A c \in Client :
        pc[c] \in Verifying ~>
            /\ pc[c] = "idle"
            /\ \A t \in Token : tokenLock[t] # c
            /\ \A u \in User : userLock[u] # c
=============================================================================
