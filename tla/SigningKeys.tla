---------------------------- MODULE SigningKeys ----------------------------
(***************************************************************************)
(* The start of the identity service's replicas and the keys their tokens  *)
(* are signed and verified with: main.rs, db.rs, services/{mod,get_jwks,   *)
(* auth,login}.rs, crypto/{jwk,jwt,kek,encryption}.rs.                     *)
(*                                                                         *)
(* log is the sequence of states of the signing_keys table, the last one   *)
(* the writer's; the read replica has applied some of them.  A key is its  *)
(* position in the table (kid, created_at).                                *)
(***************************************************************************)
EXTENDS Integers, Sequences, FiniteSets

CONSTANTS
    Replica,
    KeyEncryptionKey,
    Kek,            \* [Replica -> KeyEncryptionKey], what load_kek finds
    OnStandby,      \* replicas configured with db_read
    Skew,           \* [Replica -> Nat], how far each clock is ahead
    Life, Leeway,   \* of an access token
    Migrations,     \* how many migrations there are
    MaxTime,        \* bound on the clock
    MaxTokens,      \* bound on tokens
    MaxChanges,     \* bound on changes by an operator
    MaxStops,       \* bound on processes that end
    None

(* Clocks agree up to the leeway. *)
ASSUME KeysAssumption ==
    /\ Kek \in [Replica -> KeyEncryptionKey] /\ OnStandby \subseteq Replica
    /\ Skew \in [Replica -> Nat] /\ Life \in Nat /\ Leeway \in Nat
    /\ \A g \in Replica, h \in Replica : Skew[g] <= Skew[h] + Leeway
    /\ Migrations \in Nat \ {0}
    /\ MaxTime \in Nat /\ MaxTokens \in Nat /\ MaxChanges \in Nat /\ MaxStops \in Nat

VARIABLES
    schema,     \* migrations applied
    log,        \* states of the table of keys
    applied,    \* the state the read replica is in
    replica,    \* where each process is
    plan,       \* the schema its migration runner found
    tokens,     \* access tokens issued
    verdict,    \* the last authentication
    now,        \* the clock
    changes,    \* changes by an operator so far
    stops       \* processes that ended so far

vars == <<schema, log, applied, replica, plan, tokens, verdict, now, changes, stops>>
database == <<schema, log, applied>>
bounds == <<now, changes, stops>>

Phase == {"down", "migrate", "count", "insert", "serving"}
Key == [by : Replica, kek : KeyEncryptionKey, status : {"active", "retired", "revoked"}]
Token == [kid : Nat, nbf : Nat, exp : Nat, at : Nat]
Verdict == [token : Token, replica : Replica, ok : BOOLEAN, keys : Seq(Key), at : Nat]

TypeOK ==
    /\ schema \in 0..Migrations
    /\ log \in Seq(Seq(Key)) /\ applied \in 1..Len(log)
    /\ replica \in [Replica -> Phase]
    /\ plan \in [Replica -> 0..Migrations]
    /\ \A g \in Replica : /\ replica[g] = "migrate" => plan[g] < Migrations
                          /\ replica[g] \in {"count", "insert", "serving"} => schema = Migrations
    /\ tokens \subseteq Token
    /\ verdict \in Verdict \cup {None}
    /\ now \in 0..MaxTime /\ changes \in 0..MaxChanges /\ stops \in 0..MaxStops

Init ==
    /\ schema = 0
    /\ log = << <<>> >> /\ applied = 1
    /\ replica = [g \in Replica |-> "down"]
    /\ plan = [g \in Replica |-> 0]
    /\ tokens = {}
    /\ verdict = None
    /\ now = 0 /\ changes = 0 /\ stops = 0

Keys == log[Len(log)]
Active(keys) == {k \in DOMAIN keys : keys[k].status = "active"}

Becomes(g, phase) == replica' = [replica EXCEPT ![g] = phase]

-----------------------------------------------------------------------------
(* main. *)

(* Mutant: a runner that applies every migration again. *)
PlanFromStart(g) ==
    /\ replica[g] = "down"
    /\ plan' = [plan EXCEPT ![g] = 0]
    /\ Becomes(g, "migrate")
    /\ UNCHANGED <<database, tokens, verdict, bounds>>

(* DatabasePool::migrate: the runner reads what has been applied.  Before it
   main loads the KEK and builds the pools; an error there ends main and
   leaves the replica down. *)
ReadSchema(g) ==
    /\ replica[g] = "down"
    /\ plan' = [plan EXCEPT ![g] = schema]
    /\ Becomes(g, IF schema = Migrations THEN "count" ELSE "migrate")
    /\ UNCHANGED <<database, tokens, verdict, bounds>>

(* The next migration of the plan: an error, and the end of main, if another
   replica has applied it in the meantime. *)
Migrate(g) ==
    /\ replica[g] = "migrate"
    /\ IF plan[g] = schema
       THEN /\ schema' = schema + 1
            /\ plan' = [plan EXCEPT ![g] = schema + 1]
            /\ Becomes(g, IF schema + 1 = Migrations THEN "count" ELSE "migrate")
       ELSE Becomes(g, "down") /\ UNCHANGED <<schema, plan>>
    /\ UNCHANGED <<log, applied, tokens, verdict, bounds>>

(* Mutant: the read replica is asked. *)
KeysCountedAtReader(g) == IF g \in OnStandby THEN log[applied] ELSE Keys

KeysCounted(g) == Keys

(* ensure_signing_key counts ... *)
CountKeys(g) ==
    /\ replica[g] = "count"
    /\ Becomes(g, IF Active(KeysCounted(g)) = {} THEN "insert" ELSE "serving")
    /\ UNCHANGED <<database, plan, tokens, verdict, bounds>>

(* ... and inserts a key of its own, in another statement; then main serves. *)
InsertKey(g) ==
    /\ replica[g] = "insert"
    /\ log' = Append(log, Append(Keys, [by |-> g, kek |-> Kek[g], status |-> "active"]))
    /\ Becomes(g, "serving")
    /\ UNCHANGED <<schema, applied, plan, tokens, verdict, bounds>>

(* SIGTERM, an error of main, a crash. *)
Stop(g) ==
    /\ replica[g] # "down" /\ stops < MaxStops
    /\ stops' = stops + 1
    /\ Becomes(g, "down")
    /\ UNCHANGED <<database, plan, tokens, verdict, now, changes>>

-----------------------------------------------------------------------------
(* Tokens. *)

Clock(g) == now + Skew[g]

(* get_active_signing_key: the newest active key. *)
Newest(k) == k \in Active(Keys) /\ \A j \in Active(Keys) : j <= k

(* decrypt_private_key: the KEK and the kid must be those of the encryption. *)
Decrypts(g, k) == Keys[k].kek = Kek[g]

CanSign(g) == \E k \in DOMAIN Keys : Newest(k) /\ Decrypts(g, k)

(* login: build the claims and sign them. *)
Sign(g) ==
    /\ replica[g] = "serving" /\ Cardinality(tokens) < MaxTokens
    /\ \E k \in DOMAIN Keys :
         /\ Newest(k) /\ Decrypts(g, k)
         /\ tokens' = tokens \cup {[kid |-> k, nbf |-> Clock(g), exp |-> Clock(g) + Life, at |-> now]}
    /\ UNCHANGED <<database, replica, plan, verdict, bounds>>

(* Mutant: keys are read once and kept, as of the table without any. *)
ReaderKeysAtStart(g) == log[1]

(* The table as the reader pool shows it, at each request anew. *)
ReaderKeys(g) == IF g \in OnStandby THEN log[applied] ELSE Keys

(* Mutant: only active keys are published. *)
ActiveOnly(keys) == Active(keys)

(* Mutant: every key is. *)
AllKeys(keys) == DOMAIN keys

(* list_public_jwks: status != 'revoked'. *)
Published(keys) == {k \in DOMAIN keys : keys[k].status # "revoked"}

(* verify_jwt: exp and nbf, with the leeway; both are always there, issuer and
   audience are the same for every token, and the signature is good. *)
InTime(t, clock) == clock <= t.exp + Leeway /\ clock + Leeway >= t.nbf

(* authenticate. *)
Authenticate(g, t) ==
    /\ replica[g] = "serving"
    /\ verdict' = [token |-> t, replica |-> g, keys |-> ReaderKeys(g), at |-> now,
                   ok |-> t.kid \in Published(ReaderKeys(g)) /\ InTime(t, Clock(g))]
    /\ UNCHANGED <<database, replica, plan, tokens, bounds>>

-----------------------------------------------------------------------------
(* The read replica applies another state. *)
Replicate ==
    /\ applied < Len(log) /\ applied' = applied + 1
    /\ UNCHANGED <<schema, log, replica, plan, tokens, verdict, bounds>>

(* No code retires or revokes a key: an operator does, and leaves one that is
   active. *)
ChangeStatus(k, status) ==
    /\ changes < MaxChanges
    /\ Active(Keys) \ {k} # {}
    /\ Keys[k].status # status /\ status # "active"
    /\ log' = Append(log, [Keys EXCEPT ![k].status = status])
    /\ changes' = changes + 1
    /\ UNCHANGED <<schema, applied, replica, plan, tokens, verdict, now, stops>>

Tick ==
    /\ now < MaxTime /\ now' = now + 1
    /\ UNCHANGED <<database, replica, plan, tokens, verdict, changes, stops>>

-----------------------------------------------------------------------------
Boot(g) == ReadSchema(g) \/ Migrate(g) \/ CountKeys(g) \/ InsertKey(g)

Next ==
    \/ \E g \in Replica : Boot(g) \/ Stop(g) \/ Sign(g) \/ \E t \in tokens : Authenticate(g, t)
    \/ Replicate \/ Tick
    \/ \E k \in DOMAIN Keys, status \in {"retired", "revoked"} : ChangeStatus(k, status)

Spec == Init /\ [][Next]_vars

(* main goes on, Kubernetes starts a process that ended again, and PostgreSQL's
   streaming replication goes on. *)
Fairness == (\A g \in Replica : WF_vars(Boot(g))) /\ WF_vars(Replicate)

FairSpec == Spec /\ Fairness

-----------------------------------------------------------------------------
(* Properties. *)

(* A token is never refused within its life by a reader that shows its key
   and does not show it revoked (services/mod.rs:125), whatever the clocks
   and however many keys are active or retired. *)
GoodTokensAccepted ==
    verdict # None =>
        LET t == verdict.token IN
        t.kid \in DOMAIN verdict.keys /\ verdict.keys[t.kid].status # "revoked"
          /\ verdict.at <= t.at + Life => verdict.ok

(* An accepted token's key is one the reader shows, not revoked there, and
   its life ended no longer ago than the leeway and the clocks allow
   (auth.rs:40). *)
StaleTokensRefused ==
    verdict # None /\ verdict.ok =>
        LET t == verdict.token IN
        /\ t.kid \in DOMAIN verdict.keys /\ verdict.keys[t.kid].status # "revoked"
        /\ verdict.at <= t.at + Life + 2 * Leeway

(* Replicas that start together each insert a key, but no replica a second
   one: restarts do not pile up keys (services/mod.rs:512). *)
OneKeyPerReplica ==
    \A j \in DOMAIN Keys, k \in DOMAIN Keys : Keys[j].by = Keys[k].by => j = k

(* A replica that serves finds an active key, and one it can decrypt unless a
   replica with another KEK made the newest (main.rs:31). *)
ServingCanSign ==
    \A g \in Replica : replica[g] = "serving" =>
        /\ Active(Keys) # {}
        /\ CanSign(g) \/ \E k \in Active(Keys) : Kek[Keys[k].by] # Kek[g]

(* Every replica gets to serve, though replicas that start together fail each
   other's migrations (db.rs:113). *)
EventuallyServing == \A g \in Replica : (replica[g] = "down") ~> (replica[g] = "serving")

(* A reader that lags behind the writer (services/mod.rs:125) catches up: the
   key of a token that was issued is shown by every reader in the end, and for
   good, and a key the writer revokes is hidden by each of them in its turn. *)
ReadersCatchUp ==
    \A g \in Replica, k \in 1..Cardinality(Replica) :
        /\ (\E t \in tokens : t.kid = k) ~> [](k \in DOMAIN ReaderKeys(g))
        /\ (k \in DOMAIN Keys /\ Keys[k].status = "revoked") ~> (k \notin Published(ReaderKeys(g)))

-----------------------------------------------------------------------------
(* The inductive invariant of the proofs. *)

(* Once there is a key, there is an active one; a key is its maker's. *)
KeysStay ==
    /\ \A k \in DOMAIN Keys : Keys[k].kek = Kek[Keys[k].by]
    /\ Keys # <<>> => Active(Keys) # {}
    /\ \A g \in Replica : replica[g] = "serving" => Keys # <<>>
    /\ \A g \in Replica : replica[g] = "insert" => \A k \in DOMAIN Keys : Keys[k].by # g

(* A token's times are of one of the clocks. *)
TokensDated ==
    \A t \in tokens : t.at <= now /\ \E g \in Replica : t.nbf = t.at + Skew[g] /\ t.exp = t.at + Skew[g] + Life

KeysInv ==
    /\ TypeOK
    /\ KeysStay
    /\ TokensDated
    /\ GoodTokensAccepted
    /\ StaleTokensRefused
    /\ OneKeyPerReplica
=============================================================================
