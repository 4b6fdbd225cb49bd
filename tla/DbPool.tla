------------------------------- MODULE DbPool -------------------------------
(***************************************************************************)
(* The connections of one process of the identity service: the writer and  *)
(* the reader pool (services/identity/src/db.rs) and everything that takes *)
(* a connection from them.  That is the start of main.rs (migrations,      *)
(* first signing key), the requests (services/*.rs), which take one        *)
(* connection after the other and hold none while they hash a password,    *)
(* and the publisher (outbox/publisher.rs), which keeps one for its        *)
(* advisory lock and takes another one for each query.                     *)
(*                                                                         *)
(* No pool has a wait timeout, so whoever finds it exhausted waits for as  *)
(* long as it takes.  What a statement does is not modelled here: it       *)
(* returns, with or without an error.                                      *)
(***************************************************************************)
EXTENDS Integers, Sequences, FiniteSets, SequencesExt

CONSTANTS
    Request,     \* requests the process may have in progress at once
    WriterSize,  \* max_connections of the primary database
    ReaderSize,  \* max_connections of the read replica
    MaxBatch     \* bound on the rows one poll of the outbox finds

ASSUME DbPoolAssumption ==
    /\ IsFiniteSet(Request)
    /\ WriterSize \in Nat \ {0}
    /\ ReaderSize \in Nat \ {0}
    /\ MaxBatch \in Nat
    /\ Request \cap {"main", "leader", "publisher"} = {}

VARIABLES
    replica,  \* a read replica is configured (db_read)
    used,     \* by pool: who holds a connection
    queue,    \* by pool: who waits for one, longest first
    main,     \* where main is
    todo,     \* by request: the connections it still needs, this one first
    pub,      \* where the publisher task is
    batch,    \* rows it fetched and has not finished
    token     \* its CancellationToken is set

pools == <<used, queue>>
publisher == <<pub, batch, token>>
vars == <<replica, pools, main, todo, publisher>>

Pool == {"writer", "reader"}
Size == [p \in Pool |-> IF p = "writer" THEN WriterSize ELSE ReaderSize]

(* "leader" is leader_obj, the connection the publisher keeps; "publisher" is
   the one it takes for a query. *)
Task == Request \cup {"main", "leader", "publisher"}
Main == {"down", "migrate", "ensure", "serve", "drain", "stop"}
Pub == {"off", "connect", "leader", "sleep", "fetch", "produce", "mark", "ended"}

Reader == IF replica THEN "reader" ELSE "writer"

(* The connections a call of the service takes, in order: sign_up,
   verify_email, resend_verification; login (user, signing key, refresh
   token); get_jwks; user_info; update_profile; update_password.  The last
   three authenticate against the reader first. *)
Calls ==
    { <<"writer">>,
      <<"writer", "writer", "writer">>,
      <<Reader>>,
      <<Reader, Reader>>,
      <<Reader, "writer">>,
      <<Reader, "writer", "writer">> }

Waits(t) == \E p \in Pool : t \in Range(queue[p])
Holds(t) == \E p \in Pool : t \in used[p]

TypeOK ==
    /\ replica \in BOOLEAN
    /\ used \in [Pool -> SUBSET Task]
    /\ queue \in [Pool -> Seq(Task)]
    /\ main \in Main
    /\ todo \in [Request -> Seq(Pool)]
    /\ pub \in Pub
    /\ batch \in 0..MaxBatch
    /\ token \in BOOLEAN

Init ==
    /\ replica \in BOOLEAN
    /\ used = [p \in Pool |-> {}]
    /\ queue = [p \in Pool |-> <<>>]
    /\ main = "down"
    /\ todo = [r \in Request |-> <<>>]
    /\ pub = "off"
    /\ batch = 0
    /\ token = FALSE

-----------------------------------------------------------------------------
(* The pool.  deadpool hands connections out in the order of the calls of   *)
(* get.  Dropping the object gives it back; dropping a get that waits       *)
(* leaves the queue.                                                        *)

Get(p, t) == queue' = [queue EXCEPT ![p] = Append(@, t)]

Release(p, t) == used' = [used EXCEPT ![p] = @ \ {t}]

Ready(p) == queue[p] # <<>> /\ Cardinality(used[p]) < Size[p]

Grant(p) ==
    /\ Ready(p)
    /\ used' = [used EXCEPT ![p] = @ \cup {Head(queue[p])}]
    /\ queue' = [queue EXCEPT ![p] = Tail(@)]
    /\ UNCHANGED <<replica, main, todo, publisher>>

(* The end of the process, whatever main returns. *)
Exit ==
    /\ main' = "down"
    /\ used' = [p \in Pool |-> {}]
    /\ queue' = [p \in Pool |-> <<>>]
    /\ todo' = [r \in Request |-> <<>>]
    /\ pub' = "off"
    /\ batch' = 0
    /\ token' = FALSE
    /\ UNCHANGED replica

-----------------------------------------------------------------------------
(* main: DatabasePool::connect, migrate, ensure_signing_key, spawn, run,    *)
(* and the publisher's shutdown once every request has been drained.        *)

Boot ==
    /\ main = "down"
    /\ main' = "migrate"
    /\ replica' \in BOOLEAN
    /\ Get("writer", "main")
    /\ UNCHANGED <<used, todo, publisher>>

Migrated ==
    /\ main = "migrate"
    /\ "main" \in used["writer"]
    /\ main' = "ensure"
    /\ Release("writer", "main")
    /\ Get("writer", "main")
    /\ UNCHANGED <<replica, todo, publisher>>

KeyEnsured ==
    /\ main = "ensure"
    /\ "main" \in used["writer"]
    /\ main' = "serve"
    /\ Release("writer", "main")
    /\ pub' = "connect"
    /\ UNCHANGED <<replica, queue, todo, batch, token>>

(* A start that fails at its connection or its statements, a run that fails,
   or a process that is killed. *)
Dies ==
    /\ main # "down"
    /\ Exit

Sigterm ==
    /\ main = "serve"
    /\ main' = "drain"
    /\ UNCHANGED <<replica, pools, todo, publisher>>

(* Mutant: main waits for the publisher without cancelling it. *)
DrainedSilently ==
    /\ main = "drain" /\ \A r \in Request : todo[r] = <<>>
    /\ main' = "stop"
    /\ UNCHANGED <<replica, pools, todo, publisher>>

(* Mutant: the publisher is cancelled at SIGTERM, beside the drain. *)
DrainedEarly ==
    /\ main = "drain"
    /\ main' = "stop"
    /\ token' = TRUE
    /\ UNCHANGED <<replica, pools, todo, pub, batch>>

Drained ==
    /\ main = "drain"
    /\ \A r \in Request : todo[r] = <<>>
    /\ main' = "stop"
    /\ token' = TRUE
    /\ UNCHANGED <<replica, pools, todo, pub, batch>>

Joined ==
    /\ main = "stop"
    /\ pub = "ended"
    /\ Exit

-----------------------------------------------------------------------------
(* Requests. *)

Arrive(r) ==
    /\ main = "serve"
    /\ todo[r] = <<>>
    /\ \E c \in Calls : todo' = [todo EXCEPT ![r] = c]
    /\ UNCHANGED <<replica, pools, main, publisher>>

(* pool.get(), after the validation or hashing that comes before it. *)
Ask(r) ==
    /\ todo[r] # <<>>
    /\ ~Waits(r) /\ ~Holds(r)
    /\ Get(Head(todo[r]), r)
    /\ UNCHANGED <<replica, used, main, todo, publisher>>

(* Mutant: no drop(client) before the next get. *)
FinishKeeping(r) ==
    /\ todo[r] # <<>> /\ r \in used[Head(todo[r])]
    /\ todo' = [todo EXCEPT ![r] = Tail(@)]
    /\ used' = [p \in Pool |-> IF Len(todo[r]) = 1 THEN used[p] \ {r} ELSE used[p]]
    /\ IF Len(todo[r]) = 1 THEN UNCHANGED queue ELSE Get(todo[r][2], r)
    /\ UNCHANGED <<replica, main, publisher>>

(* The statements on this connection are done and it goes back to the pool:
   the request goes on to its next one, or it is over, by success, a refusal
   or an error. *)
Finish(r) ==
    /\ todo[r] # <<>>
    /\ r \in used[Head(todo[r])]
    /\ Release(Head(todo[r]), r)
    /\ \E rest \in {Tail(todo[r]), <<>>} : todo' = [todo EXCEPT ![r] = rest]
    /\ UNCHANGED <<replica, queue, main, publisher>>

(* Mutant: a dropped request stays in the queue. *)
AbandonQueued(r) ==
    /\ todo[r] # <<>>
    /\ todo' = [todo EXCEPT ![r] = <<>>]
    /\ used' = [p \in Pool |-> used[p] \ {r}]
    /\ UNCHANGED <<replica, queue, main, publisher>>

(* The request ends wherever it is: a wrong password, a connection that
   cannot be opened, or a client that went away and took the future of the
   handler with it. *)
Abandon(r) ==
    /\ todo[r] # <<>>
    /\ todo' = [todo EXCEPT ![r] = <<>>]
    /\ \/ \E p \in Pool : \E i \in DOMAIN queue[p] :
            /\ queue[p][i] = r
            /\ queue' = [queue EXCEPT ![p] = RemoveAt(@, i)]
            /\ UNCHANGED used
       \/ /\ ~Waits(r)
          /\ used' = [p \in Pool |-> used[p] \ {r}]
          /\ UNCHANGED queue
    /\ UNCHANGED <<replica, main, publisher>>

-----------------------------------------------------------------------------
(* The publisher task. *)

(* The Kafka client is built; then leader_obj = pool.get(). *)
Connect ==
    /\ pub = "connect"
    /\ pub' = "leader"
    /\ Get("writer", "leader")
    /\ UNCHANGED <<replica, used, main, todo, batch, token>>

ConnectFails ==
    /\ pub = "connect"
    /\ pub' = "ended"
    /\ UNCHANGED <<replica, pools, main, todo, batch, token>>

LeaderFails ==
    /\ pub = "leader"
    /\ Ready("writer") /\ Head(queue["writer"]) = "leader"
    /\ pub' = "ended"
    /\ queue' = [queue EXCEPT !["writer"] = Tail(@)]
    /\ UNCHANGED <<replica, used, main, todo, batch, token>>

Started ==
    /\ pub = "leader"
    /\ "leader" \in used["writer"]
    /\ pub' = "sleep"
    /\ UNCHANGED <<replica, pools, main, todo, batch, token>>

(* The interval is over and the lock query on leader_obj said yes.  With a
   no or an error the task sleeps again. *)
Poll ==
    /\ pub = "sleep"
    /\ pub' = "fetch"
    /\ Get("writer", "publisher")
    /\ UNCHANGED <<replica, used, main, todo, batch, token>>

(* What remains of the batch, and the sleep when nothing does. *)
Continue(n) ==
    /\ batch' = n
    /\ pub' = IF n = 0 THEN "sleep" ELSE "produce"

Fetched ==
    /\ pub = "fetch"
    /\ "publisher" \in used["writer"]
    /\ Release("writer", "publisher")
    /\ \E n \in 0..MaxBatch : Continue(n)
    /\ UNCHANGED <<replica, queue, main, todo, token>>

Produced ==
    /\ pub = "produce"
    /\ pub' = "mark"
    /\ Get("writer", "publisher")
    /\ UNCHANGED <<replica, used, main, todo, batch, token>>

(* An unknown event type passes on to the next row; an error of Kafka gives
   the batch up. *)
NotProduced ==
    /\ pub = "produce"
    /\ \E n \in {batch - 1, 0} : Continue(n)
    /\ UNCHANGED <<replica, pools, main, todo, token>>

Marked ==
    /\ pub = "mark"
    /\ "publisher" \in used["writer"]
    /\ Release("writer", "publisher")
    /\ Continue(batch - 1)
    /\ UNCHANGED <<replica, queue, main, todo, token>>

(* A get of the query that fails: an error of the fetch ends the poll, an
   error of the mark is logged and the next row follows. *)
QueryFails ==
    /\ pub \in {"fetch", "mark"}
    /\ Ready("writer") /\ Head(queue["writer"]) = "publisher"
    /\ queue' = [queue EXCEPT !["writer"] = Tail(@)]
    /\ Continue(IF pub = "fetch" THEN 0 ELSE batch - 1)
    /\ UNCHANGED <<replica, used, main, todo, token>>

(* The token is looked at between polls only; run returns and drops
   leader_obj. *)
ObserveCancel ==
    /\ pub = "sleep"
    /\ token
    /\ pub' = "ended"
    /\ Release("writer", "leader")
    /\ UNCHANGED <<replica, queue, main, todo, batch, token>>

-----------------------------------------------------------------------------
Step(r) == Arrive(r) \/ Ask(r) \/ Finish(r) \/ Abandon(r)

Publish ==
    \/ Connect \/ ConnectFails \/ LeaderFails \/ Started \/ Poll \/ Fetched
    \/ Produced \/ NotProduced \/ Marked \/ QueryFails \/ ObserveCancel

Run ==
    Boot \/ Migrated \/ KeyEnsured \/ Dies \/ Sigterm \/ Drained \/ Joined

Next ==
    \/ Run
    \/ Publish
    \/ \E p \in Pool : Grant(p)
    \/ \E r \in Request : Step(r)

Spec == Init /\ [][Next]_vars

(* Connections are handed out, statements and calls return, timers fire and
   the select! does not pass over a set token for ever.  Nobody has to send
   requests, to start the process or to stop it, and nothing has to fail. *)
Fairness ==
    /\ \A p \in Pool : WF_vars(Grant(p))
    /\ \A r \in Request : WF_vars(Ask(r)) /\ WF_vars(Finish(r))
    /\ WF_vars(Migrated) /\ WF_vars(KeyEnsured)
    /\ WF_vars(Drained) /\ WF_vars(Joined)
    /\ WF_vars(Connect) /\ WF_vars(Started)
    /\ WF_vars(Poll) /\ WF_vars(Fetched) /\ WF_vars(Marked)
    /\ WF_vars(Produced \/ NotProduced)
    /\ SF_vars(ObserveCancel)

FairSpec == Spec /\ Fairness

-----------------------------------------------------------------------------
(* Properties. *)

(* What a task has with a pool, in use or on order. *)
Entitled(t, p) ==
    \/ t \in Request /\ todo[t] # <<>> /\ Head(todo[t]) = p
    \/ t = "main" /\ p = "writer" /\ main \in {"migrate", "ensure"}
    \/ t = "leader" /\ p = "writer" /\ pub \in Pub \ {"off", "connect", "ended"}
    \/ t = "publisher" /\ p = "writer" /\ pub \in {"fetch", "mark"}

(* No connection is leaked: whoever holds one or stands in the queue is a    *)
(* task in progress whose next statements are on that pool, it stands there  *)
(* once, and a pool never has more than max_connections out.  This is about  *)
(* every early return, error and dropped future of the handlers.             *)
NoLeak ==
    \A p \in Pool :
        /\ \A t \in used[p] \cup Range(queue[p]) : Entitled(t, p)
        /\ used[p] \cap Range(queue[p]) = {}
        /\ \A i, j \in DOMAIN queue[p] : queue[p][i] = queue[p][j] => i = j
        /\ Cardinality(used[p]) <= Size[p]

(* Whenever somebody waits for a connection, one is free or in the hands of  *)
(* a task that needs no other one to give it back.  The publisher's          *)
(* leader_obj is never given back while it waits for its query, so this      *)
(* needs a second connection, and handlers that drop theirs before they ask  *)
(* for the next (login.rs, update_password.rs: drop(client)).                *)
SomebodyCanFinish ==
    \A p \in Pool : queue[p] # <<>> =>
        \/ Cardinality(used[p]) < Size[p]
        \/ \E t \in used[p] : t # "leader" /\ ~Waits(t)

(* main stops the publisher after its requests have ended: once the          *)
(* publisher is through and main may return, every connection is back and    *)
(* nobody waits for one (main.rs:51).                                        *)
StopsEmptyHanded ==
    main = "stop" /\ pub = "ended" => \A p \in Pool : used[p] = {} /\ queue[p] = <<>>

(* However many requests compete with the publisher for the pool, a request  *)
(* that has arrived is over in the end.                                      *)
RequestsFinish == \A r \in Request : todo[r] # <<>> ~> todo[r] = <<>>

(* After SIGTERM the process comes to its end: requests, publisher, main.    *)
DrainEnds == main = "drain" ~> main = "down"

-----------------------------------------------------------------------------
(* The inductive invariant. *)

(* The publisher past its start has its leader_obj, and work in hand. *)
PublisherKeeps ==
    /\ pub \in {"sleep", "fetch", "produce", "mark"} => "leader" \in used["writer"]
    /\ pub \in {"produce", "mark"} => batch > 0

(* It is spawned after the start of main, and told to stop after the drain. *)
InOrder ==
    /\ main \in {"down", "migrate", "ensure"} => pub = "off"
    /\ main = "stop" => \A r \in Request : todo[r] = <<>>

PoolInv == TypeOK /\ NoLeak /\ PublisherKeeps /\ InOrder
=============================================================================
