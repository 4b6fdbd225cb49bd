------------------------------- MODULE Outbox -------------------------------
(***************************************************************************)
(* The transactional outbox of the identity service: the outbox table, the *)
(* PostgreSQL advisory lock that elects a leader, and one publisher task   *)
(* per replica (services/identity/src/outbox/{db,publisher}.rs, spawned    *)
(* and shut down by main.rs).                                              *)
(*                                                                         *)
(* Every .await of the publisher's loop is a step boundary, so replicas    *)
(* interleave inside a batch.  The environment opens and ends domain       *)
(* transactions, breaks connections, kills processes and makes Kafka and   *)
(* PostgreSQL calls fail before or after they took effect.                 *)
(***************************************************************************)
EXTENDS Integers, Sequences, FiniteSets, FiniteSetsExt

CONSTANTS
    Replica,       \* processes of the identity service
    Event,         \* identities of outbox rows
    Routable,      \* rows whose event_type route_topic knows ("auth_email")
    BatchSize,     \* KafkaConfig.batch_size
    MaxFaults,     \* bound on crashes, lost connections and failed calls
    MaxShutdowns,  \* bound on orderly shutdowns
    Free,          \* the advisory lock is not held
    Orphan         \* it is held by a session whose client is gone

ASSUME OutboxAssumption ==
    /\ IsFiniteSet(Replica)
    /\ IsFiniteSet(Event)
    /\ Routable \subseteq Event
    /\ BatchSize \in Nat \ {0}
    /\ MaxFaults \in Nat
    /\ MaxShutdowns \in Nat
    /\ Free \notin Replica
    /\ Orphan \notin Replica
    /\ Free # Orphan

VARIABLES
    createdAt,    \* created_at: order in which transactions began, 0 = not yet
    committedAt,  \* order in which they committed, 0 = not (yet)
    aborted,      \* events whose transaction rolled back
    published,    \* rows with published_at set
    lockOwner,    \* holder of the advisory lock: a replica, Free or Orphan
    log,          \* the records of the Kafka topic, by event
    pc,           \* where each publisher task is
    batch,        \* rows it fetched and has not finished, head first
    connected,    \* its dedicated lock connection works
    cancelled,    \* its CancellationToken is set
    faults,       \* faults so far
    shutdowns     \* orderly shutdowns so far

table     == <<createdAt, committedAt, aborted>>
publisher == <<pc, batch, connected, cancelled>>
budget    == <<faults, shutdowns>>
vars == <<table, published, lockOwner, log, publisher, budget>>

(* down: no process.  sleep: in the select! between two polls.  fetch: told
   Ok(true) by the lock query.  produce: the head of the batch is next.
   mark: its produce call succeeded.  ended: the task returned while the
   process goes on. *)
Looping == {"sleep", "fetch", "produce", "mark"}
PC == Looping \cup {"down", "ended"}

Committed == {e \in Event : committedAt[e] > 0}
Open == {e \in Event : createdAt[e] > 0 /\ committedAt[e] = 0 /\ e \notin aborted}
Logged == {log[i] : i \in DOMAIN log}

TypeOK ==
    /\ createdAt \in [Event -> Nat]
    /\ committedAt \in [Event -> Nat]
    /\ aborted \subseteq Event
    /\ published \subseteq Event
    /\ lockOwner \in Replica \cup {Free, Orphan}
    /\ log \in Seq(Event)
    /\ pc \in [Replica -> PC]
    /\ batch \in [Replica -> Seq(Event)]
    /\ \A r \in Replica : pc[r] \in {"produce", "mark"} => batch[r] # <<>>
    /\ connected \in [Replica -> BOOLEAN]
    /\ cancelled \in [Replica -> BOOLEAN]
    /\ faults \in 0..MaxFaults
    /\ shutdowns \in 0..MaxShutdowns

Init ==
    /\ createdAt = [e \in Event |-> 0]
    /\ committedAt = [e \in Event |-> 0]
    /\ aborted = {}
    /\ published = {}
    /\ lockOwner = Free
    /\ log = <<>>
    /\ pc = [r \in Replica |-> "down"]
    /\ batch = [r \in Replica |-> <<>>]
    /\ connected = [r \in Replica |-> FALSE]
    /\ cancelled = [r \in Replica |-> FALSE]
    /\ faults = 0
    /\ shutdowns = 0

Fault ==
    /\ faults < MaxFaults
    /\ faults' = faults + 1
    /\ UNCHANGED shutdowns

-----------------------------------------------------------------------------
(* Domain transactions.  insert_event runs inside the caller's transaction, *)
(* and created_at defaults to NOW(), the time the transaction began.        *)

Begin(e) ==
    /\ createdAt[e] = 0
    /\ createdAt' = [createdAt EXCEPT ![e] = 1 + Cardinality({d \in Event : createdAt[d] > 0})]
    /\ UNCHANGED <<committedAt, aborted, published, lockOwner, log, publisher, budget>>

Commit(e) ==
    /\ e \in Open
    /\ committedAt' = [committedAt EXCEPT ![e] = 1 + Cardinality(Committed)]
    /\ UNCHANGED <<createdAt, aborted, published, lockOwner, log, publisher, budget>>

Rollback(e) ==
    /\ e \in Open
    /\ aborted' = aborted \cup {e}
    /\ UNCHANGED <<createdAt, committedAt, published, lockOwner, log, publisher, budget>>

-----------------------------------------------------------------------------
(* The publisher task of replica r. *)

Goto(r, p, b) ==
    /\ pc' = [pc EXCEPT ![r] = p]
    /\ batch' = [batch EXCEPT ![r] = b]

(* spawn, and the part of run before the loop: a Kafka client and a pooled
   connection kept for the lock. *)
Spawn(r) ==
    /\ pc[r] = "down"
    /\ Goto(r, "sleep", <<>>)
    /\ connected' = [connected EXCEPT ![r] = TRUE]
    /\ cancelled' = [cancelled EXCEPT ![r] = FALSE]
    /\ UNCHANGED <<table, published, lockOwner, log, budget>>

(* run returns Err when the client cannot be built or the pool has no
   connection to give: spawn logs it, and the process serves on without. *)
SpawnFails(r) ==
    /\ pc[r] = "down"
    /\ Fault
    /\ Goto(r, "ended", <<>>)
    /\ cancelled' = [cancelled EXCEPT ![r] = FALSE]
    /\ UNCHANGED <<table, published, lockOwner, log, connected>>

(* pg_try_advisory_lock: true for a free lock, and again for a session that
   already holds it. *)
LockGrantedToAll(r) == TRUE \* mutant: its answer is ignored
LockGranted(r) == lockOwner \in {Free, r}

TryAcquireLeaderLock(r) ==
    /\ pc[r] = "sleep"
    /\ connected[r]
    /\ LockGranted(r)
    /\ lockOwner' = r
    /\ Goto(r, "fetch", batch[r])
    /\ UNCHANGED <<table, published, log, connected, cancelled, budget>>

(* Ok(false), or Err on a broken lock connection: `continue`.  The connection
   is never replaced. *)
PollWithoutLock(r) ==
    /\ pc[r] = "sleep"
    /\ ~ connected[r] \/ ~ LockGranted(r)
    /\ UNCHANGED vars

(* fetch_unpublished: WHERE published_at IS NULL ORDER BY created_at ASC
   LIMIT batch_size, on a pooled connection, not the one of the lock. *)
Unpublished == Committed \ published

AnswersInAnyOrder == \* mutant: no ORDER BY
    LET n == Min({BatchSize, Cardinality(Unpublished)})
    IN  {b \in [1..n -> Unpublished] : \A i, j \in 1..n : i < j => b[i] # b[j]}
Answers ==
    LET n == Min({BatchSize, Cardinality(Unpublished)})
    IN  {b \in [1..n -> Unpublished] :
            /\ \A i, j \in 1..n : i < j => createdAt[b[i]] < createdAt[b[j]]
            /\ \A e \in Unpublished \ {b[i] : i \in 1..n} :
                   \A i \in 1..n : createdAt[b[i]] < createdAt[e]}

FetchUnpublished(r) ==
    /\ pc[r] = "fetch"
    /\ \E b \in Answers : Goto(r, IF b = <<>> THEN "sleep" ELSE "produce", b)
    /\ UNCHANGED <<table, published, lockOwner, log, connected, cancelled, budget>>

FetchFails(r) ==
    /\ pc[r] = "fetch"
    /\ Fault
    /\ Goto(r, "sleep", <<>>)
    /\ UNCHANGED <<table, published, lockOwner, log, connected, cancelled>>

(* The end of one turn of the `for event in events` loop. *)
NextEventUnchecked(r) == Goto(r, "produce", Tail(batch[r])) \* mutant: loops past the end
NextEvent(r) ==
    LET rest == Tail(batch[r])
    IN  Goto(r, IF rest = <<>> THEN "sleep" ELSE "produce", rest)

(* route_topic fails: the row is skipped, and stays unpublished. *)
BreakOnUnknown(r) == \* mutant: `break` for `continue`
    /\ pc[r] = "produce"
    /\ Head(batch[r]) \notin Routable
    /\ Goto(r, "sleep", <<>>)
    /\ UNCHANGED <<table, published, lockOwner, log, connected, cancelled, budget>>
SkipUnknown(r) ==
    /\ pc[r] = "produce"
    /\ Head(batch[r]) \notin Routable
    /\ NextEvent(r)
    /\ UNCHANGED <<table, published, lockOwner, log, connected, cancelled, budget>>

Produce(r) ==
    /\ pc[r] = "produce"
    /\ Head(batch[r]) \in Routable
    /\ log' = Append(log, Head(batch[r]))
    /\ Goto(r, "mark", batch[r])
    /\ UNCHANGED <<table, published, lockOwner, connected, cancelled, budget>>

(* An error of partition_client or produce, after which the broker may or may
   not have the record: `break`. *)
ProduceFailsAndMarks(r) == \* mutant: no `break`
    /\ pc[r] = "produce"
    /\ Head(batch[r]) \in Routable
    /\ Fault
    /\ Goto(r, "mark", batch[r])
    /\ UNCHANGED <<table, published, lockOwner, log, connected, cancelled>>
ProduceFails(r) ==
    /\ pc[r] = "produce"
    /\ Head(batch[r]) \in Routable
    /\ Fault
    /\ log' \in {log, Append(log, Head(batch[r]))}
    /\ Goto(r, "sleep", <<>>)
    /\ UNCHANGED <<table, published, lockOwner, connected, cancelled>>

(* mark_published, on a pooled connection and whoever holds the lock. *)
MarkPublishedNowhere(r) == \* mutant: no row is updated
    /\ pc[r] = "mark"
    /\ NextEvent(r)
    /\ UNCHANGED <<table, published, lockOwner, log, connected, cancelled, budget>>
MarkPublished(r) ==
    /\ pc[r] = "mark"
    /\ published' = published \cup {Head(batch[r])}
    /\ NextEvent(r)
    /\ UNCHANGED <<table, lockOwner, log, connected, cancelled, budget>>

(* Its error is logged ("duplicate possible") and the loop goes on; the
   UPDATE may have been applied. *)
MarkFails(r) ==
    /\ pc[r] = "mark"
    /\ Fault
    /\ published' \in {published, published \cup {Head(batch[r])}}
    /\ NextEvent(r)
    /\ UNCHANGED <<table, lockOwner, log, connected, cancelled>>

(* PublisherHandle::shutdown sets the token once the server has drained; the
   task looks at it only in the select!.  Its lock connection goes back to the
   pool with the lock on it. *)
Shutdown(r) ==
    /\ pc[r] \in Looping \cup {"ended"}
    /\ ~ cancelled[r]
    /\ shutdowns < MaxShutdowns
    /\ shutdowns' = shutdowns + 1
    /\ cancelled' = [cancelled EXCEPT ![r] = TRUE]
    /\ UNCHANGED <<table, published, lockOwner, log, pc, batch, connected, faults>>

ObserveCancelWhenDrained(r) == \* mutant: stops only once nothing is left
    /\ pc[r] = "sleep"
    /\ cancelled[r]
    /\ Unpublished = {}
    /\ Goto(r, "ended", <<>>)
    /\ UNCHANGED <<table, published, lockOwner, log, connected, cancelled, budget>>
ObserveCancel(r) ==
    /\ pc[r] = "sleep"
    /\ cancelled[r]
    /\ Goto(r, "ended", <<>>)
    /\ UNCHANGED <<table, published, lockOwner, log, connected, cancelled, budget>>

(* A session outlives its client until PostgreSQL notices. *)
OrphanLockOf(r) == lockOwner' = IF lockOwner = r THEN Orphan ELSE lockOwner

(* shutdown has returned, and with it main. *)
Exit(r) ==
    /\ pc[r] = "ended"
    /\ cancelled[r]
    /\ Goto(r, "down", <<>>)
    /\ connected' = [connected EXCEPT ![r] = FALSE]
    /\ OrphanLockOf(r)
    /\ UNCHANGED <<table, published, log, cancelled, budget>>

-----------------------------------------------------------------------------
(* What the environment does to a publisher. *)

Crash(r) ==
    /\ pc[r] # "down"
    /\ Fault
    /\ Goto(r, "down", <<>>)
    /\ connected' = [connected EXCEPT ![r] = FALSE]
    /\ OrphanLockOf(r)
    /\ UNCHANGED <<table, published, log, cancelled>>

LoseLockConnection(r) ==
    /\ pc[r] \in Looping
    /\ connected[r]
    /\ Fault
    /\ connected' = [connected EXCEPT ![r] = FALSE]
    /\ OrphanLockOf(r)
    /\ UNCHANGED <<table, published, log, pc, batch, cancelled>>

(* "Session-level advisory locks auto-release when this connection drops." *)
ReleaseOrphanLock ==
    /\ lockOwner = Orphan
    /\ lockOwner' = Free
    /\ UNCHANGED <<table, published, log, publisher, budget>>

-----------------------------------------------------------------------------
Transactions == \E e \in Event : Begin(e) \/ Commit(e) \/ Rollback(e)

Publish(r) ==
    \/ Spawn(r) \/ TryAcquireLeaderLock(r) \/ PollWithoutLock(r)
    \/ FetchUnpublished(r) \/ SkipUnknown(r) \/ Produce(r) \/ MarkPublished(r)
    \/ Shutdown(r) \/ ObserveCancel(r) \/ Exit(r)

Failure(r) ==
    \/ SpawnFails(r) \/ FetchFails(r) \/ ProduceFails(r) \/ MarkFails(r)
    \/ Crash(r) \/ LoseLockConnection(r)

Next ==
    \/ Transactions
    \/ \E r \in Replica : Publish(r) \/ Failure(r)
    \/ ReleaseOrphanLock

Spec == Init /\ [][Next]_vars

(* A started process is restarted by its supervisor, the runtime goes on
   polling the task, calls that do not fail return, PostgreSQL reaps dead
   sessions.  Nothing is assumed of faults, shutdowns and transactions.  The
   select! draws among its ready branches, so a set token wins one day. *)
Fairness ==
    /\ \A r \in Replica :
        /\ WF_vars(Spawn(r))
        /\ WF_vars(TryAcquireLeaderLock(r))
        /\ WF_vars(FetchUnpublished(r))
        /\ WF_vars(SkipUnknown(r) \/ Produce(r))
        /\ WF_vars(MarkPublished(r))
        /\ SF_vars(ObserveCancel(r))
        /\ WF_vars(Exit(r))
    /\ WF_vars(ReleaseOrphanLock)

FairSpec == Spec /\ Fairness
-----------------------------------------------------------------------------
(* Properties. *)

(* No event is lost: a row that the poll will never return again
   (mark_published) has a record in the topic. *)
PublishedWasLogged == published \subseteq Logged

(* Atomicity with the domain operation: the topic never holds the event of a
   transaction that rolled back or has not committed, nor one that has no
   topic. *)
LoggedWasCommitted == Logged \subseteq Committed \cap Routable

(* Between the lock query and the end of a batch. *)
Leading(r) == pc[r] \in {"fetch", "produce", "mark"}

(* What the advisory lock does give: two replicas work on batches at once
   only if one of them has lost its lock connection under way, since the lock
   is not looked at again before the next poll.  The doc of run
   (publisher.rs:97), "Only one replica will actively publish at a time", holds
   to this extent. *)
SoleConnectedLeader ==
    \A r, s \in Replica :
        r # s /\ Leading(r) /\ Leading(s) => ~ (connected[r] /\ connected[s])

(* At-least-once, and no worse than the faults: each copy of a record beyond
   the first is paid for by a fault of its own, over all replicas. *)
Copies(e) == {i \in DOMAIN log : log[i] = e}

DuplicatesNeedFaults == \A e \in Event : Cardinality(Copies(e)) <= 1 + faults

(* The inductive invariant behind the first three: a batch holds committed
   events only, the event being marked is in the topic, and a leader that is
   still connected is the owner of the lock. *)
BatchesAreCommitted ==
    \A r \in Replica : \A i \in DOMAIN batch[r] : batch[r][i] \in Committed

MarkingWasLogged ==
    \A r \in Replica : pc[r] = "mark" => Head(batch[r]) \in Logged

ConnectedLeaderOwnsLock ==
    \A r \in Replica : Leading(r) /\ connected[r] => lockOwner = r

OutboxInv ==
    /\ TypeOK
    /\ PublishedWasLogged
    /\ LoggedWasCommitted
    /\ BatchesAreCommitted
    /\ MarkingWasLogged
    /\ ConnectedLeaderOwnsLock

(* The strengthening of DuplicatesNeedFaults.  A replica owes the record of an
   event it has fetched and not produced.  While an event is unpublished, one
   that is about to fetch may come to owe it; then the records and the debts
   are one for each fault, and one more only if a connected leader is at it. *)
NoRepeats ==
    \A r \in Replica : \A i, j \in DOMAIN batch[r] : batch[r][i] = batch[r][j] => i = j

InBatch(r, e) == pc[r] \in {"produce", "mark"} /\ \E i \in DOMAIN batch[r] : batch[r][i] = e
Owes(r, e) == InBatch(r, e) /\ ~ (pc[r] = "mark" /\ Head(batch[r]) = e)
Owing(e) == {r \in Replica : Owes(r, e)}
MayOwe(e) == {r \in Replica : pc[r] = "fetch" \/ Owes(r, e)}
AtIt(r, e) == connected[r] /\ (pc[r] = "fetch" \/ InBatch(r, e))

PublishedBudget ==
    \A e \in published : Cardinality(Copies(e)) + Cardinality(Owing(e)) <= 1 + faults

UnpublishedBudget ==
    \A e \in Event \ published :
        Cardinality(Copies(e)) + Cardinality(MayOwe(e))
            <= faults + (IF \E r \in Replica : AtIt(r, e) THEN 1 ELSE 0)

DuplicatesInv == OutboxInv /\ NoRepeats /\ PublishedBudget /\ UnpublishedBudget

(* Without faults a record overtakes another only if its transaction
   overtook the other's between BEGIN and COMMIT, whichever replicas led. *)
OrderedWithoutFaults ==
    faults = 0 =>
        \A i, j \in DOMAIN log :
            i < j => \/ createdAt[log[i]] < createdAt[log[j]]
                     \/ committedAt[log[i]] < committedAt[log[j]]

(* No process of the service has a publisher that could ever lead: its task
   returned at once, or lost the lock connection it never replaces. *)
Stranded ==
    \A r \in Replica :
        /\ ~ cancelled[r]
        /\ \/ pc[r] = "ended"
           \/ pc[r] \in Looping /\ ~ connected[r]

(* Rows nobody can route fill every batch: they are fetched and skipped again
   at each poll. *)
Clogged == Cardinality(Committed \ Routable) >= BatchSize

(* A committed routable event is published in the end, whatever crashed,
   restarted, failed or shut down on the way, unless all the publishers are
   stranded for ever or unroutable rows clog the batch. *)
EventuallyPublished ==
    []<> ~Stranded =>
        \A e \in Routable : e \in Committed ~> e \in published \/ Clogged

(* PublisherHandle::shutdown returns: the batch in hand is finite and the
   token is looked at after it. *)
ShutdownCompletes ==
    \A r \in Replica : cancelled[r] ~> pc[r] = "down"

(* The doc of spawn (publisher.rs:74): "The publisher runs until the handle
   is shut down", and of the loop (277): a failed event "will be retried next
   poll". *)
EveryCommittedEventPublished ==
    \A e \in Routable : e \in Committed ~> e \in published

Promise == INSTANCE OutboxPromise WITH
    accepted <- Committed, delivered <- log, settled <- published

(* The table, the lock and the publishers implement the promise. *)
ImplementsPromise == Promise!Spec
=============================================================================
