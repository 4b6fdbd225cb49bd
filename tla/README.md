# A verification of the home.ryanseipp.com services

The repository is a small platform: an identity service (Rust, gRPC, PostgreSQL,
Kafka), a gateway (Rust, HTTP, ScyllaDB), an e-mail service (TypeScript, Kafka,
Resend), a web front end (Rust, Leptos) and the infrastructure they run on. These
modules model the parts in which several tasks, replicas or services meet over
shared state, check them with TLC on small instances, and prove the safety
properties that matter most for every size with TLAPS.

    browser -> web proxy -> gateway --(mTLS gRPC)--> identity --> PostgreSQL
                              |                         |  outbox publisher
                              +--> ScyllaDB             +--> Kafka "email.auth"
                                                                 |
                                         Resend <-- email <------+

All paths below are relative to `src/services/` of the repository.

## 1. Inventory

### identity: transactional outbox and publisher — modelled (`Outbox`)
`identity/src/outbox/{db,publisher}.rs`, `identity/src/main.rs`.
State: the table `outbox` (row, created_at, published_at), a PostgreSQL advisory
lock, the topic, and per replica a task with a dedicated lock connection, a batch
and a cancellation token. Operations: `insert_event` inside a domain transaction;
per poll `try_acquire_leader_lock`, `fetch_unpublished`, and per row `route_topic`,
`produce`, `mark_published`; `spawn`, `PublisherHandle::shutdown`.
Hard: the lock is looked at once a poll while the batch is worked off over other
connections; every call may fail before or after its effect; replicas crash.
Correct when: no committed event is lost, none is invented, copies come only from
faults, a routable event is published in the end, and shutdown ends.

### identity: registration and verification — modelled (`Verification`)
`identity/src/services/{sign_up,resend_verification,verify_email,mod}.rs`.
State: the tables `users` and `email_verification_tokens`, row locks, the clock.
Operations: the three requests. Hard: the rate limit is checked outside the
transaction that inserts; two requests carry the same token; a request dies
between `consume_token` and its commit; expiries are computed before connections
are obtained. Correct when: a token verifies once, activation and consumption are
one, the limit holds (up to races), and requests do not wait in a circle.

### gateway: channel to identity — modelled (`IdentityChannel`)
`gateway/src/pool.rs`. State: a gRPC channel behind a `RwLock`, the atomic
`created_seq`, and the rotation sequence of the SPIFFE source. Operations: `new`,
`client`, `connect`. Hard: rotations between any two steps, concurrent rebuilds,
calls that fail or are dropped while they hold the lock. Correct when: a client is
as fresh as the rotation its call saw, and no call waits for ever.

### identity: login, refresh tokens, password, profile — modelled but for reads (`Credentials`)
`identity/src/services/{login,update_password,update_profile,mod,validation}.rs`.
State: the rows of `users` (hash, status, names), `refresh_tokens`, the row locks of
open transactions. Hard: the row is read, the connection given back, the hash
computed on another thread, and the row updated later by id alone, so password
changes, logins, profile updates and changes of status overlap. Correct when: a
login rests on one version of the row that was current during it; a change proved
a password that was current during it; each change has its mail; concurrent
statements keep each other's columns; requests end. `user_info` reads a row and
changes nothing; it is not an action.

### identity: signing keys, JWKS, JWT — modelled (`SigningKeys`)
`identity/src/main.rs`, `identity/src/services/{mod,get_jwks,auth}.rs`,
`identity/src/crypto/{jwk,jwt,kek,encryption}.rs`. State: the schema version, the
table `signing_keys`, what the read replica has applied of it, the key-encryption
key (KEK) and the clock of each process. Operations: the migration runner,
`ensure_signing_key`, `get_active_signing_key`, signing, `list_public_jwks`,
`authenticate`. Hard: replicas that start together migrate and count-then-insert at
the same time; signing reads the writer pool and authentication the reader pool,
which lags; clocks differ. Correct when: every replica gets to serve and finds a
key, keys do not pile up, a token is accepted within its life wherever its key
shows, and not after it.

### identity: database pools — modelled (`DbPool`)
`identity/src/{db,main,server}.rs`, `identity/src/outbox/`. State: who holds and who
waits for a connection of the writer and the reader pool. Everything that takes one
is an actor: main at its start, requests (up to three, one after the other), and the
publisher, which keeps one for its lock and takes another per query. Hard: no pool
has a wait time-out, so a task that held a connection while it waited for the next
could stop the whole process; a dropped request must give back what it has, or its
place in the queue. Correct when nothing leaks, nobody waits for ever, and SIGTERM
ends in a process without connections.

### gateway: sessions and authenticated routes — modelled (`GatewaySessions`)
`gateway/src/{session,main,server}.rs`, `gateway/src/routes/*.rs`. State: the table
`sessions` in ScyllaDB with a time to live, the cookie of each browser, the logins
identity accepted, the phase of each replica. Hard: `create_schema` drops the table
at every start of a replica while others serve; a login is two steps in two
databases; a logout races a handler that has read the session. Correct when: a
cookie is of a login of its browser and its row was stored; identity acts for the
user of the session, on one that had not ended when the request came; only its
logout or its time ends a session while the table stands; a dropped table returns.

### email: consumer and handler — modelled (`EmailConsumer`, `MailPipeline`)
`email/src/index.ts`, `email/src/consumer/{index,handler}.ts`,
`email/src/sender/resend.ts`, `email/src/templates/index.tsx`. State: the group's
committed offset, the owner of the partition, the record each member has in hand,
the provider's idempotency keys. Hard: `fromBeginning: false` before the first
commit; retries after a mail that was taken; members that outlive their assignment;
records that fail for ever; copies of records made by the outbox. Correct when a mail
belongs to a committed event, goes out once while the provider knows its key, and
no record between the group's first offset and its last is passed over unhandled.

### Partly modelled
- identity input validation, cryptography: what their callers rely on (accepted
  values, fresh tokens, a hash that matches its own password, a key that decrypts
  under its own KEK) is in `Credentials`, `Verification` and `SigningKeys`. The
  functions themselves are pure: unit and property tests show what they compute.
- identity server, SPIFFE, configuration, telemetry: the start of main, the drain and
  the order of the shutdown are in `DbPool`, `SigningKeys` and `Outbox`.
- gateway HTTP server: start, drain and what becomes of requests at SIGTERM, with and
  without TLS, are in `GatewaySessions`.
- e-mail sender and templates: outcomes of `sendEmail`, and which messages have
  content, are in `EmailConsumer`; layout and metrics are left out.

### Not modelled, and why
- web, server-side proxy: it keeps nothing between requests, and what it does to a
  single one (hop-by-hop headers, the target address) its unit tests show.
- web, user interface: presentation.
- protobuf: declarations; `EmailConsumer` relies on the idempotency key being the
  event's.
- test utilities, sample services, infrastructure, Nix and scripts: fixtures and glue.

## 2. Plan

| order | module | about | state |
|---|---|---|---|
| 1 | `OutboxPromise`, `Outbox` | at-least-once promise; publisher | checked, proved |
| 2 | `Verification` | registration and verification | checked, proved |
| 3 | `IdentityChannel` | SVID rotation | checked, proved |
| 4 | `MailPromise`, `EmailConsumer`, `MailPipeline` | the consumer on top of `OutboxPromise`, against "once per remembered key" | checked, proved |
| 5 | `Credentials` | password changes and logins | checked, proved |
| 6 | `GatewaySessions` | login, session, logout, restart of a replica | checked, proved |
| 7 | `SigningKeys` | start-up race, replica lag, validity of tokens | checked, proved |
| 8 | `DbPool` | connections of main, requests and the publisher | checked, proved |
| 9 | `Platform` | publishers and consumers together | proved |

Composition: `MailPipeline` puts `EmailConsumer` behind `OutboxPromise`, `Outbox` is
proved to implement `OutboxPromise`, and `Platform` puts the two together: from a
committed transaction to a mail, which `MailPromise` states in three actions. The other modules
meet over a few facts that each side states: `Verification` activates the users that
`Credentials` lets log in, `Credentials` takes its key from `SigningKeys`, and
`GatewaySessions` sees of identity the logins it accepts.

What is left. Every invariant and action property the runs check is proved, and the
two services are composed. What remains with TLC is in section 5. An operator's rotation of keys, the use of refresh tokens and a retention
of the outbox are not in the code yet; the modules have the state they would need.

## 3. The modules

Each component module declares its parameters and their assumption, its
variables, one action per operation or per part of an operation between two
`.await`s, the specification (`Spec`, and `FairSpec` with fairness), and its
properties. A definition whose name is followed by "mutant" in a comment is a
plausible slip of the code and belongs to no specification; it is there to show
that the property it is meant for notices it.

### `OutboxPromise`
The abstract promise: accepted events may be delivered any number of times, and
are settled only after a delivery. It knows no replicas, locks or batches.

### `Outbox`
| in the model | in the code |
|---|---|
| `createdAt`, `committedAt`, `aborted` | the row and its transaction; `created_at` defaults to `NOW()`, the time of BEGIN |
| `published` | rows with `published_at` |
| `lockOwner` | the advisory lock; `Orphan` while PostgreSQL still has the session of a client that is gone |
| `log` | the topic |
| `pc`, `batch` | where `run` is: in the `select!`, told it leads, inside the `for` loop, after a `produce`; the rows still to do |
| `connected` | whether the connection obtained at the start of `run` works |
| `cancelled` | the `CancellationToken` |

`TryAcquireLeaderLock`/`PollWithoutLock`, `FetchUnpublished`/`FetchFails`,
`SkipUnknown`, `Produce`/`ProduceFails`, `MarkPublished`/`MarkFails` are the
outcomes of the calls in the loop, and `ObserveCancel` its other branch. A failed
`produce` or `mark_published` may have taken effect. `Crash` and
`LoseLockConnection` may strike anywhere; a process restarts with a new task and a
new connection. A produce is synchronous in the code (one record, awaited), so the
topic is a sequence. Two rows never have the same `created_at` here; with equal
ones the code's order among them is PostgreSQL's choice, and only
`OrderedWithoutFaults` would have to speak of it. Trace headers, the cached
partition clients (one partition, 0) and the payload are left out.

### `Verification`
A user stands for a (username, e-mail) pair, a token for its random value, its
hash and the event mailed with it. `status`, `owner`, `created`, `expires`,
`consumed` are columns; `tokenLock` and `userLock` the row locks of an open
transaction, whose writes show at its commit. `SignUp` is one step because it reads
nothing before its transaction; `LookUpUser`, `CountTokens`, `InsertTokenAndEvent`
are the statements of `resend_verification`, and `FindToken`, `ConsumeToken`,
`MarkEmailVerified`, `CommitVerification` those of `verify_email`. `Fail` ends a
request anywhere and rolls it back. Answers that change nothing (an unknown user, a
dead token) are not steps. `verified` is a history variable: how often a token was
answered with success.

### `IdentityChannel`
`seq` is what `source.updated().last()` returns, and at the same time the SVID a
handshake picks up: the model takes the notification and the certificate for one
event, as the code does. `channel` is the SVID of the connection behind the lock,
`createdSeq` the atomic. The two atomic reads of `client` and its `.await`s
delimit the steps. `Abandon` is a failed `connect` or a dropped future: the guard
goes with it. `Redial` is tonic's own reconnection of a broken channel. `client`,
`bornStale` and `rebuilt` are history variables for the properties.

### `MailPromise`, `EmailConsumer`, `MailPipeline`
`delivered` is the one partition of the topic; `committed` the group's offset (`None`
before the first commit), `base` the offset the group began at, `owner` the member
the coordinator gave the partition. A member is `idle` between records, `sending`
while it awaits the provider and `answered` with a `SendResult`. `kind` says what a
record is to the handler: a mail, a tombstone, bytes that do not decode, a message
without content, a mail refused with words of `NON_RETRYABLE_ERRORS` or with others.
`SkipRecord`, `DecodeFails`, `Send`, `Succeed`, `GiveUp`, `Retry` are the ways through
`eachMessage`; `Accepted`, `Refused`, `RequestFails` those of `sendEmail`, the last
before or after the provider took the mail. `Assign`, `Revoke`, `Commit`, `Stop` and
`Crash` are KafkaJS, the coordinator and the process. `MailPipeline` adds the actions
of `OutboxPromise` and states the properties of the whole.

### `Platform`
The consumers behind the publishers themselves. It extends `Outbox`, declares the
variables of the e-mail service and sees them as an instance of `MailPipeline` whose
accepted events are the committed routable ones, whose topic is `log` and whose settled
events are `published`: rows of an unknown type never reach the topic and are no events
of the pipeline. A step is one of the identity service (`IdentityStep`, with every
failure of `Outbox`) or of the e-mail service and its provider (`MailStep`); they share
the topic only, named `email.auth` on both sides. `MaxLog` bounds the topic as in
`MailPipeline`, and may be any number. `Platform` has no run: its state space is the product of two
that have one each, and what it says follows from theorems about them (section 5).

### `Credentials`
`rows[u]` is the history of a user's row, so that a property can say which version a
request rests on; a request carries the version current at its arrival (`start`) and
the one it read (`snap`). `LookUp`, `Verify`, `SignTokens`, `StoreRefreshToken` are
`login` between its awaits, `UpdateHash`, `InsertEvent`, `CommitChange` the
transaction of `update_password`. `UpdateProfile` and `SetStatus` are single
statements. Two changes that verified the same password do overwrite each other,
because the UPDATE does not look at the hash again; `ChangesProvePassword` says how
far that goes: the replaced password was itself set while the request was under way.
`Fail` ends a request at any await.

### `SigningKeys`
`log` is the sequence of states of the table and `applied` the one the read replica
shows. `ReadSchema`, `Migrate`, `CountKeys`, `InsertKey` are the start of main:
refinery plans from what it reads and fails when another process got there first,
which ends main and is made good by a restart. `Sign`, `Authenticate` and the
operator's `ChangeStatus` use and change keys; no code retires or revokes one.

### `GatewaySessions`
A session and the access token in its row are numbered by the login that made them.
`DropTable`, `CreateTable`, `Prepare` are `create_schema` and the prepared statements
of each start; `Terminate`, `Drained`, `Crash` the end of a process: the plain server
waits for its requests, the TLS server leaves its loop and ends them. `Read`,
`LoginAtIdentity`, `CallIdentity`, `CreateSession`, `DeleteSession` are the awaits of
the handlers, each with its failure; `Deliver` and `LoseAnswer` what becomes of the
answer. `Tick` ages rows and access tokens; nothing reads `expires_at`. Some facts
the model made plain:
- every start of a replica ends all sessions of all replicas;
- the access token in a row is good for 15 minutes, the row and the cookie for seven
  days, and the refresh token is never used, so after 15 minutes a session can only
  log out (everything else is answered with 401);
- a login whose session cannot be stored leaves a refresh token row behind;
- `update_password` answers a wrong current password with 401 as well.

### `DbPool`
`used` and `queue` are deadpool's permits and its waiters, first come first served.
`todo[r]` is the list of pools a request still has to go through; `Calls` has the list
of each RPC. `Ask` is `pool.get()`, `Finish` the end of the statements with the drop
of the object, `Abandon` any other end, a dropped future included. The publisher's
own loop is that of `Outbox`, reduced to its connections; `"leader"` is the one it
keeps. `replica` says whether `db_read` is configured. A process dies at any moment
(`Dies`) and is started again.

### Proofs
`OutboxProofs`, `VerificationProofs`, `IdentityChannelProofs`, `MailPipelineProofs`,
`CredentialsProofs`, `SigningKeysProofs`, `GatewaySessionsProofs` and `DbPoolProofs`
extend their component and hold the theorems; those about `Platform` are the last part
of `OutboxProofs`, which extends it.

## 4. The runs

| run | instance | shows |
|---|---|---|
| `outbox_safety` | 2 replicas, 3 events (1 unroutable), batches of 2, 2 faults, 1 shutdown | nothing lost, one connected leader, copies paid for by faults, order while nothing fails |
| `outbox_liveness` | 2 replicas, 2 events (1 unroutable), batches of 2, 2 faults, 2 shutdowns | refinement of `OutboxPromise`; publication and shutdown in the end |
| `outbox_stranded` | 1 replica, 1 fault | violated: a service that never publishes again |
| `verification` | 2 users, 3 tokens, 2 requests, limit 1, 3 times of the clock | single use, atomicity, the limit up to races, no mail to an active user but those being asked for, no circle of row locks, and that verifications end |
| `verification_rate_limit` | 1 user, 3 tokens, 2 requests | violated: the hourly limit |
| `identity_channel` | 2 tasks, 2 rotations, 1 failure | freshness after a rebuild, calls that end and leave no lock, a record that settles |
| `identity_channel_fresh` | as `identity_channel` | violated: a stale client after a rotation inside `new` |
| `mail_pipeline` | 2 consumers, 2 events (one of any kind), 2 records, 2 faults, 1 forgotten key | no record passed over, refinement of `MailPromise` (each further mail has cost a forgotten key), each record handled in the end unless a poison record precedes it |
| `credentials` | 1 user and a bystander with a clashing name, 3 passwords (1 invalid), 2 requests at a time, 3 in all, 1 other write, 1 failure | what logins and changes rest on, an event per change, one column at a time, requests that end |
| `gateway_sessions` | 2 replicas (1 with TLS), 2 browsers, 1 user, 2 logins, 3 requests, 1 stop or fault | cookies and calls are backed, logins without a session have cost a failure, the table returns, sessions expire |
| `signing_keys` | 2 replicas with different KEKs and clocks, 1 on the standby, 2 migrations, 1 token, 2 changes, 2 stops | good tokens accepted, stale ones refused, one key per replica, readers catch up, all get to serve |
| `db_pools` | 2 requests, writer pool of 2, reader pool of 1, batches up to 2 | nothing leaked, nobody starved, the publisher stopped with every connection back, requests and the drain end |

Why the bounds are enough. Two replicas or requests are what a race needs, and the
safety properties are proved for any number. Batches of two make a publisher lose
the lock inside a batch and still have a row to do; three events leave one outside
the batch. Two faults are a lost lock connection followed by a failed mark, the
shortest way to two copies of a record beyond the first. A limit of one token an
hour is exceeded by the first race (the code's limit is 3), and three tokens are a
sign-up and two racing resends. Two rotations let a task store an older sequence
over a newer one. Two members and two faults are a rebalance while a record is in
hand and a failed send of the same record by the new owner. Three requests are a
login and the two changes it entitles to. A replica that starts, one that serves and
one stop or fault are what makes the table go away under a request; a fault and a
stop together were not needed to break any of the mutants, and the proofs cover any
number of both. `MCGatewaySessions` binds a request to a replica and lets the second
browser only log in; `MCCredentials` keeps the bystander quiet: both only reduce
symmetric cases. Two migrations make a plan that is overtaken in its middle. In
`db_pools` one of two writer connections is the publisher's, so a single task that
held one and waited for another would stop everything. A pool of one connection does
starve, the publisher waiting for itself and requests behind it: the configuration
allows it (the default is more), and `SomebodyCanFinish` is violated on that instance.

`CHECK_DEADLOCK FALSE` stands in the cfgs whose bounded run may be over: every event
ended, requests, faults and stops used up, the clock at its bound. `IdentityChannel`
and `DbPool` have no such end and are checked for deadlock.

The three violated runs are disagreements between the code and what its comments
say; `PROJECT.json` quotes both sides. None of them loses an event: a stranded
service delays, the limit is exceeded by the number of racing requests less one, and a
stale channel still holds a certificate that was valid when it was connected. A fourth,
"Only one replica will actively publish at a time" (`publisher.rs:97`), has no run of
its own: `SoleConnectedLeader` says how far it holds, and `DuplicatesNeedFaults` that a
second publisher makes a copy and costs a fault.

### Fairness
- Outbox: a process is restarted by its supervisor; the runtime polls the task, so a
  step that stays possible is taken (weak fairness); PostgreSQL reaps dead sessions.
  `select!` draws among its ready branches at random, so a set token is seen in the
  end although the timer branch is enabled again and again (strong fairness of
  `ObserveCancel`). Nothing is assumed of faults, shutdowns or transactions.
- Verification: the row locks of PostgreSQL are granted to each waiting transaction
  in turn (strong fairness of the steps of `verify_email`). Requests need not arrive.
- IdentityChannel: tasks are polled and tokio's `RwLock` is fair. That an attempt to
  connect ends is an assumption on the peer: the endpoint sets no time-out.

- MailPipeline: members are restarted and go on, the coordinator finds an owner, and
  the provider answers (weak fairness of a member's own steps). No transaction, copy,
  stop or expiry of a key has to happen.
- Credentials: a handler goes on, and PostgreSQL grants a free row lock to one that
  keeps asking (strong fairness of `UpdateHash`).
- GatewaySessions: handlers go on, Kubernetes restarts a process, time passes.
- SigningKeys: main goes on, a process that ended is started again, and PostgreSQL's
  streaming replication goes on.
- DbPool: deadpool serves its queue, statements return, the publisher's timer fires,
  and `select!` does not pass over a set token for ever (strong fairness, as in
  Outbox). Requests, failures, starts and SIGTERM need not come.

`EventuallyPublished` excludes two situations which the code really has: every
publisher stranded (no lock connection, or a start that failed), and as many
unroutable rows as a batch holds. `outbox_stranded` shows the first without the
exception.

## 5. The theorems

All are about `Spec`, for every value of the constants that satisfies the named
assumption of the module (`OutboxAssumption`, `VerificationAssumption`,
`ChannelAssumption`, `ConsumerAssumption`, `PipelineAssumption`,
`CredentialsAssumption`, `SessionsAssumption`, `KeysAssumption`,
`DbPoolAssumption`): finite sets of replicas, events, tokens and requests where they
are counted, positive batch size and limit, markers that are not members of the sets
they stand beside, and clocks that agree up to the leeway (`KeysAssumption`).

**Outbox.** `NoEventLost`, `NoPhantomEvent` and `LeadershipExclusive` follow from
`Invariance` of `OutboxInv`. The properties alone are not inductive: a row is marked
on the strength of a `produce` that happened a step before (`MarkingWasLogged`),
and produced because it was committed when it was fetched (`BatchesAreCommitted`);
a connected leader still owns the lock (`ConnectedLeaderOwnsLock`), which is what
excludes a second one. `OutboxImplementsPromise` shows with the same invariant that
each step is a step of `OutboxPromise` or a stutter of it.

`DuplicatesAreCharged` bounds the copies of a record by 1 + faults for any number of
replicas. The invariant `DuplicatesInv` counts, for each event, the records it has
and the replicas that owe it one (it is in their batch and not produced). While the
event is unpublished, a leader that is about to fetch may come to owe it; records
and possible debts are then at most the faults, and one more only if a connected
publisher is at work on it. Since there is one connected leader at most, each
further publisher has cost a lost connection. Once the event is published, nobody
can fetch it again, and only the debts of running batches count.

`RecordsAreOrdered` proves `OrderedWithoutFaults` from `OrderInv`. Beginnings and
commits are numbered without gaps (`Numbered`), and while there are no faults the
publishers are in step (`Steady`): one of them is at work at most, everything in the
topic is marked but for the record it is about to mark, its batch is in the order of
`created_at`, and a row that is neither in the topic nor in the batch either began
later than those in the batch or was committed after the fetch. A record that is
produced therefore comes before nothing that should have preceded it.

**Verification.** `VerificationInv` adds to the properties that a request between
`consume_token` and its commit holds the lock of a token nobody has consumed, that
a token is verified as often as it is consumed, and that the rows a request works
on exist. For the rate limit, requests that have passed the check count as if they
had inserted already (`LimitWithCounted`); the last one that passed saw fewer than
the limit, and at most all other requests had passed before it.

`VerificationsWaitInOrder` is the safety behind `VerificationsEnd`. `LocksOfTransactions`:
a lock is held by a request that is past the statement that takes it and has not
committed, so none outlives its request. `NoCircularWait` follows: the transaction
updates the token and then the user, so that whoever holds the row another waits for has
fewer statements left than the one that waits, and a circle would have to get shorter
all the way round. The order of the two updates is all it rests on.

`MailsEndWithActivation` is about `resend_verification` and `verify_email` of one user
overlapping. The status is read two statements before the insertion, so a token may well
be inserted for a user who has just become active. `NoMailsOnceActive` says how many:
the tokens of an active user and the resends that saw them pending never become more
together, as an insertion turns one of the second into one of the first.

**IdentityChannel.** `ChannelInv`: `created_seq` never promises more than the
connection has (`RecordIsHonest`), unless `new` recorded a rotation it had missed
and nothing was rebuilt since; and a connection about to be stored is at least as
fresh as the record and as what every reader counts on (`BuildsForward`). So every
way out of `client()` returns a connection as fresh as the sequence it read
(`ClientsAreFresh`), although a late task may store an older sequence. `OneCallBuilds`
adds that the write guard and the tasks that build agree (`LockIsOfTheBuilder`): of
the calls that see a rotation at once one connects, and a dropped future or a failed
`connect` leaves the lock free.

**MailPipeline.** `PipelineInv`: the topic holds committed events
(`LoggedWasAccepted`), the owner of the partition has handled all it has passed since
the group began (`OwnerPassedHandled`), an answer tells what happened to the record
in hand (`AnswerIsTrue`), and a remembered key was mailed. `NoRecordSkipped` is not
inductive without the second: the offset is committed from the owner's position, and
a member that lost the partition may stand anywhere but may not commit. With the
first each step is one of `MailPromise` or a stutter, so the refinement is proved too.
`MailsAreCharged` counts mails: the inductive `MailBudget` says that the mails of an
event are at most the forgotten keys, and one more while the provider still remembers
the key of this one.

**Platform.** Three steps. The lemma `PlatformIsOutbox` bridges the modules: a step of the
consumers leaves the outbox alone by the way `PlatformNext` is written, so `OutboxInv`
holds here. `PlatformIsPipeline`: with `OutboxInv`, each step of
the publishers is a step of `OutboxPromise` (`PromiseStep`, the core of
`OutboxImplementsPromise`) and, restricted to routable events, one of the pipeline's
outbox or nothing at all; so the composed system is a pipeline. `SamePipeline` lets the theorems of
`MailPipelineProofs`, stated of their own module, speak of it. From there
`PlatformSkipsNothing`, `PlatformMailsAreCharged` and `PlatformKeepsMailPromise` need
nothing about either service. Two theorems join state of both:
`MailsTellTheTruth` (a mail is of a transaction that committed and did not roll back;
`EndedOnce` is the lemma that a transaction does one or the other) and
`NothingFallsBetween` (once `published_at` is set, which nothing ever undoes, the record
was handled, or is still to come, or lies before the offset the group began at; the last
is what `fromBeginning: false` costs). They hold under `OutboxAssumption` and
`MailAssumption`, the assumptions of the two services on their parameters.

**Credentials.** `CredentialsInv`: a request knows a version of the row between its
arrival and now, which has the offered password once it is past `Verify` and was
active if it signs (`RequestsKnowTheRow`); a transaction holds its row or the user is
deleted (`LockedOrDeleted`), which is what ties events to changes; and between two
versions with different passwords lies a recorded change (`PasswordsChangeByChanges`),
from which `ChangesProvePassword` gets the change it promises.

**SigningKeys.** `KeysInv`: keys are of their maker's KEK, once there is one an
active one remains, and a replica about to insert has none yet (`KeysStay`); a token's
times are those of one clock (`TokensDated`), so two clocks within the leeway agree on
it. A replica never inserts twice because a key of its own keeps the count above zero.
`ServingReplicasSign` (`ServingCanSign`) records what `ensure_signing_key` leaves open: a
serving replica can sign unless the newest key was made under another KEK.

**GatewaySessions.** `SessionsInv`: rows are of logins, one each, and an ended token
never comes back (`RowsOfLogins`); a request that has read a session, or stores one,
carries one of its own browser, and no two requests store the same
(`RequestsKnowTheirSession`, `StoresApart`). `SessionsAreKept` proves the action
property `SessionsLast` from it. `OrphansAreCharged` proves `OrphansNeedFailures`: what
the rows and `ended` know of tokens only grows, so a login becomes an orphan only where
identity's answer is lost or a request stops storing; that is `create_session` without a
table, a failure, or the end of the process. A drain waits for its requests and is none of
these; serve_tls at SIGTERM is.

**DbPool.** `PoolInv`: whoever holds a connection or stands in a queue is a task whose
next statements are on that pool (`NoLeak`), a publisher past its start holds its
`leader_obj` (`PublisherKeeps`), and publisher and requests end in order (`InOrder`).
`NoStarvation`, for a writer pool of two connections or more: if the pool is used up,
one of its connections is not the publisher's kept one, and its holder, being entitled
to one pool at a time, waits nowhere. The proof reduces each action to one of four
effects on the pools (get, grant, failure at the head, release).
`ConnectionsComeBack` proves `StopsEmptyHanded` from the same invariant: the publisher is
cancelled only once the requests have been drained, so when it has stopped nobody holds a
connection.

### Only model-checked
Liveness under fairness is outside the proof system's reach:
`EventuallyPublished`, `ShutdownCompletes`, `VerificationsEnd`, `CallsEnd`,
`Settles`, `EventuallyHandled`, `RequestsEnd`, `TableReturns`, `SessionsExpire`,
`EventuallyServing`, `ReadersCatchUp`, `RequestsFinish`, `DrainEnds`. Every invariant and
every action property of the passing runs is proved.

Some properties are theorems only, because a run would add nothing to the proof: the
type invariants of all components but `Outbox`, `LoggedWasCommitted` (which
`ImplementsPromise`, checked, implies), `MailsAreBacked` (the count of mails that
`ImplementsMailPromise`, checked, stands on), `LockIsOfTheBuilder`, `ServingCanSign`, the
action property `SessionsLast`, and what is said of `Platform`.

## 6. What the models assume
PostgreSQL runs READ COMMITTED, an `UPDATE` rechecks its condition after a wait, and
an advisory lock dies with its session. The broker keeps what it acknowledged, and
Kafka's coordinator refuses the commit of a member that lost its partition. The
provider mails an idempotency key it remembers no second time. ScyllaDB's statements
are atomic and seen by every replica. A read replica applies the writer's states in
their order. A user, a token or a session is a fresh value. Clocks are one clock but
in `SigningKeys`, and in `Verification` `late` is the only way an expiry falls behind
it. In `Outbox` a connection is always to be had; `DbPool` shows that it is, in the
end, with two or more.
