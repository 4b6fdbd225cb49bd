--------------------------- MODULE OutboxProofs ----------------------------
(***************************************************************************)
(* Theorems about the outbox for any number of replicas, events and        *)
(* faults, with proofs checked by TLAPS: the inductive invariant and the   *)
(* safety properties that follow from it, the implementation of            *)
(* OutboxPromise, the bound on repeated records (DuplicatesNeedFaults),    *)
(* and the order of records (OrderedWithoutFaults).  The last part is      *)
(* about module Platform, the outbox with its consumers: there the         *)
(* theorems of MailPipelineProofs hold without its assumption on the       *)
(* outbox, because the first part has proved it.                           *)
(***************************************************************************)
EXTENDS Platform, FiniteSetTheorems, TLAPS

(* Facts about the operators. *)

(* A count of events is a natural number, so the next position in an order
   of transactions is one too. *)
LEMMA CountIsNat ==
    ASSUME NEW S, S \subseteq Event
    PROVE  Cardinality(S) \in Nat
BY OutboxAssumption, FS_Subset, FS_CardinalityType

(* The LIMIT of the query. *)
LEMMA MinIsNat ==
    ASSUME NEW a \in Nat, NEW b \in Nat
    PROVE  Min({a, b}) \in Nat
<1>1. \E x \in {a, b} : \A y \in {a, b} : x <= y
  <2>1. CASE a <= b BY <2>1
  <2>2. CASE b <= a BY <2>2
  <2>3. QED BY <2>1, <2>2
<1>2. QED BY <1>1 DEF Min

(* Whatever fetch_unpublished returns is a sequence of committed events. *)
LEMMA AnswersAreCommitted ==
    ASSUME NEW b \in Answers
    PROVE  /\ b \in Seq(Event)
           /\ \A i \in DOMAIN b : b[i] \in Committed
<1> DEFINE n == Min({BatchSize, Cardinality(Unpublished)})
<1>1. n \in Nat
  <2>1. Cardinality(Unpublished) \in Nat BY CountIsNat DEF Unpublished, Committed
  <2>2. QED BY <2>1, MinIsNat, OutboxAssumption
<1>2. b \in [1..n -> Unpublished] BY DEF Answers
<1> HIDE DEF n
<1>3. QED BY <1>1, <1>2 DEF Unpublished, Committed

(* Dropping the head of a batch, at the end of a turn of the loop. *)
LEMMA NextEventTyped ==
    ASSUME TypeOK, NEW r \in Replica, pc[r] \in {"produce", "mark"}, NextEvent(r)
    PROVE  /\ pc' \in [Replica -> PC]
           /\ batch' \in [Replica -> Seq(Event)]
           /\ \A s \in Replica : pc'[s] \in {"produce", "mark"} => batch'[s] # <<>>
<1>1. batch[r] \in Seq(Event) /\ batch[r] # <<>> BY DEF TypeOK
<1>2. Tail(batch[r]) \in Seq(Event) /\ Head(batch[r]) \in Event BY <1>1
<1>3. QED BY <1>2 DEF NextEvent, Goto, TypeOK, PC, Looping

(* A publisher that is producing or marking has an event in hand. *)
LEMMA HeadIsEvent ==
    ASSUME TypeOK, NEW r \in Replica, pc[r] \in {"produce", "mark"}
    PROVE  Head(batch[r]) \in Event
<1>1. batch[r] \in Seq(Event) /\ batch[r] # <<>> BY DEF TypeOK
<1>2. QED BY <1>1

(* A fault is charged within the bound. *)
LEMMA FaultTyped ==
    ASSUME TypeOK, Fault
    PROVE  faults' \in 0..MaxFaults /\ shutdowns' \in 0..MaxShutdowns
BY OutboxAssumption DEF TypeOK, Fault

-----------------------------------------------------------------------------
(* Type correctness: every variable of the outbox keeps its type, and a
   publisher that is producing or marking has an event in hand. *)
LEMMA TypeStep == TypeOK /\ [Next]_vars => TypeOK'
<1> SUFFICES ASSUME TypeOK, [Next]_vars PROVE TypeOK' OBVIOUS
<1> USE DEF TypeOK
<1>1. ASSUME NEW e \in Event, Begin(e) PROVE TypeOK'
  <2>1. Cardinality({d \in Event : createdAt[d] > 0}) \in Nat BY CountIsNat
  <2>2. QED BY <1>1, <2>1 DEF Begin, publisher, budget
<1>2. ASSUME NEW e \in Event, Commit(e) PROVE TypeOK'
  <2>1. Cardinality(Committed) \in Nat BY CountIsNat DEF Committed
  <2>2. QED BY <1>2, <2>1 DEF Commit, publisher, budget
<1>3. ASSUME NEW e \in Event, Rollback(e) PROVE TypeOK'
  BY <1>3 DEF Rollback, publisher, budget
<1>4. ASSUME NEW r \in Replica, Spawn(r) PROVE TypeOK'
  BY <1>4 DEF Spawn, Goto, PC, Looping, table, budget
<1>5. ASSUME NEW r \in Replica, SpawnFails(r) PROVE TypeOK'
  BY <1>5, FaultTyped DEF SpawnFails, Goto, PC, Looping, table
<1>6. ASSUME NEW r \in Replica, TryAcquireLeaderLock(r) PROVE TypeOK'
  BY <1>6 DEF TryAcquireLeaderLock, Goto, PC, Looping, table, budget
<1>7. ASSUME NEW r \in Replica, PollWithoutLock(r) PROVE TypeOK'
  BY <1>7 DEF PollWithoutLock, vars, table, publisher, budget
<1>8. ASSUME NEW r \in Replica, FetchUnpublished(r) PROVE TypeOK'
  <2>1. PICK b \in Answers : Goto(r, IF b = <<>> THEN "sleep" ELSE "produce", b)
    BY <1>8 DEF FetchUnpublished
  <2>2. b \in Seq(Event) BY AnswersAreCommitted
  <2>3. QED BY <1>8, <2>1, <2>2 DEF FetchUnpublished, Goto, PC, Looping, table, budget
<1>9. ASSUME NEW r \in Replica, FetchFails(r) PROVE TypeOK'
  BY <1>9, FaultTyped DEF FetchFails, Goto, PC, Looping, table
<1>10. ASSUME NEW r \in Replica, SkipUnknown(r) PROVE TypeOK'
  BY <1>10, NextEventTyped DEF SkipUnknown, table, budget
<1>11. ASSUME NEW r \in Replica, Produce(r) PROVE TypeOK'
  <2>1. Head(batch[r]) \in Event BY <1>11, HeadIsEvent DEF Produce
  <2>2. log' \in Seq(Event) BY <1>11, <2>1 DEF Produce
  <2>3. QED BY <1>11, <2>2 DEF Produce, Goto, PC, Looping, table, budget
<1>12. ASSUME NEW r \in Replica, ProduceFails(r) PROVE TypeOK'
  <2>1. Head(batch[r]) \in Event BY <1>12, HeadIsEvent DEF ProduceFails
  <2>2. Append(log, Head(batch[r])) \in Seq(Event) BY <2>1
  <2>3. log' \in Seq(Event) BY <1>12, <2>2 DEF ProduceFails
  <2>4. QED BY <1>12, <2>3, FaultTyped DEF ProduceFails, Goto, PC, Looping, table
<1>13. ASSUME NEW r \in Replica, MarkPublished(r) PROVE TypeOK'
  <2>1. Head(batch[r]) \in Event BY <1>13, HeadIsEvent DEF MarkPublished
  <2>2. QED BY <1>13, <2>1, NextEventTyped DEF MarkPublished, table, budget
<1>14. ASSUME NEW r \in Replica, MarkFails(r) PROVE TypeOK'
  <2>1. Head(batch[r]) \in Event BY <1>14, HeadIsEvent DEF MarkFails
  <2>2. QED BY <1>14, <2>1, NextEventTyped, FaultTyped DEF MarkFails, table
<1>15. ASSUME NEW r \in Replica, Shutdown(r) PROVE TypeOK'
  BY <1>15, OutboxAssumption DEF Shutdown, table
<1>16. ASSUME NEW r \in Replica, ObserveCancel(r) PROVE TypeOK'
  BY <1>16 DEF ObserveCancel, Goto, PC, Looping, table, budget
<1>17. ASSUME NEW r \in Replica, Exit(r) PROVE TypeOK'
  BY <1>17 DEF Exit, Goto, OrphanLockOf, PC, Looping, table, budget
<1>18. ASSUME NEW r \in Replica, Crash(r) PROVE TypeOK'
  BY <1>18, FaultTyped DEF Crash, Goto, OrphanLockOf, PC, Looping, table
<1>19. ASSUME NEW r \in Replica, LoseLockConnection(r) PROVE TypeOK'
  BY <1>19, FaultTyped DEF LoseLockConnection, OrphanLockOf, table
<1>20. ASSUME ReleaseOrphanLock PROVE TypeOK'
  BY <1>20 DEF ReleaseOrphanLock, table, publisher, budget
<1>21. ASSUME UNCHANGED vars PROVE TypeOK'
  BY <1>21 DEF vars, table, publisher, budget
<1>22. QED
  BY <1>1, <1>2, <1>3, <1>4, <1>5, <1>6, <1>7, <1>8, <1>9, <1>10, <1>11, <1>12, <1>13,
     <1>14, <1>15, <1>16, <1>17, <1>18, <1>19, <1>20, <1>21
  DEF Next, Transactions, Publish, Failure

(* A fresh database and replicas that have not started have their types. *)
LEMMA TypeInit == Init => TypeOK
BY OutboxAssumption DEF Init, TypeOK, PC

(* The table, the lock, the topic and every publisher keep their types. *)
THEOREM TypeCorrect == Spec => []TypeOK
<1>1. QED BY TypeInit, TypeStep, PTL DEF Spec

-----------------------------------------------------------------------------
(* Safety. *)

(* A new record adds its event to the topic and takes none away. *)
LEMMA LogAppend ==
    ASSUME TypeOK, NEW e \in Event, log' = Append(log, e)
    PROVE  Logged' = Logged \cup {e}
<1>1. log \in Seq(Event) BY DEF TypeOK
<1>2. /\ DOMAIN log' = 1..Len(log) + 1
      /\ \A i \in 1..Len(log) : log'[i] = log[i]
      /\ log'[Len(log) + 1] = e
      /\ DOMAIN log = 1..Len(log)
      /\ Len(log) \in Nat
  BY <1>1
<1>3. QED BY <1>2 DEF Logged

(* A failed produce adds at most its own event. *)
LEMMA LogMaybeAppend ==
    ASSUME TypeOK, NEW e \in Event, log' \in {log, Append(log, e)}
    PROVE  Logged \subseteq Logged' /\ Logged' \subseteq Logged \cup {e}
<1>1. CASE log' = log BY <1>1 DEF Logged
<1>2. CASE log' = Append(log, e) BY <1>2, LogAppend
<1>3. QED BY <1>1, <1>2

(* What is left of a batch at the end of a turn of the loop is committed. *)
LEMMA TailOfCommitted ==
    ASSUME TypeOK, BatchesAreCommitted, NEW r \in Replica,
           pc[r] \in {"produce", "mark"}
    PROVE  /\ Head(batch[r]) \in Committed
           /\ \A i \in DOMAIN Tail(batch[r]) : Tail(batch[r])[i] \in Committed
<1>1. batch[r] \in Seq(Event) /\ batch[r] # <<>> BY DEF TypeOK
<1>2. Head(batch[r]) = batch[r][1] /\ 1 \in DOMAIN batch[r] BY <1>1
<1>3. \A i \in DOMAIN Tail(batch[r]) :
          i + 1 \in DOMAIN batch[r] /\ Tail(batch[r])[i] = batch[r][i + 1]
  BY <1>1
<1>4. QED BY <1>2, <1>3 DEF BatchesAreCommitted

(* What holds of the topic goes on holding while nothing happens to it. *)
LEMMA SameRecords ==
    ASSUME PublishedWasLogged, LoggedWasCommitted, UNCHANGED <<committedAt, published, log>>
    PROVE  PublishedWasLogged' /\ LoggedWasCommitted'
<1>1. Logged' = Logged /\ Committed' = Committed BY DEF Logged, Committed
<1>2. QED BY <1>1 DEF PublishedWasLogged, LoggedWasCommitted

(* What a replica leaves true that goes on with a batch of committed events, to
   the next of them if it was the leader already. *)
LEMMA GotoSafe ==
    ASSUME OutboxInv, NEW r \in Replica, NEW p \in {"sleep", "produce", "ended"},
           p = "produce" => pc[r] \in {"fetch", "produce", "mark"}, NEW b, \A i \in DOMAIN b : b[i] \in Committed,
           Goto(r, p, b), UNCHANGED <<committedAt, lockOwner, log, connected>>
    PROVE  /\ BatchesAreCommitted'
           /\ MarkingWasLogged'
           /\ ConnectedLeaderOwnsLock'
<1> USE DEF OutboxInv
<1>1. /\ pc'[r] = p /\ batch'[r] = b
      /\ \A s \in Replica \ {r} : pc'[s] = pc[s] /\ batch'[s] = batch[s]
  BY DEF Goto, TypeOK
<1>2. Committed' = Committed /\ Logged' = Logged BY DEF Committed, Logged
<1>3. BatchesAreCommitted' BY <1>1, <1>2 DEF BatchesAreCommitted
<1>4. MarkingWasLogged' BY <1>1, <1>2 DEF MarkingWasLogged
<1>5. ConnectedLeaderOwnsLock' BY <1>1 DEF ConnectedLeaderOwnsLock, Leading
<1>6. QED BY <1>3, <1>4, <1>5

(* What a turn of the loop that ends without a new record leaves true. *)
LEMMA NextEventSafe ==
    ASSUME OutboxInv, NEW r \in Replica, pc[r] \in {"produce", "mark"}, NextEvent(r),
           UNCHANGED <<table, lockOwner, log, connected>>
    PROVE  /\ BatchesAreCommitted'
           /\ MarkingWasLogged'
           /\ ConnectedLeaderOwnsLock'
<1>1. \A i \in DOMAIN Tail(batch[r]) : Tail(batch[r])[i] \in Committed
  BY TailOfCommitted DEF OutboxInv
<1>2. UNCHANGED <<committedAt, lockOwner, log, connected>> BY DEF table
<1>3. QED BY <1>1, <1>2, GotoSafe DEF NextEvent

(* Every step of transactions, publishers and failures preserves the inductive
   invariant. *)
LEMMA InvStep == OutboxInv /\ [Next]_vars => OutboxInv'
<1> SUFFICES ASSUME OutboxInv, [Next]_vars PROVE OutboxInv' OBVIOUS
<1> DEFINE Safe == /\ PublishedWasLogged
                   /\ LoggedWasCommitted
                   /\ BatchesAreCommitted
                   /\ MarkingWasLogged
                   /\ ConnectedLeaderOwnsLock
<1>0. TypeOK /\ TypeOK' /\ Safe BY TypeStep DEF OutboxInv
<1> USE DEF PublishedWasLogged, LoggedWasCommitted, BatchesAreCommitted,
            MarkingWasLogged, ConnectedLeaderOwnsLock, Leading, Committed, Logged,
            TypeOK, table, budget, publisher, Goto
<1>1. ASSUME NEW e \in Event, Begin(e) PROVE Safe'
  BY <1>0, <1>1 DEF Begin
<1>2. ASSUME NEW e \in Event, Commit(e) PROVE Safe'
  <2>1. Cardinality(Committed) \in Nat BY CountIsNat
  <2>2. \A d \in Event : committedAt[d] > 0 => committedAt'[d] > 0
    BY <1>0, <1>2, <2>1 DEF Commit
  <2>3. QED BY <1>0, <1>2, <2>2 DEF Commit
<1>3. ASSUME NEW e \in Event, Rollback(e) PROVE Safe'
  BY <1>0, <1>3 DEF Rollback
<1>4. ASSUME NEW r \in Replica, Spawn(r) PROVE Safe'
  BY <1>0, <1>4 DEF Spawn
<1>5. ASSUME NEW r \in Replica, SpawnFails(r) PROVE Safe'
  <2>1. UNCHANGED <<committedAt, published, lockOwner, log, connected>> /\ Goto(r, "ended", <<>>)
    BY <1>5 DEF SpawnFails
  <2>2. BatchesAreCommitted' /\ MarkingWasLogged' /\ ConnectedLeaderOwnsLock'
    <3> HIDE DEF Goto, BatchesAreCommitted, MarkingWasLogged, ConnectedLeaderOwnsLock
    <3>1. OutboxInv OBVIOUS
    <3>2. QED BY <2>1, <3>1, GotoSafe
  <2>3. PublishedWasLogged' /\ LoggedWasCommitted' BY <2>1, <1>0, SameRecords
  <2>4. QED BY <2>2, <2>3
<1>6. ASSUME NEW r \in Replica, TryAcquireLeaderLock(r) PROVE Safe'
  <2>1. /\ lockOwner \in {Free, r} /\ lockOwner' = r /\ UNCHANGED <<connected, table, published, log>>
        /\ pc' = [pc EXCEPT ![r] = "fetch"] /\ batch' = [batch EXCEPT ![r] = batch[r]]
    BY <1>6 DEF TryAcquireLeaderLock, LockGranted
  <2>2. batch' = batch BY <1>0, <2>1
  <2>3. ASSUME NEW s \in Replica, s # r PROVE pc'[s] = pc[s] /\ lockOwner # s
    BY <1>0, <2>1, <2>3, OutboxAssumption
  <2>4. ConnectedLeaderOwnsLock' BY <1>0, <2>1, <2>3
  <2>5. PublishedWasLogged' /\ LoggedWasCommitted' /\ BatchesAreCommitted' /\ MarkingWasLogged'
    BY <1>0, <2>1, <2>2
  <2>6. QED BY <2>4, <2>5
<1>7. ASSUME NEW r \in Replica, PollWithoutLock(r) PROVE Safe'
  BY <1>0, <1>7 DEF PollWithoutLock, vars
<1>8. ASSUME NEW r \in Replica, FetchUnpublished(r) PROVE Safe'
  <2>1. PICK b \in Answers : Goto(r, IF b = <<>> THEN "sleep" ELSE "produce", b)
    BY <1>8 DEF FetchUnpublished
  <2>2. \A i \in DOMAIN b : b[i] \in Committed BY AnswersAreCommitted
  <2>3. UNCHANGED <<committedAt, published, lockOwner, log, connected>> /\ pc[r] = "fetch"
    BY <1>8 DEF FetchUnpublished
  <2>4. BatchesAreCommitted' /\ MarkingWasLogged' /\ ConnectedLeaderOwnsLock'
    <3> HIDE DEF Goto, BatchesAreCommitted, MarkingWasLogged, ConnectedLeaderOwnsLock
    <3>1. OutboxInv OBVIOUS
    <3>2. QED BY <2>1, <2>2, <2>3, <3>1, GotoSafe
  <2>5. PublishedWasLogged' /\ LoggedWasCommitted' BY <1>0, <2>3, SameRecords
  <2>6. QED BY <2>4, <2>5
<1>9. ASSUME NEW r \in Replica, FetchFails(r) PROVE Safe'
  BY <1>0, <1>9 DEF FetchFails
<1>10. ASSUME NEW r \in Replica, SkipUnknown(r) PROVE Safe'
  <2>1. PublishedWasLogged' /\ LoggedWasCommitted' BY <1>0, <1>10 DEF SkipUnknown
  <2>2. QED BY <2>1, <1>10, NextEventSafe DEF SkipUnknown, OutboxInv
<1>11. ASSUME NEW r \in Replica, Produce(r) PROVE Safe'
  <2>1. Head(batch[r]) \in Event BY <1>0, <1>11, HeadIsEvent DEF Produce
  <2>2. Logged' = Logged \cup {Head(batch[r])} BY <1>0, <1>11, <2>1, LogAppend DEF Produce
  <2>3. Head(batch[r]) \in Committed BY <1>0, <1>11, TailOfCommitted DEF Produce
  <2>4. QED BY <1>0, <1>11, <2>2, <2>3 DEF Produce
<1>12. ASSUME NEW r \in Replica, ProduceFails(r) PROVE Safe'
  <2>1. Head(batch[r]) \in Event BY <1>0, <1>12, HeadIsEvent DEF ProduceFails
  <2>2. Logged \subseteq Logged' /\ Logged' \subseteq Logged \cup {Head(batch[r])}
    BY <1>0, <1>12, <2>1, LogMaybeAppend DEF ProduceFails
  <2>3. Head(batch[r]) \in Committed BY <1>0, <1>12, TailOfCommitted DEF ProduceFails
  <2>4. PublishedWasLogged' BY <1>0, <1>12, <2>2 DEF ProduceFails
  <2>5. LoggedWasCommitted' BY <1>0, <1>12, <2>2, <2>3 DEF ProduceFails
  <2>6. MarkingWasLogged' BY <1>0, <1>12, <2>2 DEF ProduceFails
  <2>7. BatchesAreCommitted' /\ ConnectedLeaderOwnsLock' BY <1>0, <1>12 DEF ProduceFails
  <2>8. QED BY <2>4, <2>5, <2>6, <2>7
<1>13. ASSUME NEW r \in Replica, MarkPublished(r) PROVE Safe'
  <2>1. published' = published \cup {Head(batch[r])} /\ pc[r] = "mark" /\ UNCHANGED <<log, committedAt>>
    BY <1>13 DEF MarkPublished, table
  <2>2. Head(batch[r]) \in Logged BY <2>1 DEF OutboxInv, MarkingWasLogged
  <2>3. PublishedWasLogged' BY <2>1, <2>2 DEF OutboxInv, PublishedWasLogged, Logged
  <2>4. LoggedWasCommitted' BY <2>1 DEF OutboxInv, LoggedWasCommitted, Logged, Committed
  <2>5. QED BY <2>3, <2>4, <1>13, NextEventSafe DEF MarkPublished, OutboxInv
<1>14. ASSUME NEW r \in Replica, MarkFails(r) PROVE Safe'
  <2>1. published' \subseteq published \cup {Head(batch[r])} /\ pc[r] = "mark" /\ UNCHANGED <<log, committedAt>>
    BY <1>14 DEF MarkFails, table
  <2>2. Head(batch[r]) \in Logged BY <2>1 DEF OutboxInv, MarkingWasLogged
  <2>3. PublishedWasLogged' BY <2>1, <2>2 DEF OutboxInv, PublishedWasLogged, Logged
  <2>4. LoggedWasCommitted' BY <2>1 DEF OutboxInv, LoggedWasCommitted, Logged, Committed
  <2>5. QED BY <2>3, <2>4, <1>14, NextEventSafe DEF MarkFails, OutboxInv
<1>15. ASSUME NEW r \in Replica, Shutdown(r) PROVE Safe'
  BY <1>0, <1>15 DEF Shutdown
<1>16. ASSUME NEW r \in Replica, ObserveCancel(r) PROVE Safe'
  BY <1>0, <1>16 DEF ObserveCancel
<1>17. ASSUME NEW r \in Replica, Exit(r) PROVE Safe'
  BY <1>0, <1>17 DEF Exit, OrphanLockOf
<1>18. ASSUME NEW r \in Replica, Crash(r) PROVE Safe'
  BY <1>0, <1>18 DEF Crash, OrphanLockOf
<1>19. ASSUME NEW r \in Replica, LoseLockConnection(r) PROVE Safe'
  BY <1>0, <1>19 DEF LoseLockConnection, OrphanLockOf
<1>20. ASSUME ReleaseOrphanLock PROVE Safe'
  BY <1>0, <1>20, OutboxAssumption DEF ReleaseOrphanLock
<1>21. ASSUME UNCHANGED vars PROVE Safe'
  BY <1>0, <1>21 DEF vars
<1>22. Safe'
  BY <1>1, <1>2, <1>3, <1>4, <1>5, <1>6, <1>7, <1>8, <1>9, <1>10, <1>11, <1>12, <1>13,
     <1>14, <1>15, <1>16, <1>17, <1>18, <1>19, <1>20, <1>21
  DEF Next, Transactions, Publish, Failure
<1>23. QED BY <1>0, <1>22 DEF OutboxInv

(* The inductive invariant holds of an empty table and topic. *)
LEMMA InvInit == Init => OutboxInv
BY TypeInit DEF Init, OutboxInv, PublishedWasLogged, LoggedWasCommitted, Logged,
    BatchesAreCommitted, MarkingWasLogged, ConnectedLeaderOwnsLock, Leading

(* The inductive invariant holds always: batches hold committed rows, what is
   being marked is in the topic, and a connected leader owns the lock. *)
THEOREM Invariance == Spec => []OutboxInv
<1>1. QED BY InvInit, InvStep, PTL DEF Spec

(* mark_published never hides a row that has no record in Kafka: no event is
   lost, whatever fails and however many replicas publish at once. *)
THEOREM NoEventLost == Spec => []PublishedWasLogged
<1>1. OutboxInv => PublishedWasLogged BY DEF OutboxInv
<1>2. QED BY Invariance, <1>1, PTL

(* The topic holds events of committed transactions only. *)
THEOREM NoPhantomEvent == Spec => []LoggedWasCommitted
<1>1. OutboxInv => LoggedWasCommitted BY DEF OutboxInv
<1>2. QED BY Invariance, <1>1, PTL

(* The advisory lock excludes two leaders whose lock connections both work. *)
THEOREM LeadershipExclusive == Spec => []SoleConnectedLeader
<1>1. OutboxInv => SoleConnectedLeader
  BY DEF OutboxInv, SoleConnectedLeader, ConnectedLeaderOwnsLock
<1>2. QED BY Invariance, <1>1, PTL

-----------------------------------------------------------------------------
(* Implementation of OutboxPromise. *)

(* An empty outbox is an empty promise. *)
LEMMA PromiseInit == Init => Promise!Init
BY DEF Init, Promise!Init, Committed

(* Every step of the table and the publishers is a step of the promise or
   leaves it alone. *)
LEMMA PromiseStep == OutboxInv /\ [Next]_vars => [Promise!Next]_(Promise!vars)
<1> SUFFICES ASSUME OutboxInv, [Next]_vars PROVE [Promise!Next]_(Promise!vars) OBVIOUS
<1> DEFINE Quiet == UNCHANGED <<committedAt, log, published>>
<1>0. TypeOK /\ BatchesAreCommitted /\ MarkingWasLogged BY DEF OutboxInv
<1>1. ASSUME Quiet PROVE UNCHANGED Promise!vars
  BY <1>1 DEF Promise!vars, Committed
<1>2. ASSUME NEW e \in Event, Begin(e) \/ Rollback(e) PROVE Quiet
  BY <1>2 DEF Begin, Rollback
<1>3. ASSUME NEW e \in Event, Commit(e) PROVE Promise!Next
  <2>1. 1 + Cardinality(Committed) > 0 BY CountIsNat DEF Committed
  <2>2. committedAt \in [Event -> Nat] BY <1>0 DEF TypeOK
  <2>3. committedAt' = [committedAt EXCEPT ![e] = 1 + Cardinality(Committed)] BY <1>3 DEF Commit
  <2>4. e \notin Committed BY <1>3 DEF Commit, Open, Committed
  <2>5. \A d \in Event : committedAt'[d] > 0 <=> d = e \/ committedAt[d] > 0
    BY <2>1, <2>2, <2>3
  <2>6. Committed' = Committed \cup {e} BY <2>5 DEF Committed
  <2>7. Promise!Accept(e) BY <1>3, <2>4, <2>6 DEF Commit, Promise!Accept
  <2>8. QED BY <2>7 DEF Promise!Next
<1>4. ASSUME NEW r \in Replica,
             \/ Spawn(r) \/ SpawnFails(r) \/ TryAcquireLeaderLock(r) \/ PollWithoutLock(r)
             \/ FetchUnpublished(r) \/ FetchFails(r) \/ SkipUnknown(r) \/ Shutdown(r)
             \/ ObserveCancel(r) \/ Exit(r) \/ Crash(r) \/ LoseLockConnection(r)
      PROVE  Quiet
  BY <1>4 DEF Spawn, SpawnFails, TryAcquireLeaderLock, PollWithoutLock, FetchUnpublished,
      FetchFails, SkipUnknown, Shutdown, ObserveCancel, Exit, Crash, LoseLockConnection,
      table, vars
<1>5. ASSUME NEW r \in Replica, Produce(r) \/ ProduceFails(r)
      PROVE  Quiet \/ Promise!Next
  <2> DEFINE e == Head(batch[r])
  <2>1. e \in Event /\ e \in Committed /\ e \in Routable
    BY <1>0, <1>5, HeadIsEvent, TailOfCommitted DEF Produce, ProduceFails
  <2>2. UNCHANGED <<committedAt, published>> /\ log' \in {log, Append(log, e)}
    BY <1>5 DEF Produce, ProduceFails, table
  <2>3. CASE log' = Append(log, e)
    <3>1. Committed' = Committed BY <2>2 DEF Committed
    <3>2. Promise!Deliver(e) BY <2>1, <2>2, <2>3, <3>1 DEF Promise!Deliver
    <3>3. QED BY <2>1, <3>2 DEF Promise!Next
  <2>4. CASE log' = log BY <2>2, <2>4
  <2>5. QED BY <2>2, <2>3, <2>4
<1>6. ASSUME NEW r \in Replica, MarkPublished(r) \/ MarkFails(r)
      PROVE  Quiet \/ Promise!Next
  <2> DEFINE e == Head(batch[r])
  <2>1. e \in Event /\ e \in Logged
    BY <1>0, <1>6, HeadIsEvent DEF MarkPublished, MarkFails, MarkingWasLogged
  <2>2. UNCHANGED <<committedAt, log>> /\ published' \in {published, published \cup {e}}
    BY <1>6 DEF MarkPublished, MarkFails, table
  <2>3. CASE published' = published \cup {e}
    <3>1. Committed' = Committed BY <2>2 DEF Committed
    <3>2. Promise!Settle(e)
      BY <2>1, <2>2, <2>3, <3>1 DEF Promise!Settle, Promise!Logged, Logged
    <3>3. QED BY <2>1, <3>2 DEF Promise!Next
  <2>4. CASE published' = published BY <2>2, <2>4
  <2>5. QED BY <2>2, <2>3, <2>4
<1>7. ASSUME ReleaseOrphanLock \/ UNCHANGED vars PROVE Quiet
  BY <1>7 DEF ReleaseOrphanLock, vars, table
<1>8. QED
  BY <1>1, <1>2, <1>3, <1>4, <1>5, <1>6, <1>7 DEF Next, Transactions, Publish, Failure

(* Whatever the number of replicas and faults, the outbox delivers committed
   routable events only, and settles only what it delivered. *)
THEOREM OutboxImplementsPromise == Spec => ImplementsPromise
<1>1. QED
  BY PromiseInit, PromiseStep, Invariance, PTL DEF Spec, ImplementsPromise, Promise!Spec

-----------------------------------------------------------------------------
(***************************************************************************)
(* Repeated records.                                                       *)
(*                                                                         *)
(* For an unpublished event, count its records and the replicas that may   *)
(* still produce it.  Taking the lock adds one to the count and makes a    *)
(* connected leader of the replica; nobody else was one.  A step without a *)
(* fault that takes this leader away from the event takes one from the     *)
(* count as well.  So the count is paid for by faults and by the leader.   *)
(***************************************************************************)

Weight(e) == Cardinality(Copies(e)) + Cardinality(MayOwe(e))
Debt(e) == Cardinality(Copies(e)) + Cardinality(Owing(e))

-----------------------------------------------------------------------------
(* Counting. *)

(* A set of replicas has a count. *)
LEMMA ReplicasCount ==
    ASSUME NEW S, S \subseteq Replica
    PROVE  IsFiniteSet(S) /\ Cardinality(S) \in Nat
BY OutboxAssumption, FS_Subset, FS_CardinalityType

(* An event has a count of positions in a sequence. *)
LEMMA PositionsCount ==
    ASSUME NEW l \in Seq(Event), NEW e
    PROVE  /\ IsFiniteSet({i \in DOMAIN l : l[i] = e})
           /\ Cardinality({i \in DOMAIN l : l[i] = e}) \in Nat
<1>1. DOMAIN l = 1..Len(l) /\ Len(l) \in Nat OBVIOUS
<1>2. IsFiniteSet(1..Len(l)) BY <1>1, FS_Interval
<1>3. {i \in DOMAIN l : l[i] = e} \subseteq 1..Len(l) BY <1>1
<1>4. QED BY <1>2, <1>3, FS_Subset, FS_CardinalityType

(* An event has a count of records in the topic. *)
LEMMA CopiesCount ==
    ASSUME TypeOK, NEW e
    PROVE  IsFiniteSet(Copies(e)) /\ Cardinality(Copies(e)) \in Nat
BY PositionsCount DEF TypeOK, Copies

(* The weights and debts that the budgets compare are numbers. *)
LEMMA WeightsTyped ==
    ASSUME TypeOK, NEW e
    PROVE  /\ Weight(e) \in Nat /\ Debt(e) \in Nat
           /\ Debt(e) <= Weight(e)
<1>1. /\ IsFiniteSet(MayOwe(e)) /\ Cardinality(MayOwe(e)) \in Nat
      /\ Cardinality(Owing(e)) \in Nat
  BY ReplicasCount DEF MayOwe, Owing
<1>2. Owing(e) \subseteq MayOwe(e) BY DEF Owing, MayOwe
<1>3. Cardinality(Owing(e)) <= Cardinality(MayOwe(e)) BY <1>1, <1>2, FS_Subset
<1>4. QED BY <1>1, <1>3, CopiesCount DEF Weight, Debt

(* Fewer replicas: a smaller count, by one at least if one is missing. *)
LEMMA FewerReplicas ==
    ASSUME NEW S, S \subseteq Replica, NEW T, T \subseteq S
    PROVE  /\ Cardinality(T) <= Cardinality(S)
           /\ T # S => Cardinality(T) + 1 <= Cardinality(S)
<1>1. /\ IsFiniteSet(S) /\ Cardinality(S) \in Nat
      /\ Cardinality(T) \in Nat
  BY ReplicasCount
<1>2. /\ Cardinality(T) <= Cardinality(S)
      /\ Cardinality(S) = Cardinality(T) => S = T
  BY <1>1, FS_Subset
<1>3. QED BY <1>1, <1>2

(* One more replica adds one to the count. *)
LEMMA OneMoreReplica ==
    ASSUME NEW S, S \subseteq Replica, NEW r \in Replica, NEW T, T \subseteq S \cup {r}
    PROVE  Cardinality(T) <= Cardinality(S) + 1
<1>1. IsFiniteSet(S) /\ Cardinality(S) \in Nat BY ReplicasCount
<1>2. Cardinality(S \cup {r}) \in {Cardinality(S), Cardinality(S) + 1}
  BY <1>1, FS_AddElement
<1>3. Cardinality(T) <= Cardinality(S \cup {r}) BY FewerReplicas
<1>4. Cardinality(T) \in Nat BY ReplicasCount
<1>5. QED BY <1>1, <1>2, <1>3, <1>4

(* A new record is a copy of its event and of no other. *)
LEMMA OneMoreCopy ==
    ASSUME TypeOK, NEW h \in Event, log' = Append(log, h), NEW e
    PROVE  /\ e # h => (Copies(e))' = Copies(e)
           /\ e = h => Cardinality((Copies(e))') = Cardinality(Copies(e)) + 1
<1>1. /\ Len(log) \in Nat /\ DOMAIN log = 1..Len(log)
      /\ DOMAIN log' = 1..(Len(log) + 1)
      /\ \A i \in 1..Len(log) : log'[i] = log[i]
      /\ log'[Len(log) + 1] = h
  BY DEF TypeOK
<1>2. CASE e # h BY <1>1, <1>2 DEF Copies
<1>3. CASE e = h
  <2>1. (Copies(e))' = Copies(e) \cup {Len(log) + 1} BY <1>1, <1>3 DEF Copies
  <2>2. Len(log) + 1 \notin Copies(e) BY <1>1 DEF Copies
  <2>3. QED BY <1>3, <2>1, <2>2, CopiesCount, FS_AddElement
<1>4. QED BY <1>2, <1>3

-----------------------------------------------------------------------------
(* What the budgets need of a step. *)

Budgets == TypeOK /\ PublishedBudget /\ UnpublishedBudget

(* A step keeps the budgets if it adds neither to the debts of a published event
   nor to the weight of an unpublished one, and pays with a debt or a fault when
   the last publisher at work on an event gives it up. *)
LEMMA BudgetsKept ==
    ASSUME Budgets, TypeOK', published \subseteq published',
           faults' = faults \/ faults' = faults + 1,
           \A e \in published' : (Debt(e))' <= Debt(e),
           \A e \in Event \ published' :
               /\ (Weight(e))' <= Weight(e)
               /\ \/ faults' = faults + 1
                  \/ (Weight(e))' + 1 <= Weight(e)
                  \/ (\E r \in Replica : AtIt(r, e)) => (\E r \in Replica : AtIt(r, e))'
    PROVE  (PublishedBudget /\ UnpublishedBudget)'
<1>1. \A e : /\ Weight(e) \in Nat /\ Debt(e) \in Nat /\ Debt(e) <= Weight(e)
             /\ (Weight(e))' \in Nat /\ (Debt(e))' \in Nat
  <2>1. ASSUME NEW e PROVE Weight(e) \in Nat /\ Debt(e) \in Nat /\ Debt(e) <= Weight(e)
    BY WeightsTyped DEF Budgets
  <2>2. ASSUME NEW e PROVE (Weight(e))' \in Nat /\ (Debt(e))' \in Nat
    <3>1. Cardinality((Copies(e))') \in Nat BY PositionsCount DEF TypeOK, Copies
    <3>2. Cardinality((MayOwe(e))') \in Nat /\ Cardinality((Owing(e))') \in Nat
      BY ReplicasCount DEF MayOwe, Owing
    <3>3. QED BY <3>1, <3>2 DEF Weight, Debt
  <2>3. QED BY <2>1, <2>2
<1>2. faults \in Nat /\ faults' \in Nat /\ published' \subseteq Event
  BY OutboxAssumption DEF Budgets, TypeOK
<1>3. ASSUME NEW e \in published' PROVE (Debt(e))' <= 1 + faults'
  <2>1. Debt(e) <= 1 + faults
    <3>1. CASE e \in published BY <3>1 DEF Budgets, PublishedBudget, Debt
    <3>2. CASE e \notin published
      <4>1. Weight(e) <= faults + (IF \E r \in Replica : AtIt(r, e) THEN 1 ELSE 0)
        BY <1>2, <1>3, <3>2 DEF Budgets, UnpublishedBudget, Weight
      <4>2. QED BY <1>1, <1>2, <4>1
    <3>3. QED BY <3>1, <3>2
  <2>2. QED BY <1>1, <1>2, <1>3, <2>1
<1>4. ASSUME NEW e \in Event \ published'
      PROVE  (Weight(e))' <= faults' + (IF (\E r \in Replica : AtIt(r, e))' THEN 1 ELSE 0)
  <2>1. Weight(e) <= faults + (IF \E r \in Replica : AtIt(r, e) THEN 1 ELSE 0)
    BY <1>4 DEF Budgets, UnpublishedBudget, Weight
  <2>2. QED BY <1>1, <1>2, <1>4, <2>1
<1>5. QED BY <1>3, <1>4 DEF PublishedBudget, UnpublishedBudget, Weight, Debt

(* A step that adds no record and, where it matters, no debt. *)
LEMMA NoNewRecord ==
    ASSUME Budgets, TypeOK', published \subseteq published', log' = log,
           faults' = faults \/ faults' = faults + 1,
           \A e \in published' : (Owing(e))' \subseteq Owing(e),
           \A e \in Event \ published' :
               /\ (MayOwe(e))' \subseteq MayOwe(e)
               /\ \/ faults' = faults + 1
                  \/ (MayOwe(e))' # MayOwe(e)
                  \/ (\E r \in Replica : AtIt(r, e)) => (\E r \in Replica : AtIt(r, e))'
    PROVE  (PublishedBudget /\ UnpublishedBudget)'
<1>1. \A e : (Copies(e))' = Copies(e) BY DEF Copies
<1>2. \A e : /\ Cardinality(Copies(e)) \in Nat
             /\ Cardinality(MayOwe(e)) \in Nat /\ Cardinality((MayOwe(e))') \in Nat
             /\ Cardinality(Owing(e)) \in Nat /\ Cardinality((Owing(e))') \in Nat
  BY CopiesCount, ReplicasCount DEF Budgets, MayOwe, Owing
<1>3. \A e \in published' : (Debt(e))' <= Debt(e)
  <2>1. SUFFICES ASSUME NEW e \in published' PROVE (Debt(e))' <= Debt(e) OBVIOUS
  <2>2. Cardinality((Owing(e))') <= Cardinality(Owing(e)) BY FewerReplicas DEF Owing
  <2>3. QED BY <1>1, <1>2, <2>2 DEF Debt
<1>4. ASSUME NEW e \in Event \ published'
      PROVE  /\ (Weight(e))' <= Weight(e)
             /\ (MayOwe(e))' # MayOwe(e) => (Weight(e))' + 1 <= Weight(e)
  <2>1. /\ Cardinality((MayOwe(e))') <= Cardinality(MayOwe(e))
        /\ (MayOwe(e))' # MayOwe(e) => Cardinality((MayOwe(e))') + 1 <= Cardinality(MayOwe(e))
    BY <1>4, FewerReplicas DEF MayOwe
  <2>2. QED BY <1>1, <1>2, <2>1 DEF Weight
<1>5. QED BY <1>3, <1>4, BudgetsKept

(* A step that turns a debt of replica r into a record. *)
LEMMA NewRecord ==
    ASSUME Budgets, TypeOK', UNCHANGED published,
           NEW r \in Replica, NEW h \in Event, log' = Append(log, h),
           faults' = faults \/ faults' = faults + 1,
           r \in Owing(h), r \notin (MayOwe(h))',
           \A e \in Event : /\ (Owing(e))' \subseteq Owing(e)
                            /\ (MayOwe(e))' \subseteq MayOwe(e)
                            /\ \/ faults' = faults + 1
                               \/ (\E s \in Replica : AtIt(s, e)) => (\E s \in Replica : AtIt(s, e))'
    PROVE  (PublishedBudget /\ UnpublishedBudget)'
<1>1. ASSUME NEW e \in Event PROVE (Debt(e))' <= Debt(e) /\ (Weight(e))' <= Weight(e)
  <2>1. /\ Cardinality(Copies(e)) \in Nat
        /\ Cardinality(MayOwe(e)) \in Nat /\ Cardinality((MayOwe(e))') \in Nat
        /\ Cardinality(Owing(e)) \in Nat /\ Cardinality((Owing(e))') \in Nat
    BY CopiesCount, ReplicasCount DEF Budgets, MayOwe, Owing
  <2>2. /\ Cardinality((Owing(e))') <= Cardinality(Owing(e))
        /\ Cardinality((MayOwe(e))') <= Cardinality(MayOwe(e))
    BY FewerReplicas DEF Owing, MayOwe
  <2>3. CASE e # h BY <2>1, <2>2, <2>3, OneMoreCopy DEF Debt, Weight, Budgets
  <2>4. CASE e = h
    <3>1. (Owing(e))' # Owing(e) /\ (MayOwe(e))' # MayOwe(e)
      BY <2>4 DEF Owing, MayOwe
    <3>2. /\ Cardinality((Owing(e))') + 1 <= Cardinality(Owing(e))
          /\ Cardinality((MayOwe(e))') + 1 <= Cardinality(MayOwe(e))
      BY <3>1, FewerReplicas DEF Owing, MayOwe
    <3>3. Cardinality((Copies(e))') = Cardinality(Copies(e)) + 1
      BY <2>4, OneMoreCopy DEF Budgets
    <3>4. QED BY <2>1, <3>2, <3>3 DEF Debt, Weight
  <2>5. QED BY <2>3, <2>4
<1>2. published' \subseteq Event BY DEF TypeOK
<1>3. QED BY <1>1, <1>2, BudgetsKept

-----------------------------------------------------------------------------
(* Batches. *)

(* The rows of a batch differ, since their created_at do. *)
LEMMA AnswersDiffer ==
    ASSUME TypeOK, NEW b \in Answers
    PROVE  \A i, j \in DOMAIN b : b[i] = b[j] => i = j
<1> DEFINE n == Min({BatchSize, Cardinality(Unpublished)})
<1>1. n \in Nat
  <2>1. Cardinality(Unpublished) \in Nat BY CountIsNat DEF Unpublished, Committed
  <2>2. QED BY <2>1, MinIsNat, OutboxAssumption
<1>2. /\ b \in [1..n -> Unpublished]
      /\ \A i, j \in 1..n : i < j => createdAt[b[i]] < createdAt[b[j]]
  BY DEF Answers
<1> HIDE DEF n
<1>3. \A i \in 1..n : createdAt[b[i]] \in Nat
  BY <1>2 DEF TypeOK, Unpublished, Committed
<1>4. QED BY <1>1, <1>2, <1>3

(* The rest of a batch holds what the batch holds, but its head. *)
LEMMA RestOfBatch ==
    ASSUME NEW b \in Seq(Event), b # <<>>, \A i, j \in DOMAIN b : b[i] = b[j] => i = j
    PROVE  /\ \A e : (\E i \in DOMAIN Tail(b) : Tail(b)[i] = e)
                     <=> (e # Head(b) /\ \E i \in DOMAIN b : b[i] = e)
           /\ \A i, j \in DOMAIN Tail(b) : Tail(b)[i] = Tail(b)[j] => i = j
<1>1. /\ Len(b) \in Nat \ {0} /\ DOMAIN b = 1..Len(b) /\ Head(b) = b[1]
      /\ DOMAIN Tail(b) = 1..(Len(b) - 1)
      /\ \A i \in 1..(Len(b) - 1) : Tail(b)[i] = b[i + 1]
  OBVIOUS
<1>2. ASSUME NEW e, NEW i \in DOMAIN b, b[i] = e, e # Head(b)
      PROVE  \E j \in DOMAIN Tail(b) : Tail(b)[j] = e
  <2>1. i - 1 \in 1..(Len(b) - 1) /\ (i - 1) + 1 = i BY <1>1, <1>2
  <2>2. QED BY <1>1, <1>2, <2>1
<1>3. ASSUME NEW i \in DOMAIN Tail(b) PROVE i + 1 \in DOMAIN b /\ Tail(b)[i] = b[i + 1]
  BY <1>1
<1>4. 1 \in DOMAIN b BY <1>1
<1>5. ASSUME NEW i \in DOMAIN Tail(b) PROVE Tail(b)[i] # Head(b)
  <2>1. i + 1 # 1 BY <1>1
  <2>2. QED BY <1>1, <1>3, <1>4, <2>1
<1>6. ASSUME NEW i \in DOMAIN Tail(b), NEW j \in DOMAIN Tail(b), Tail(b)[i] = Tail(b)[j]
      PROVE  i = j
  <2>1. i + 1 = j + 1 BY <1>3, <1>6
  <2>2. QED BY <1>1, <2>1
<1>7. QED BY <1>2, <1>3, <1>5, <1>6

(* What the end of a turn of the loop does to the debts of r. *)
LEMMA TurnOfLoop ==
    ASSUME TypeOK, NoRepeats, NEW r \in Replica, pc[r] \in {"produce", "mark"},
           NextEvent(r), UNCHANGED connected
    PROVE  /\ NoRepeats'
           /\ \A e : (Owes(r, e))' <=> InBatch(r, e) /\ e # Head(batch[r])
           /\ \A e : (InBatch(r, e))' <=> InBatch(r, e) /\ e # Head(batch[r])
           /\ pc'[r] \in {"sleep", "produce"}
<1>1. batch[r] \in Seq(Event) /\ batch[r] # <<>> BY DEF TypeOK
<1>2. /\ batch' = [batch EXCEPT ![r] = Tail(batch[r])]
      /\ pc' = [pc EXCEPT ![r] = IF Tail(batch[r]) = <<>> THEN "sleep" ELSE "produce"]
  BY DEF NextEvent, Goto
<1>3. /\ pc'[r] = IF Tail(batch[r]) = <<>> THEN "sleep" ELSE "produce"
      /\ batch'[r] = Tail(batch[r])
  BY <1>2 DEF TypeOK
<1>4. \A s \in Replica \ {r} : batch'[s] = batch[s] BY <1>2 DEF TypeOK
<1>5. /\ \A e : (\E i \in DOMAIN batch'[r] : batch'[r][i] = e)
                <=> (e # Head(batch[r]) /\ \E i \in DOMAIN batch[r] : batch[r][i] = e)
      /\ \A i, j \in DOMAIN batch'[r] : batch'[r][i] = batch'[r][j] => i = j
  <2>1. \A i, j \in DOMAIN batch[r] : batch[r][i] = batch[r][j] => i = j BY DEF NoRepeats
  <2>2. /\ \A e : (\E i \in DOMAIN Tail(batch[r]) : Tail(batch[r])[i] = e)
                  <=> (e # Head(batch[r]) /\ \E i \in DOMAIN batch[r] : batch[r][i] = e)
        /\ \A i, j \in DOMAIN Tail(batch[r]) : Tail(batch[r])[i] = Tail(batch[r])[j] => i = j
    BY <1>1, <2>1, RestOfBatch
  <2>3. QED BY <1>3, <2>2
<1>6. NoRepeats' BY <1>4, <1>5 DEF NoRepeats
<1>7. DOMAIN batch'[r] # {} => pc'[r] = "produce"
  <2>1. Tail(batch[r]) = <<>> => DOMAIN Tail(batch[r]) = {} OBVIOUS
  <2>2. QED BY <1>3, <2>1
<1>8. \A e : (InBatch(r, e))' <=> InBatch(r, e) /\ e # Head(batch[r])
  BY <1>3, <1>5, <1>7 DEF InBatch
<1>9. \A e : (Owes(r, e))' <=> (InBatch(r, e))' BY <1>3 DEF Owes
<1>10. QED BY <1>3, <1>6, <1>8, <1>9

(* Replicas that take no part in a step owe what they owed. *)
LEMMA OthersOwe ==
    ASSUME NEW r \in Replica,
           \A s \in Replica \ {r} :
               pc'[s] = pc[s] /\ batch'[s] = batch[s] /\ connected'[s] = connected[s]
    PROVE  \A s \in Replica \ {r} :
               /\ (pc[s] = "fetch")' <=> pc[s] = "fetch"
               /\ \A e : (Owes(s, e))' <=> Owes(s, e)
               /\ \A e : (AtIt(s, e))' <=> AtIt(s, e)
BY DEF Owes, InBatch, AtIt

-----------------------------------------------------------------------------
(* The steps. *)

(* Replica r ends up with no batch to work on, and did not work on one before
   or is charged a fault for it. *)
LEMMA OutOfWork ==
    ASSUME Budgets, NoRepeats, TypeOK', UNCHANGED <<published, log>>, NEW r \in Replica,
           \A s \in Replica \ {r} :
               pc'[s] = pc[s] /\ batch'[s] = batch[s] /\ connected'[s] = connected[s],
           pc'[r] \in PC \ {"fetch", "produce", "mark"},
           batch'[r] = <<>> \/ batch'[r] = batch[r],
           \/ faults' = faults + 1
           \/ faults' = faults /\ ~ Leading(r)
    PROVE  (NoRepeats /\ PublishedBudget /\ UnpublishedBudget)'
<1>1. \A e : ~ (Owes(r, e))' BY DEF Owes, InBatch
<1>2. \A e : (Owing(e))' \subseteq Owing(e) /\ (MayOwe(e))' \subseteq MayOwe(e)
  BY <1>1, OthersOwe DEF Owing, MayOwe
<1>3. ~ Leading(r) => \A e : ~ AtIt(r, e) BY DEF AtIt, InBatch, Leading
<1>4. ~ Leading(r) => \A e : (\E s \in Replica : AtIt(s, e)) => (\E s \in Replica : AtIt(s, e))'
  BY <1>3, OthersOwe
<1>5. (PublishedBudget /\ UnpublishedBudget)'
  <2>1. published' \subseteq Event BY DEF TypeOK
  <2>2. QED BY <1>2, <1>4, <2>1, NoNewRecord
<1>6. NoRepeats'
  <2>1. DOMAIN <<>> = {} OBVIOUS
  <2>2. QED BY <2>1 DEF NoRepeats
<1>7. QED BY <1>5, <1>6

(* The publishers' work and the topic are left alone. *)
LEMMA NotAtWork ==
    ASSUME Budgets, NoRepeats, TypeOK', UNCHANGED <<published, log, pc, batch>>,
           \/ faults' = faults + 1
           \/ faults' = faults /\ UNCHANGED connected
    PROVE  (NoRepeats /\ PublishedBudget /\ UnpublishedBudget)'
<1>1. \A e : /\ (Owing(e))' = Owing(e) /\ (MayOwe(e))' = MayOwe(e)
             /\ (UNCHANGED connected => \A s : (AtIt(s, e))' <=> AtIt(s, e))
  BY DEF Owing, MayOwe, Owes, InBatch, AtIt
<1>2. (PublishedBudget /\ UnpublishedBudget)' BY <1>1, NoNewRecord
<1>3. QED BY <1>2 DEF NoRepeats

(* The lock makes a leader of r, and there was no connected one. *)
LEMMA TryAcquireKeeps ==
    ASSUME DuplicatesInv, TypeOK', NEW r \in Replica, TryAcquireLeaderLock(r)
    PROVE  (NoRepeats /\ PublishedBudget /\ UnpublishedBudget)'
<1>1. /\ pc[r] = "sleep" /\ connected[r] /\ LockGranted(r)
      /\ pc' = [pc EXCEPT ![r] = "fetch"]
      /\ batch' = batch
      /\ UNCHANGED <<published, log, connected, faults>>
  BY DEF TryAcquireLeaderLock, Goto, DuplicatesInv, OutboxInv, TypeOK, budget
<1>2. TypeOK /\ NoRepeats /\ PublishedBudget /\ UnpublishedBudget /\ ConnectedLeaderOwnsLock
  BY DEF DuplicatesInv, OutboxInv
<1>3. pc'[r] = "fetch" /\ \A s \in Replica \ {r} : pc'[s] = pc[s] BY <1>1, <1>2 DEF TypeOK
<1>4. \A s \in Replica, e \in Event : ~ AtIt(s, e)
  <2>1. SUFFICES ASSUME NEW s \in Replica, NEW e \in Event, AtIt(s, e) PROVE FALSE OBVIOUS
  <2>2. Leading(s) /\ connected[s] BY <2>1 DEF AtIt, InBatch, Leading
  <2>3. lockOwner = s /\ s # r BY <1>1, <1>2, <2>2 DEF ConnectedLeaderOwnsLock, Leading
  <2>4. QED BY <1>1, <2>3, OutboxAssumption DEF LockGranted
<1>5. \A e : /\ (Copies(e))' = Copies(e)
             /\ (Owing(e))' = Owing(e)
             /\ (MayOwe(e))' \subseteq MayOwe(e) \cup {r}
             /\ (AtIt(r, e))'
  BY <1>1, <1>3 DEF Copies, Owing, MayOwe, Owes, InBatch, AtIt
<1>6. ASSUME NEW e \in Event \ published'
      PROVE  (Weight(e))' <= faults' + (IF (\E s \in Replica : AtIt(s, e))' THEN 1 ELSE 0)
  <2>1. Weight(e) <= faults
    <3>1. Weight(e) <= faults + (IF \E s \in Replica : AtIt(s, e) THEN 1 ELSE 0)
      BY <1>1, <1>2, <1>6 DEF UnpublishedBudget, Weight
    <3>2. ~ \E s \in Replica : AtIt(s, e) BY <1>4, <1>6
    <3>3. faults \in Nat BY <1>2, OutboxAssumption DEF TypeOK
    <3>4. QED BY <3>1, <3>2, <3>3
  <2>2. /\ Cardinality((MayOwe(e))') <= Cardinality(MayOwe(e)) + 1
        /\ Cardinality(MayOwe(e)) \in Nat /\ Cardinality((MayOwe(e))') \in Nat
        /\ Cardinality(Copies(e)) \in Nat
    BY <1>2, <1>5, OneMoreReplica, ReplicasCount, CopiesCount DEF MayOwe
  <2>3. (Weight(e))' <= Weight(e) + 1 BY <1>5, <2>2 DEF Weight
  <2>4. Weight(e) \in Nat /\ (Weight(e))' \in Nat BY <1>5, <2>2 DEF Weight
  <2>5. QED BY <1>1, <1>2, <1>5, <2>1, <2>3, <2>4, OutboxAssumption DEF TypeOK
<1>7. UnpublishedBudget' BY <1>6 DEF UnpublishedBudget, Weight
<1>8. PublishedBudget' BY <1>1, <1>2, <1>5 DEF PublishedBudget
<1>9. NoRepeats' BY <1>1, <1>2 DEF NoRepeats
<1>10. QED BY <1>7, <1>8, <1>9

(* Only unpublished events come to be owed; a leader that has not fetched one
   may not owe it any more. *)
LEMMA FetchKeeps ==
    ASSUME Budgets, NoRepeats, TypeOK', NEW r \in Replica, FetchUnpublished(r)
    PROVE  (NoRepeats /\ PublishedBudget /\ UnpublishedBudget)'
<1>1. PICK b \in Answers : Goto(r, IF b = <<>> THEN "sleep" ELSE "produce", b)
  BY DEF FetchUnpublished
<1>2. /\ pc[r] = "fetch"
      /\ batch'[r] = b /\ pc'[r] \in {"sleep", "produce"}
      /\ \A s \in Replica \ {r} : pc'[s] = pc[s] /\ batch'[s] = batch[s] /\ connected'[s] = connected[s]
      /\ UNCHANGED <<published, log, connected, faults>>
  BY <1>1 DEF FetchUnpublished, Goto, Budgets, TypeOK, budget
<1>3. \A i \in DOMAIN b : b[i] \in Committed /\ b[i] \notin published
  <2> DEFINE n == Min({BatchSize, Cardinality(Unpublished)})
  <2>1. b \in [1..n -> Unpublished] BY DEF Answers
  <2> HIDE DEF n
  <2>2. QED BY <2>1 DEF Unpublished
<1>4. \A i, j \in DOMAIN b : b[i] = b[j] => i = j BY AnswersDiffer DEF Budgets
<1>5. NoRepeats' BY <1>2, <1>4 DEF NoRepeats
<1>6. \A e : (Owes(r, e))' => e \notin published BY <1>2, <1>3 DEF Owes, InBatch
<1>7. \A e : (Owes(r, e))' <=> (InBatch(r, e))' BY <1>2 DEF Owes
<1>8. \A e \in published' : (Owing(e))' \subseteq Owing(e)
  BY <1>2, <1>6, OthersOwe DEF Owing
<1>9. ASSUME NEW e \in Event \ published'
      PROVE  /\ (MayOwe(e))' \subseteq MayOwe(e)
             /\ \/ (MayOwe(e))' # MayOwe(e)
                \/ (\E s \in Replica : AtIt(s, e)) => (\E s \in Replica : AtIt(s, e))'
  <2>1. r \in MayOwe(e) BY <1>2 DEF MayOwe
  <2>2. (MayOwe(e))' \subseteq MayOwe(e) BY <1>2, <2>1, OthersOwe DEF MayOwe
  <2>3. CASE (Owes(r, e))'
    <3>1. AtIt(r, e) => (AtIt(r, e))' BY <1>2, <1>7, <2>3 DEF AtIt
    <3>2. QED BY <1>2, <2>2, <3>1, OthersOwe
  <2>4. CASE ~ (Owes(r, e))'
    <3>1. r \notin (MayOwe(e))' BY <1>2, <2>4 DEF MayOwe
    <3>2. QED BY <2>1, <2>2, <3>1
  <2>5. QED BY <2>3, <2>4
<1>10. QED BY <1>2, <1>5, <1>8, <1>9, NoNewRecord

(* The end of a turn of the loop, for the head the step has dealt with: its
   debt is cancelled, its row published, or a fault is charged. *)
LEMMA TurnKeeps ==
    ASSUME Budgets, NoRepeats, TypeOK', NEW r \in Replica, pc[r] \in {"produce", "mark"},
           NextEvent(r), UNCHANGED <<log, connected>>, published \subseteq published',
           \/ faults' = faults + 1
           \/ faults' = faults /\ pc[r] = "produce"
           \/ faults' = faults /\ Head(batch[r]) \in published'
    PROVE  (NoRepeats /\ PublishedBudget /\ UnpublishedBudget)'
<1>1. /\ NoRepeats'
      /\ \A e : (Owes(r, e))' <=> InBatch(r, e) /\ e # Head(batch[r])
      /\ \A e : (InBatch(r, e))' <=> InBatch(r, e) /\ e # Head(batch[r])
      /\ pc'[r] \in {"sleep", "produce"}
  BY TurnOfLoop DEF Budgets
<1>2. \A s \in Replica \ {r} : pc'[s] = pc[s] /\ batch'[s] = batch[s] /\ connected'[s] = connected[s]
  BY DEF NextEvent, Goto, Budgets, TypeOK
<1>3. \A e : (Owes(r, e))' => Owes(r, e) BY <1>1 DEF Owes
<1>4. \A e : (Owing(e))' \subseteq Owing(e) /\ (MayOwe(e))' \subseteq MayOwe(e)
  BY <1>1, <1>2, <1>3, OthersOwe DEF Owing, MayOwe
<1>5. ASSUME NEW e \in Event \ published', faults' = faults
      PROVE  \/ (MayOwe(e))' # MayOwe(e)
             \/ (\E s \in Replica : AtIt(s, e)) => (\E s \in Replica : AtIt(s, e))'
  <2>1. CASE e # Head(batch[r])
    <3>1. AtIt(r, e) => (AtIt(r, e))' BY <1>1, <2>1 DEF AtIt
    <3>2. QED BY <1>2, <3>1, OthersOwe
  <2>2. CASE e = Head(batch[r]) /\ InBatch(r, e)
    <3>1. faults \in Nat BY OutboxAssumption DEF Budgets, TypeOK
    <3>2. pc[r] = "produce" BY <1>5, <2>2, <3>1
    <3>3. r \in MayOwe(e) /\ r \notin (MayOwe(e))'
      BY <1>1, <2>2, <3>2 DEF MayOwe, Owes
    <3>4. QED BY <3>3
  <2>3. CASE ~ InBatch(r, e)
    <3>1. ~ AtIt(r, e) BY <2>3 DEF AtIt
    <3>2. QED BY <1>2, <3>1, OthersOwe
  <2>4. QED BY <2>1, <2>2, <2>3
<1>6. published' \subseteq Event BY DEF TypeOK
<1>7. (PublishedBudget /\ UnpublishedBudget)' BY <1>4, <1>5, <1>6, NoNewRecord
<1>8. QED BY <1>1, <1>7

(* produce, whether or not it succeeds: the record of the head of the batch
   takes the place of the debt. *)
LEMMA ProduceKeeps ==
    ASSUME Budgets, NoRepeats, TypeOK', NEW r \in Replica,
           pc[r] = "produce", log' = Append(log, Head(batch[r])),
           UNCHANGED <<published, connected>>,
           \/ Goto(r, "mark", batch[r]) /\ faults' = faults
           \/ Goto(r, "sleep", <<>>) /\ faults' = faults + 1
    PROVE  (NoRepeats /\ PublishedBudget /\ UnpublishedBudget)'
<1>0. PICK h \in Event : h = Head(batch[r]) BY HeadIsEvent DEF Budgets
<1>1. batch[r] \in Seq(Event) /\ batch[r] # <<>> BY DEF Budgets, TypeOK
<1>2. InBatch(r, h)
  <2>1. 1 \in DOMAIN batch[r] /\ batch[r][1] = h BY <1>0, <1>1
  <2>2. QED BY <2>1 DEF InBatch
<1>3. \A s \in Replica \ {r} : pc'[s] = pc[s] /\ batch'[s] = batch[s] /\ connected'[s] = connected[s]
  BY DEF Goto, Budgets, TypeOK
<1>4. /\ pc'[r] \in {"mark", "sleep"}
      /\ batch'[r] = batch[r] \/ batch'[r] = <<>>
      /\ faults' # faults + 1 => pc'[r] = "mark" /\ batch'[r] = batch[r]
  BY DEF Goto, Budgets, TypeOK
<1>5. NoRepeats'
  <2>1. DOMAIN <<>> = {} OBVIOUS
  <2>2. QED BY <1>3, <1>4, <2>1 DEF NoRepeats
<1>6. ~ (Owes(r, h))' /\ r \notin (MayOwe(h))'
  <2>1. pc'[r] = "mark" => batch'[r] = batch[r] BY DEF Goto, Budgets, TypeOK
  <2>2. ~ (Owes(r, h))' BY <1>0, <1>4, <2>1 DEF Owes, InBatch
  <2>3. QED BY <1>4, <2>2 DEF MayOwe
<1>7. r \in Owing(h) BY <1>2 DEF Owing, Owes
<1>8. \A e : (Owes(r, e))' => Owes(r, e)
  <2>1. \A e : (InBatch(r, e))' => InBatch(r, e)
    <3>1. pc'[r] = "mark" => batch'[r] = batch[r] BY DEF Goto, Budgets, TypeOK
    <3>2. QED BY <1>4, <3>1 DEF InBatch
  <2>2. QED BY <2>1 DEF Owes
<1>9. \A e : (Owing(e))' \subseteq Owing(e) /\ (MayOwe(e))' \subseteq MayOwe(e)
  BY <1>3, <1>4, <1>8, OthersOwe DEF Owing, MayOwe
<1>10. faults' # faults + 1 =>
          \A e : (\E s \in Replica : AtIt(s, e)) => (\E s \in Replica : AtIt(s, e))'
  <2>1. faults' # faults + 1 => \A e : AtIt(r, e) => (AtIt(r, e))'
    BY <1>4 DEF AtIt, InBatch
  <2>2. QED BY <1>3, <2>1, OthersOwe
<1>11. log' = Append(log, h) BY <1>0
<1>12. faults' = faults \/ faults' = faults + 1 OBVIOUS
<1>13. (PublishedBudget /\ UnpublishedBudget)'
  <2>1. \A e \in Event :
            /\ (Owing(e))' \subseteq Owing(e)
            /\ (MayOwe(e))' \subseteq MayOwe(e)
            /\ \/ faults' = faults + 1
               \/ (\E s \in Replica : AtIt(s, e)) => (\E s \in Replica : AtIt(s, e))'
    BY <1>9, <1>10
  <2>2. r \notin (MayOwe(h))' BY <1>6
  <2>3. QED BY <1>1, <1>7, <1>11, <1>12, <2>1, <2>2, NewRecord
<1>14. QED BY <1>5, <1>13

-----------------------------------------------------------------------------
(* Every step preserves the budgets, and that no batch repeats a row. *)
LEMMA DuplicatesStep == DuplicatesInv /\ [Next]_vars => DuplicatesInv'
<1> SUFFICES ASSUME DuplicatesInv, [Next]_vars PROVE DuplicatesInv' OBVIOUS
<1>0. OutboxInv' BY InvStep DEF DuplicatesInv
<1> DEFINE Goal == NoRepeats /\ PublishedBudget /\ UnpublishedBudget
<1>a. TypeOK /\ TypeOK' /\ NoRepeats /\ Budgets
  BY <1>0 DEF DuplicatesInv, OutboxInv, Budgets
<1>1. ASSUME Transactions PROVE Goal'
  <2>1. UNCHANGED <<published, log, pc, batch, connected, faults>>
    BY <1>1 DEF Transactions, Begin, Commit, Rollback, publisher, budget
  <2>2. QED BY <1>a, <2>1, NotAtWork
<1>2. ASSUME NEW r \in Replica, Spawn(r) PROVE Goal'
  BY <1>a, <1>2, OutOfWork DEF Spawn, Goto, budget, TypeOK, PC, Looping, Leading
<1>3. ASSUME NEW r \in Replica, SpawnFails(r) PROVE Goal'
  BY <1>a, <1>3, OutOfWork DEF SpawnFails, Goto, Fault, TypeOK, PC, Looping
<1>4. ASSUME NEW r \in Replica, TryAcquireLeaderLock(r) PROVE Goal'
  BY <1>a, <1>4, TryAcquireKeeps
<1>5. ASSUME NEW r \in Replica, PollWithoutLock(r) PROVE Goal'
  BY <1>a, <1>5, NotAtWork DEF PollWithoutLock, vars, publisher, budget
<1>6. ASSUME NEW r \in Replica, FetchUnpublished(r) PROVE Goal'
  BY <1>a, <1>6, FetchKeeps
<1>7. ASSUME NEW r \in Replica, FetchFails(r) PROVE Goal'
  BY <1>a, <1>7, OutOfWork DEF FetchFails, Goto, Fault, TypeOK, PC, Looping
<1>8. ASSUME NEW r \in Replica, SkipUnknown(r) PROVE Goal'
  BY <1>a, <1>8, TurnKeeps DEF SkipUnknown, budget
<1>9. ASSUME NEW r \in Replica, Produce(r) PROVE Goal'
  BY <1>a, <1>9, ProduceKeeps DEF Produce, budget
<1>10. ASSUME NEW r \in Replica, ProduceFails(r) PROVE Goal'
  <2>1. /\ pc[r] = "produce" /\ faults' = faults + 1 /\ Goto(r, "sleep", <<>>)
        /\ UNCHANGED <<published, connected>>
    BY <1>10 DEF ProduceFails, Fault
  <2>2. CASE log' = log
    BY <1>a, <2>1, <2>2, OutOfWork DEF Goto, TypeOK, PC, Looping
  <2>3. CASE log' = Append(log, Head(batch[r]))
    BY <1>a, <2>1, <2>3, ProduceKeeps
  <2>4. QED BY <1>10, <2>2, <2>3 DEF ProduceFails
<1>11. ASSUME NEW r \in Replica, MarkPublished(r) PROVE Goal'
  BY <1>a, <1>11, TurnKeeps DEF MarkPublished, budget
<1>12. ASSUME NEW r \in Replica, MarkFails(r) PROVE Goal'
  BY <1>a, <1>12, TurnKeeps DEF MarkFails, Fault
<1>13. ASSUME NEW r \in Replica, Shutdown(r) PROVE Goal'
  BY <1>a, <1>13, NotAtWork DEF Shutdown
<1>14. ASSUME NEW r \in Replica, ObserveCancel(r) PROVE Goal'
  BY <1>a, <1>14, OutOfWork DEF ObserveCancel, Goto, budget, TypeOK, PC, Looping, Leading
<1>15. ASSUME NEW r \in Replica, Exit(r) PROVE Goal'
  BY <1>a, <1>15, OutOfWork DEF Exit, Goto, budget, TypeOK, PC, Looping, Leading
<1>16. ASSUME NEW r \in Replica, Crash(r) PROVE Goal'
  BY <1>a, <1>16, OutOfWork DEF Crash, Goto, Fault, TypeOK, PC, Looping
<1>17. ASSUME NEW r \in Replica, LoseLockConnection(r) PROVE Goal'
  BY <1>a, <1>17, NotAtWork DEF LoseLockConnection, Fault
<1>18. ASSUME ReleaseOrphanLock PROVE Goal'
  BY <1>a, <1>18, NotAtWork DEF ReleaseOrphanLock, publisher, budget
<1>19. ASSUME UNCHANGED vars PROVE Goal'
  BY <1>a, <1>19, NotAtWork DEF vars, publisher, budget
<1>20. Goal'
  BY <1>1, <1>2, <1>3, <1>4, <1>5, <1>6, <1>7, <1>8, <1>9, <1>10, <1>11, <1>12, <1>13,
     <1>14, <1>15, <1>16, <1>17, <1>18, <1>19
  DEF Next, Publish, Failure
<1>21. QED BY <1>0, <1>20 DEF DuplicatesInv

(* With no record and no debt every budget holds. *)
LEMMA DuplicatesInit == Init => DuplicatesInv
<1> SUFFICES ASSUME Init PROVE DuplicatesInv OBVIOUS
<1>1. OutboxInv BY InvInit
<1>2. NoRepeats BY DEF Init, NoRepeats
<1>3. PublishedBudget BY DEF Init, PublishedBudget
<1>4. \A e : Copies(e) = {} /\ MayOwe(e) = {} BY DEF Init, Copies, MayOwe, Owes, InBatch
<1>5. UnpublishedBudget
  <2>1. \A e : Cardinality(Copies(e)) = 0 /\ Cardinality(MayOwe(e)) = 0 BY <1>4, FS_EmptySet
  <2>2. faults = 0 BY DEF Init
  <2>3. QED BY <2>1, <2>2 DEF UnpublishedBudget
<1>6. QED BY <1>1, <1>2, <1>3, <1>5 DEF DuplicatesInv

(* At-least-once delivery is no worse than the faults: whatever the number of
   replicas, an event has one record and at most one more for each fault. *)
THEOREM DuplicatesAreCharged == Spec => []DuplicatesNeedFaults
<1>1. DuplicatesInv => DuplicatesNeedFaults
  <2>1. SUFFICES ASSUME DuplicatesInv, NEW e \in Event
                 PROVE  Cardinality(Copies(e)) <= 1 + faults
    BY DEF DuplicatesNeedFaults
  <2>2. TypeOK /\ PublishedBudget /\ UnpublishedBudget BY <2>1 DEF DuplicatesInv, OutboxInv
  <2>3. /\ Cardinality(Copies(e)) \in Nat /\ Cardinality(Owing(e)) \in Nat
        /\ Cardinality(MayOwe(e)) \in Nat /\ faults \in Nat
    BY <2>2, CopiesCount, ReplicasCount, OutboxAssumption DEF Owing, MayOwe, TypeOK
  <2>4. CASE e \in published BY <2>2, <2>3, <2>4 DEF PublishedBudget
  <2>5. CASE e \notin published
    <3>1. Cardinality(Copies(e)) + Cardinality(MayOwe(e))
              <= faults + (IF \E r \in Replica : AtIt(r, e) THEN 1 ELSE 0)
      BY <2>2, <2>5 DEF UnpublishedBudget
    <3>2. QED BY <2>3, <3>1
  <2>6. QED BY <2>4, <2>5
<1>2. QED BY DuplicatesInit, DuplicatesStep, <1>1, PTL DEF Spec
-----------------------------------------------------------------------------
(* The order of the records (OrderedWithoutFaults).  Without faults a leader
   stays connected, so it is alone, and every record is marked before the
   next fetch.  An event that is fetched later than a record was either began
   later or was not committed when the record's batch was fetched. *)
Before(d, e) == createdAt[d] < createdAt[e] \/ committedAt[d] < committedAt[e]

(* Transactions are numbered in the order of their commits. *)
Numbered ==
    \A e \in Event : /\ committedAt[e] <= Cardinality(Committed)
                     /\ e \in Committed => createdAt[e] > 0

AtBatch(r) == pc[r] \in {"produce", "mark"}
InHand(r) == {batch[r][i] : i \in DOMAIN batch[r]}
Due == (Committed \cap Routable) \ Logged

(* The leader's batch is in order, its events have no records yet but the one
   that is being marked, and come before what it did not fetch. *)
BatchInOrder(r) ==
    /\ \A i, j \in DOMAIN batch[r] : i < j => createdAt[batch[r][i]] < createdAt[batch[r][j]]
    /\ \A i \in DOMAIN batch[r] : batch[r][i] \in Logged => pc[r] = "mark" /\ i = 1
    /\ \A d \in InHand(r), e \in Due \ InHand(r) : Before(d, e)

LogInOrder == \A i, j \in DOMAIN log : i < j => Before(log[i], log[j])

Steady ==
    /\ \A r \in Replica : pc[r] \in Looping => connected[r]
    /\ \A e \in Logged \ published : \E r \in Replica : pc[r] = "mark" /\ Head(batch[r]) = e
    /\ \A r \in Replica : AtBatch(r) => BatchInOrder(r)
    /\ \A d \in Logged, e \in Due : Before(d, e)
    /\ LogInOrder

OrderInv == OutboxInv /\ Numbered /\ (faults = 0 => Steady)

(* A leader is alone. *)
LEMMA AloneAtWork ==
    ASSUME OutboxInv, Steady, NEW r \in Replica, NEW s \in Replica, Leading(r), Leading(s)
    PROVE  r = s
BY DEF OutboxInv, ConnectedLeaderOwnsLock, Steady, Leading, Looping

(* Where no record is being marked, the topic is settled. *)
LEMMA AllMarked ==
    ASSUME OutboxInv, Steady, NEW r \in Replica, pc[r] \in {"fetch", "produce"}
    PROVE  Logged \subseteq published
<1>1. \A s \in Replica : pc[s] = "mark" => s = r BY AloneAtWork DEF Leading
<1>2. QED BY <1>1 DEF Steady

LEMMA NumberedStep == ASSUME OutboxInv, Numbered, [Next]_vars PROVE Numbered'
<1>1. TypeOK BY DEF OutboxInv
<1>2. ASSUME NEW d \in Event, Begin(d) PROVE Numbered'
  <2>1. /\ createdAt[d] = 0 /\ committedAt' = committedAt
        /\ \A e \in Event \ {d} : createdAt'[e] = createdAt[e]
    BY <1>1, <1>2 DEF Begin, TypeOK
  <2>2. Committed' = Committed BY <2>1 DEF Committed
  <2>3. d \notin Committed BY <2>1 DEF Numbered
  <2>4. \A e \in Committed : createdAt'[e] > 0 BY <2>1, <2>3 DEF Numbered, Committed
  <2>5. QED BY <2>1, <2>2, <2>4 DEF Numbered
<1>3. ASSUME NEW d \in Event, Commit(d) PROVE Numbered'
  <2>1. /\ createdAt' = createdAt /\ createdAt[d] > 0 /\ d \notin Committed
        /\ committedAt' = [committedAt EXCEPT ![d] = 1 + Cardinality(Committed)]
    BY <1>3 DEF Commit, Open, Committed
  <2>2. Cardinality(Committed) \in Nat /\ IsFiniteSet(Committed)
    BY CountIsNat, OutboxAssumption, FS_Subset DEF Committed
  <2>3. /\ committedAt'[d] = 1 + Cardinality(Committed)
        /\ \A e \in Event \ {d} : committedAt'[e] = committedAt[e]
    BY <1>1, <2>1 DEF TypeOK
  <2>4. Committed' = Committed \cup {d} BY <2>2, <2>3 DEF Committed
  <2>5. Cardinality(Committed') = Cardinality(Committed) + 1 BY <2>1, <2>2, <2>4, FS_AddElement
  <2>6. ASSUME NEW e \in Event PROVE committedAt'[e] <= Cardinality(Committed')
    <3>1. CASE e = d BY <2>2, <2>3, <2>5, <3>1
    <3>2. CASE e # d
      <4>1. committedAt[e] \in Nat /\ committedAt[e] <= Cardinality(Committed) BY <1>1 DEF Numbered, TypeOK
      <4>2. QED BY <2>2, <2>3, <2>5, <3>2, <4>1
    <3>3. QED BY <3>1, <3>2
  <2>7. QED BY <2>1, <2>4, <2>6 DEF Numbered
<1>4. ASSUME UNCHANGED <<createdAt, committedAt>> PROVE Numbered' BY <1>4 DEF Numbered, Committed
<1>5. (\E d \in Event : Begin(d) \/ Commit(d)) \/ UNCHANGED <<createdAt, committedAt>>
  BY DEF Next, Transactions, Rollback, Publish, Failure, Spawn, SpawnFails, TryAcquireLeaderLock, PollWithoutLock,
     FetchUnpublished, FetchFails, SkipUnknown, Produce, ProduceFails, MarkPublished, MarkFails, Shutdown, ObserveCancel,
     Exit, Crash, LoseLockConnection, ReleaseOrphanLock, vars, table
<1>6. QED BY <1>2, <1>3, <1>4, <1>5

(* A transaction that begins or commits changes the order of no other two, and
   is behind what was committed before. *)
LEMMA TransactionsSteady ==
    ASSUME OutboxInv, Numbered, Steady, NEW d \in Event, Begin(d) \/ Commit(d) \/ Rollback(d)
    PROVE  Steady'
<1>1. TypeOK BY DEF OutboxInv
<1>2. UNCHANGED <<published, log, pc, batch, connected>>
  BY DEF Begin, Commit, Rollback, publisher
<1>3. Logged' = Logged /\ (\A r \in Replica : InHand(r)' = InHand(r) /\ AtBatch(r)' = AtBatch(r))
  BY <1>2 DEF Logged, InHand, AtBatch
<1>4. Logged \subseteq Committed /\ \A r \in Replica : InHand(r) \subseteq Committed
  BY DEF OutboxInv, LoggedWasCommitted, BatchesAreCommitted, InHand
<1>5. d \notin Committed BY DEF Begin, Commit, Rollback, Open, Committed, Numbered
<1>6. /\ \A e \in Committed : createdAt'[e] = createdAt[e] /\ committedAt'[e] = committedAt[e]
      /\ Committed' \subseteq Committed \cup {d}
      /\ d \in Committed' => committedAt'[d] = 1 + Cardinality(Committed)
  <2>1. Committed \subseteq Event BY DEF Committed
  <2>2. CASE Begin(d) BY <1>1, <1>5, <2>1, <2>2 DEF Begin, TypeOK, Committed
  <2>3. CASE Commit(d) BY <1>1, <1>5, <2>1, <2>3 DEF Commit, TypeOK, Committed
  <2>4. CASE Rollback(d) BY <1>1, <1>5, <2>1, <2>4 DEF Rollback, TypeOK, Committed
  <2>5. QED BY <2>2, <2>3, <2>4
<1>7. Cardinality(Committed) \in Nat BY CountIsNat DEF Committed
<1>8. \A x \in Committed, y \in Committed : Before(x, y) => Before(x, y)' BY <1>6 DEF Before
<1>9. \A x \in Committed : d \in Committed' => Before(x, d)'
  <2>1. \A x \in Committed : committedAt[x] \in Nat /\ committedAt[x] <= Cardinality(Committed)
    BY <1>1 DEF TypeOK, Committed, Numbered
  <2>2. QED BY <1>6, <1>7, <2>1 DEF Before
<1>10. Due' \subseteq Due \cup ({d} \cap Committed') /\ Due \subseteq Committed BY <1>3, <1>6 DEF Due
<1>11. ASSUME NEW r \in Replica, AtBatch(r)' PROVE BatchInOrder(r)'
  <2>1. BatchInOrder(r) BY <1>3, <1>11 DEF Steady
  <2>2. \A i \in DOMAIN batch[r] : batch[r][i] \in Committed BY <1>4 DEF InHand
  <2>3. \A i, j \in DOMAIN batch'[r] : i < j => createdAt'[batch'[r][i]] < createdAt'[batch'[r][j]]
    BY <1>2, <1>6, <2>1, <2>2 DEF BatchInOrder
  <2>4. \A i \in DOMAIN batch'[r] : batch'[r][i] \in Logged' => pc'[r] = "mark" /\ i = 1
    BY <1>2, <1>3, <2>1 DEF BatchInOrder
  <2>5. \A x \in InHand(r), e \in Due' \ InHand(r) : Before(x, e)'
    BY <1>4, <1>8, <1>9, <1>10, <2>1 DEF BatchInOrder
  <2>6. \A x \in InHand(r)', e \in Due' \ InHand(r)' : Before(x, e)' BY <1>3, <2>5
  <2>7. QED BY <2>3, <2>4, <2>6 DEF BatchInOrder
<1>12. \A x \in Logged, e \in Due' : Before(x, e)' BY <1>4, <1>8, <1>9, <1>10 DEF Steady
<1>13. LogInOrder'
  <2>1. \A i \in DOMAIN log : log[i] \in Committed BY <1>4 DEF Logged
  <2>2. QED BY <1>2, <1>8, <2>1 DEF Steady, LogInOrder, Before
<1>14. QED BY <1>2, <1>3, <1>11, <1>12, <1>13 DEF Steady

(* Steps of a replica that touch no batch, but perhaps drop an idle one. *)
LEMMA IdleSteady ==
    ASSUME OutboxInv, Steady, NEW r \in Replica, UNCHANGED <<createdAt, committedAt, published, log>>,
           \A s \in Replica \ {r} : pc'[s] = pc[s] /\ batch'[s] = batch[s] /\ connected'[s] = connected[s],
           \/ ~ AtBatch(r) /\ ~ AtBatch(r)' /\ (pc'[r] \in Looping => connected'[r])
           \/ pc'[r] = pc[r] /\ batch'[r] = batch[r] /\ connected'[r] = connected[r]
    PROVE  Steady'
<1>1. Logged' = Logged /\ Committed' = Committed /\ Due' = Due BY DEF Logged, Committed, Due
<1>2. \A x, y : Before(x, y)' <=> Before(x, y) BY DEF Before
<1>3. ASSUME NEW s \in Replica, AtBatch(s)'
      PROVE  AtBatch(s) /\ BatchInOrder(s)' /\ pc'[s] = pc[s] /\ batch'[s] = batch[s]
  <2>1. AtBatch(s) /\ pc'[s] = pc[s] /\ batch'[s] = batch[s] BY <1>3 DEF AtBatch
  <2>2. BatchInOrder(s) /\ InHand(s)' = InHand(s) BY <2>1 DEF Steady, InHand
  <2>3. QED BY <1>1, <1>2, <2>1, <2>2 DEF BatchInOrder
<1>4. ASSUME NEW e \in Logged \ published PROVE \E s \in Replica : pc'[s] = "mark" /\ Head(batch'[s]) = e
  <2>1. PICK s \in Replica : pc[s] = "mark" /\ Head(batch[s]) = e BY DEF Steady
  <2>2. pc'[s] = pc[s] /\ batch'[s] = batch[s] BY <2>1 DEF AtBatch
  <2>3. QED BY <2>1, <2>2
<1>5. \A s \in Replica : pc'[s] \in Looping => connected'[s] BY DEF Steady
<1>6. LogInOrder' BY <1>2 DEF Steady, LogInOrder
<1>7. QED BY <1>1, <1>2, <1>3, <1>4, <1>5, <1>6 DEF Steady

(* The poll finds every due event or the ones that began first. *)
LEMMA FetchSteady ==
    ASSUME OutboxInv, Steady, NEW r \in Replica, FetchUnpublished(r)
    PROVE  Steady'
<1>1. TypeOK BY DEF OutboxInv
<1>2. PICK b \in Answers : Goto(r, IF b = <<>> THEN "sleep" ELSE "produce", b) BY DEF FetchUnpublished
<1>3. pc[r] = "fetch" /\ UNCHANGED <<createdAt, committedAt, published, log, connected>>
  BY DEF FetchUnpublished, table
<1>4. /\ pc'[r] \in {"sleep", "produce"} /\ batch'[r] = b
      /\ \A s \in Replica \ {r} : pc'[s] = pc[s] /\ batch'[s] = batch[s] /\ ~ AtBatch(s)
  <2>1. \A s \in Replica \ {r} : ~ AtBatch(s) BY <1>3, AloneAtWork DEF AtBatch, Leading
  <2>2. QED BY <1>1, <1>2, <2>1 DEF Goto, TypeOK
<1>5. Logged \subseteq published BY <1>3, AllMarked
<1>6. Logged' = Logged /\ Due' = Due /\ \A x, y : Before(x, y)' <=> Before(x, y)
  BY <1>3 DEF Logged, Committed, Due, Before
<1>7. BatchInOrder(r)'
  <2> DEFINE n == Min({BatchSize, Cardinality(Unpublished)})
  <2>1. /\ b \in [1..n -> Unpublished]
        /\ \A i, j \in 1..n : i < j => createdAt[b[i]] < createdAt[b[j]]
        /\ \A e \in Unpublished \ {b[i] : i \in 1..n} : \A i \in 1..n : createdAt[b[i]] < createdAt[e]
    BY DEF Answers
  <2> HIDE DEF n
  <2>2. DOMAIN b = 1..n /\ InHand(r)' = {b[i] : i \in 1..n} BY <1>4, <2>1 DEF InHand
  <2>3. \A i, j \in DOMAIN batch'[r] : i < j => createdAt'[batch'[r][i]] < createdAt'[batch'[r][j]]
    BY <1>3, <1>4, <2>1, <2>2
  <2>4. \A i \in DOMAIN batch'[r] : batch'[r][i] \notin Logged'
    BY <1>4, <1>5, <1>6, <2>1, <2>2 DEF Unpublished
  <2>5. Due \subseteq Unpublished BY DEF Due, Unpublished, OutboxInv, PublishedWasLogged
  <2>6. \A x \in InHand(r)', e \in Due \ InHand(r)' : Before(x, e) BY <2>1, <2>2, <2>5 DEF Before
  <2>7. \A x \in InHand(r)', e \in Due' \ InHand(r)' : Before(x, e)' BY <1>6, <2>6
  <2>8. QED BY <2>3, <2>4, <2>7 DEF BatchInOrder
<1>8. \A s \in Replica : AtBatch(s)' => BatchInOrder(s)' BY <1>4, <1>7 DEF AtBatch
<1>9. \A s \in Replica : pc'[s] \in Looping => connected'[s] BY <1>3, <1>4 DEF Steady, Looping
<1>10. LogInOrder' BY <1>3, <1>6 DEF Steady, LogInOrder
<1>11. QED BY <1>3, <1>5, <1>6, <1>8, <1>9, <1>10 DEF Steady

(* The end of a turn of the loop, for an event that is published or has no
   topic. *)
LEMMA TurnSteady ==
    ASSUME OutboxInv, Steady, NEW r \in Replica, SkipUnknown(r) \/ MarkPublished(r)
    PROVE  Steady'
<1>1. TypeOK BY DEF OutboxInv
<1> DEFINE h == Head(batch[r])
<1>2. AtBatch(r) /\ NextEvent(r) /\ UNCHANGED <<createdAt, committedAt, log, connected>>
  BY DEF SkipUnknown, MarkPublished, AtBatch, table
<1>3. /\ pc'[r] \in {"sleep", "produce"} /\ batch'[r] = Tail(batch[r])
      /\ \A s \in Replica \ {r} : pc'[s] = pc[s] /\ batch'[s] = batch[s] /\ ~ AtBatch(s)
  <2>1. \A s \in Replica \ {r} : ~ AtBatch(s) BY <1>2, AloneAtWork DEF AtBatch, Leading
  <2>2. QED BY <1>1, <2>1 , <1>2 DEF NextEvent, Goto, TypeOK
<1>4. batch[r] \in Seq(Event) /\ batch[r] # <<>> BY <1>1, <1>2 DEF TypeOK, AtBatch
<1>5. /\ DOMAIN batch[r] = 1..Len(batch[r]) /\ Len(batch[r]) \in Nat \ {0} /\ h = batch[r][1]
      /\ DOMAIN Tail(batch[r]) = 1..(Len(batch[r]) - 1)
      /\ \A i \in 1..(Len(batch[r]) - 1) : i + 1 \in 1..Len(batch[r]) /\ Tail(batch[r])[i] = batch[r][i + 1]
  BY <1>4
<1>6. BatchInOrder(r) BY <1>2 DEF Steady
<1>7. InHand(r) \subseteq InHand(r)' \cup {h} /\ InHand(r)' \subseteq InHand(r)
  <2>1. ASSUME NEW i \in DOMAIN batch[r] PROVE batch[r][i] \in InHand(r)' \cup {h}
    <3>1. CASE i = 1 BY <1>5, <3>1
    <3>2. CASE i # 1
      <4>1. i - 1 \in 1..(Len(batch[r]) - 1) /\ (i - 1) + 1 = i BY <1>5, <3>2
      <4>2. QED BY <1>3, <1>5, <4>1 DEF InHand
    <3>3. QED BY <3>1, <3>2
  <2>2. \A i \in DOMAIN batch'[r] : batch'[r][i] \in InHand(r) BY <1>3, <1>5 DEF InHand
  <2>3. QED BY <2>1, <2>2 DEF InHand
<1>8. Logged' = Logged /\ Due' = Due /\ \A x, y : Before(x, y)' <=> Before(x, y)
  BY <1>2 DEF Logged, Committed, Due, Before
<1>9. h \notin Due
  <2>1. CASE SkipUnknown(r) BY <2>1 DEF SkipUnknown, Due
  <2>2. CASE MarkPublished(r) BY <2>2 DEF MarkPublished, OutboxInv, MarkingWasLogged, Due
  <2>3. QED BY <2>1, <2>2
<1>10. Logged \subseteq published'
  <2>1. CASE SkipUnknown(r) BY <2>1, AllMarked DEF SkipUnknown
  <2>2. CASE MarkPublished(r)
    <3>1. published' = published \cup {h} BY <2>2 DEF MarkPublished
    <3>2. \A s \in Replica : pc[s] = "mark" => s = r BY <1>3 DEF AtBatch
    <3>3. QED BY <3>1, <3>2 DEF Steady
  <2>3. QED BY <2>1, <2>2
<1>11. BatchInOrder(r)'
  <2>1. ASSUME NEW i \in DOMAIN batch'[r], NEW j \in DOMAIN batch'[r], i < j
        PROVE  createdAt'[batch'[r][i]] < createdAt'[batch'[r][j]]
    <3>1. i + 1 \in DOMAIN batch[r] /\ j + 1 \in DOMAIN batch[r] /\ i + 1 < j + 1
      BY <1>3, <1>5, <2>1
    <3>2. batch'[r][i] = batch[r][i + 1] /\ batch'[r][j] = batch[r][j + 1] BY <1>3, <1>5
    <3>3. createdAt[batch[r][i + 1]] < createdAt[batch[r][j + 1]] BY <1>6, <3>1 DEF BatchInOrder
    <3>4. QED BY <1>2, <3>2, <3>3
  <2>2. \A i \in DOMAIN batch'[r] : batch'[r][i] \notin Logged'
    <3>1. \A i \in 1..(Len(batch[r]) - 1) : i + 1 # 1 BY <1>5
    <3>2. QED BY <1>3, <1>5, <1>6, <1>8, <3>1 DEF BatchInOrder
  <2>3. \A x \in InHand(r)', e \in Due \ InHand(r)' : Before(x, e) BY <1>6, <1>7, <1>9 DEF BatchInOrder
  <2>4. \A x \in InHand(r)', e \in Due' \ InHand(r)' : Before(x, e)' BY <1>8, <2>3
  <2>5. QED BY <2>1, <2>2, <2>4 DEF BatchInOrder
<1>12. \A s \in Replica : AtBatch(s)' => BatchInOrder(s)' BY <1>3, <1>11 DEF AtBatch
<1>13. \A s \in Replica : pc'[s] \in Looping => connected'[s]
  BY <1>2, <1>3 DEF Steady, Looping, AtBatch
<1>14. LogInOrder' BY <1>2, <1>8 DEF Steady, LogInOrder
<1>15. QED BY <1>8, <1>10, <1>12, <1>13, <1>14 DEF Steady

(* The record that is added comes after all the others, and before what is
   still due. *)
LEMMA ProduceSteady ==
    ASSUME OutboxInv, Steady, NEW r \in Replica, Produce(r)
    PROVE  Steady'
<1>1. TypeOK BY DEF OutboxInv
<1> DEFINE h == Head(batch[r])
<1>2. /\ pc[r] = "produce" /\ AtBatch(r) /\ h \in Routable /\ log' = Append(log, h)
      /\ UNCHANGED <<createdAt, committedAt, published, connected>>
      /\ pc'[r] = "mark" /\ batch'[r] = batch[r]
      /\ \A s \in Replica \ {r} : pc'[s] = pc[s] /\ batch'[s] = batch[s] /\ ~ AtBatch(s)
  <2>1. pc[r] = "produce" BY DEF Produce
  <2>2. \A s \in Replica \ {r} : ~ AtBatch(s) BY <2>1, AloneAtWork DEF AtBatch, Leading
  <2>3. QED BY <1>1, <2>1, <2>2 DEF Produce, AtBatch, table, Goto, TypeOK
<1>3. batch[r] \in Seq(Event) /\ batch[r] # <<>> /\ h \in Event BY <1>1, <1>2, HeadIsEvent DEF TypeOK
<1>4. h = batch[r][1] /\ 1 \in DOMAIN batch[r] /\ DOMAIN batch[r] \subseteq Nat \ {0} BY <1>3
<1>5. BatchInOrder(r) /\ h \notin Logged /\ h \in Committed /\ h \in InHand(r)
  <2>1. BatchInOrder(r) BY <1>2 DEF Steady
  <2>2. h \notin Logged BY <1>2, <1>4, <2>1 DEF BatchInOrder
  <2>3. h \in Committed BY <1>4 DEF OutboxInv, BatchesAreCommitted
  <2>4. h \in InHand(r) BY <1>4 DEF InHand
  <2>5. QED BY <2>1, <2>2, <2>3, <2>4
<1>6. Logged' = Logged \cup {h} BY <1>1, <1>2, <1>3, LogAppend
<1>7. Logged \subseteq published BY <1>2, AllMarked
<1>8. InHand(r)' = InHand(r) /\ (\A x, y : Before(x, y)' <=> Before(x, y)) /\ Due' = Due \ {h} /\ h \in Due
  BY <1>2, <1>5, <1>6 DEF InHand, Before, Due, Committed
<1>9. \A e \in Due \ {h} : Before(h, e)
  <2>1. ASSUME NEW i \in DOMAIN batch[r], batch[r][i] # h PROVE Before(h, batch[r][i])
    <3>1. i # 1 BY <1>4, <2>1
    <3>2. 1 < i BY <1>4, <3>1
    <3>3. QED BY <1>4, <1>5, <3>2 DEF BatchInOrder, Before
  <2>2. \A e \in InHand(r) \ {h} : Before(h, e) BY <2>1 DEF InHand
  <2>3. \A e \in Due \ InHand(r) : Before(h, e) BY <1>5 DEF BatchInOrder
  <2>4. QED BY <2>2, <2>3
<1>10. BatchInOrder(r)'
  <2>1. ASSUME NEW i \in DOMAIN batch[r], batch[r][i] \in Logged \cup {h} PROVE i = 1
    <3>1. batch[r][i] = h BY <1>2, <1>5, <2>1 DEF BatchInOrder
    <3>2. i # 1 => createdAt[h] < createdAt[batch[r][i]] BY <1>4, <1>5 DEF BatchInOrder
    <3>3. createdAt[h] \in Nat BY <1>1, <1>3 DEF TypeOK
    <3>4. QED BY <3>1, <3>2, <3>3
  <2>2. \A i, j \in DOMAIN batch'[r] : i < j => createdAt'[batch'[r][i]] < createdAt'[batch'[r][j]]
    BY <1>2, <1>5 DEF BatchInOrder
  <2>3. \A i \in DOMAIN batch'[r] : batch'[r][i] \in Logged' => pc'[r] = "mark" /\ i = 1
    BY <1>2, <1>6, <2>1
  <2>4. \A x \in InHand(r)', e \in Due' \ InHand(r)' : Before(x, e)' BY <1>5, <1>8 DEF BatchInOrder
  <2>5. QED BY <2>2, <2>3, <2>4 DEF BatchInOrder
<1>11. \A s \in Replica : AtBatch(s)' => BatchInOrder(s)' BY <1>2, <1>10 DEF AtBatch
<1>12. \A x \in Logged', e \in Due' : Before(x, e)' BY <1>6, <1>8, <1>9 DEF Steady
<1>13. LogInOrder'
  <2>1. log \in Seq(Event) BY <1>1 DEF TypeOK
  <2> DEFINE n == Len(log)
  <2>2. /\ n \in Nat /\ DOMAIN log = 1..n /\ DOMAIN log' = 1..(n + 1) /\ log'[n + 1] = h
        /\ \A i \in 1..n : log'[i] = log[i]
    BY <1>2, <1>3, <2>1
  <2> HIDE DEF n
  <2>3. \A i \in 1..n : Before(log[i], h) BY <1>8, <2>2 DEF Steady, Logged
  <2>4. ASSUME NEW i \in 1..(n + 1), NEW j \in 1..(n + 1), i < j PROVE Before(log'[i], log'[j])
    <3>1. CASE j = n + 1 BY <2>2, <2>3, <2>4, <3>1
    <3>2. CASE j # n + 1
      <4>1. i \in 1..n /\ j \in 1..n BY <2>2, <2>4, <3>2
      <4>2. QED BY <2>2, <2>4, <4>1 DEF Steady, LogInOrder
    <3>3. QED BY <3>1, <3>2
  <2>5. QED BY <1>8, <2>2, <2>4 DEF LogInOrder
<1>14. \A s \in Replica : pc'[s] \in Looping => connected'[s] BY <1>2 DEF Steady, Looping
<1>15. \A e \in Logged' \ published' : \E s \in Replica : pc'[s] = "mark" /\ Head(batch'[s]) = e
  BY <1>2, <1>6, <1>7
<1>16. QED BY <1>11, <1>12, <1>13, <1>14, <1>15 DEF Steady

LEMMA OrderStep == OrderInv /\ [Next]_vars => OrderInv'
<1> SUFFICES ASSUME OrderInv, [Next]_vars PROVE OrderInv' OBVIOUS
<1>1. OutboxInv /\ Numbered /\ OutboxInv' /\ Numbered' BY InvStep, NumberedStep DEF OrderInv
<1>2. TypeOK BY <1>1 DEF OutboxInv
<1>3. SUFFICES ASSUME faults' = 0 PROVE Steady' BY <1>1 DEF OrderInv
<1>4. ~ Fault BY <1>2, <1>3 DEF Fault, TypeOK
<1>5. faults = 0 => Steady BY DEF OrderInv
<1>6. ASSUME NEW r \in Replica, Spawn(r) \/ TryAcquireLeaderLock(r) \/ Shutdown(r) \/ ObserveCancel(r) \/ Exit(r)
      PROVE  Steady'
  <2>1. UNCHANGED <<createdAt, committedAt, published, log, faults>>
    BY <1>6 DEF Spawn, TryAcquireLeaderLock, Shutdown, ObserveCancel, Exit, table, budget
  <2>2. Steady BY <1>3, <1>5, <2>1
  <2>3. \A s \in Replica \ {r} : pc'[s] = pc[s] /\ batch'[s] = batch[s] /\ connected'[s] = connected[s]
    BY <1>2, <1>6 DEF Spawn, TryAcquireLeaderLock, Shutdown, ObserveCancel, Exit, Goto, TypeOK
  <2>4. \/ ~ AtBatch(r) /\ ~ AtBatch(r)' /\ (pc'[r] \in Looping => connected'[r])
        \/ pc'[r] = pc[r] /\ batch'[r] = batch[r] /\ connected'[r] = connected[r]
    <3>1. CASE Spawn(r) BY <1>2, <3>1 DEF Spawn, Goto, TypeOK, AtBatch
    <3>2. CASE TryAcquireLeaderLock(r) BY <1>2, <3>2 DEF TryAcquireLeaderLock, Goto, TypeOK, AtBatch
    <3>3. CASE Shutdown(r) BY <3>3 DEF Shutdown
    <3>4. CASE ObserveCancel(r) BY <1>2, <3>4 DEF ObserveCancel, Goto, TypeOK, AtBatch, Looping
    <3>5. CASE Exit(r) BY <1>2, <3>5 DEF Exit, Goto, TypeOK, AtBatch, Looping
    <3>6. QED BY <1>6, <3>1, <3>2, <3>3, <3>4, <3>5
  <2>5. QED BY <1>1, <2>1, <2>2, <2>3, <2>4, IdleSteady
<1>7. ASSUME UNCHANGED <<createdAt, committedAt, published, log, pc, batch, connected, faults>> PROVE Steady'
  <2>1. Steady BY <1>3, <1>5, <1>7
  <2>2. QED BY <1>7, <2>1 DEF Steady, Logged, Committed, Due, Before, BatchInOrder, InHand, AtBatch, LogInOrder
<1>8. ASSUME NEW r \in Replica, PollWithoutLock(r) PROVE Steady'
  BY <1>7, <1>8 DEF PollWithoutLock, vars, table, publisher, budget
<1>9. CASE ReleaseOrphanLock BY <1>7, <1>9 DEF ReleaseOrphanLock, table, publisher, budget
<1>10. CASE UNCHANGED vars BY <1>7, <1>10 DEF vars, table, publisher, budget
<1>11. ASSUME NEW d \in Event, Begin(d) \/ Commit(d) \/ Rollback(d) PROVE Steady'
  <2>1. faults' = faults BY <1>11 DEF Begin, Commit, Rollback, budget
  <2>2. QED BY <1>1, <1>3, <1>5, <1>11, <2>1, TransactionsSteady
<1>12. ASSUME NEW r \in Replica, FetchUnpublished(r) \/ SkipUnknown(r) \/ Produce(r) \/ MarkPublished(r) PROVE Steady'
  <2>1. faults' = faults BY <1>12 DEF FetchUnpublished, SkipUnknown, Produce, MarkPublished, budget
  <2>2. QED BY <1>1, <1>3, <1>5, <1>12, <2>1, FetchSteady, TurnSteady, ProduceSteady
<1>13. ASSUME NEW r \in Replica, Failure(r) PROVE FALSE
  BY <1>4, <1>13 DEF Failure, SpawnFails, FetchFails, ProduceFails, MarkFails, Crash, LoseLockConnection
<1>14. QED
  BY <1>6, <1>8, <1>9, <1>10, <1>11, <1>12, <1>13 DEF Next, Transactions, Publish

LEMMA OrderInit == Init => OrderInv
<1> SUFFICES ASSUME Init PROVE OrderInv OBVIOUS
<1>1. OutboxInv BY InvInit
<1>2. \A e \in Event : createdAt[e] = 0 /\ committedAt[e] = 0 BY DEF Init
<1>3. Committed = {} BY <1>2 DEF Committed
<1>4. Numbered BY <1>2, <1>3, FS_EmptySet DEF Numbered
<1>5. log = <<>> /\ Logged = {} BY DEF Init, Logged
<1>6. \A r \in Replica : pc[r] = "down" BY DEF Init
<1>7. Steady BY <1>5, <1>6 DEF Steady, AtBatch, Looping, LogInOrder
<1>8. QED BY <1>1, <1>4, <1>7 DEF OrderInv

(* ORDER BY created_at gives the order of the transactions' begins, but for
   those that overlap, however many replicas take turns at leading. *)
THEOREM RecordsAreOrdered == Spec => []OrderedWithoutFaults
<1>1. OrderInv => OrderedWithoutFaults
  BY DEF OrderInv, Steady, LogInOrder, Before, OrderedWithoutFaults
<1>2. QED BY OrderInit, OrderStep, <1>1, PTL DEF Spec

-----------------------------------------------------------------------------
(***************************************************************************)
(* The platform: the outbox with the consumers behind it.                  *)
(***************************************************************************)

(* The theorems about the pipeline, of this pipeline. *)
MP == INSTANCE MailPipelineProofs
      WITH Event     <- Routable,
           accepted  <- Committed \cap Routable,
           delivered <- log,
           settled   <- published,
           pc        <- member,
           faults    <- mailFaults,
           MaxFaults <- MaxMailFaults

(* A step of the platform is one of the outbox or leaves it alone, so that the
   outbox's invariant holds in the platform. *)
LEMMA PlatformIsOutbox == PlatformSpec => Spec
<1>1. PlatformInit => Init BY DEF PlatformInit
<1>2. [PlatformNext]_platformVars => [Next]_vars
  BY DEF PlatformNext, IdentityStep, MailStep, platformVars
<1>3. QED BY <1>1, <1>2, PTL DEF PlatformSpec, Spec

(* What of a step of the promise the consumers see: a row nobody can route is
   none of their events. *)
LEMMA IdentityStepSeen ==
    ASSUME OutboxInv, IdentityStep
    PROVE  \/ \E e \in Routable : Mail!OutboxStep(e)
           \/ UNCHANGED Mail!pipelineVars
<1>1. [Promise!Next]_(Promise!vars) BY PromiseStep DEF IdentityStep
<1>2. Len(log') <= MaxLog /\ UNCHANGED mailVars BY DEF IdentityStep
<1> DEFINE accepted == Committed \cap Routable
           Idle == UNCHANGED <<accepted, log, published>>
<1>3. UNCHANGED <<kind, Mail!group, Mail!consumers, Mail!provider, mailFaults>>
  BY <1>2 DEF mailVars, Mail!group, Mail!consumers, Mail!provider
<1>4. ASSUME NEW e \in Routable, Mail!Outbox!Accept(e) \/ Mail!Outbox!Deliver(e) \/ Mail!Outbox!Settle(e)
      PROVE  Mail!OutboxStep(e)
  BY <1>2, <1>3, <1>4 DEF Mail!OutboxStep
<1>5. ASSUME NEW e \in Event, Promise!Accept(e)
      PROVE  Idle \/ (e \in Routable /\ Mail!Outbox!Accept(e))
  <2>1. e \in Routable => (Committed \cap Routable)' = (Committed \cap Routable) \cup {e}
    BY <1>5 DEF Promise!Accept
  <2>2. e \notin Routable => UNCHANGED accepted BY <1>5 DEF Promise!Accept
  <2>3. QED BY <1>5, <2>1, <2>2 DEF Promise!Accept, Mail!Outbox!Accept
<1>6. ASSUME NEW e \in Event, Promise!Deliver(e) PROVE e \in Routable /\ Mail!Outbox!Deliver(e)
  BY <1>6 DEF Promise!Deliver, Mail!Outbox!Deliver
<1>7. ASSUME NEW e \in Event, Promise!Settle(e) PROVE e \in Routable /\ Mail!Outbox!Settle(e)
  <2>1. e \in Logged BY <1>7 DEF Promise!Settle, Promise!Logged, Logged
  <2>2. e \in Routable BY <2>1 DEF OutboxInv, LoggedWasCommitted
  <2>3. QED BY <1>7, <2>2 DEF Promise!Settle, Promise!Logged, Mail!Outbox!Settle, Mail!Outbox!Logged
<1>8. ASSUME UNCHANGED Promise!vars PROVE Idle BY <1>8 DEF Promise!vars
<1>9. Idle => UNCHANGED Mail!pipelineVars
  BY <1>3 DEF Mail!pipelineVars, Mail!vars, Mail!group, Mail!consumers, Mail!provider
<1>10. QED BY <1>1, <1>4, <1>5, <1>6, <1>7, <1>8, <1>9 DEF Promise!Next

(* The publishers and the consumers are a pipeline: the outbox keeps the
   promise MailPipeline relies on. *)
THEOREM PlatformIsPipeline == PlatformSpec => Mail!Spec
<1>1. PlatformInit => Mail!PipelineInit
  BY DEF PlatformInit, Init, Mail!PipelineInit, Mail!Outbox!Init, Committed
<1>2. ASSUME OutboxInv, [PlatformNext]_platformVars PROVE [Mail!Next]_(Mail!pipelineVars)
  <2>1. CASE IdentityStep BY <1>2, <2>1, IdentityStepSeen DEF Mail!Next
  <2>2. CASE MailStep
    <3>1. UNCHANGED <<Committed \cap Routable, published>> BY <2>2 DEF MailStep, vars, table, Committed
    <3>2. QED BY <2>2, <3>1 DEF MailStep, Mail!Next
  <2>3. CASE UNCHANGED platformVars
    BY <2>3 DEF platformVars, mailVars, vars, table, Committed, Mail!pipelineVars, Mail!vars,
       Mail!group, Mail!consumers, Mail!provider
  <2>4. QED BY <1>2, <2>1, <2>2, <2>3 DEF PlatformNext
<1>3. PlatformSpec => []OutboxInv BY PlatformIsOutbox, Invariance, PTL
<1>4. QED BY <1>1, <1>2, <1>3, PTL DEF PlatformSpec, Mail!Spec

(* Mail and MP are the same pipeline, so its theorems hold of it. *)
LEMMA SamePipeline == Mail!Spec => MP!Spec
<1>1. Mail!PipelineInit => MP!PipelineInit
  BY DEF Mail!PipelineInit, MP!PipelineInit, Mail!Init, MP!Init, Mail!Outbox!Init, MP!Outbox!Init,
     Mail!Kind, MP!Kind
<1> USE DEF Mail!group, MP!group, Mail!consumers, MP!consumers, Mail!provider, MP!provider
<1>2. Mail!ConsumerNext => MP!ConsumerNext
  BY
  DEF Mail!Goto, MP!Goto, Mail!Fault, MP!Fault, Mail!NoFault, MP!NoFault, Mail!HasRecord,
    MP!HasRecord, Mail!Record, MP!Record, Mail!Start, MP!Start, Mail!StartOffset,
    MP!StartOffset, Mail!Assign, MP!Assign, Mail!Revoke, MP!Revoke, Mail!Commit, MP!Commit,
    Mail!Stop, MP!Stop, Mail!Crash, MP!Crash, Mail!Return, MP!Return, Mail!Throw, MP!Throw,
    Mail!HasContent, MP!HasContent, Mail!Retryable, MP!Retryable, Mail!SkipRecord,
    MP!SkipRecord, Mail!DecodeFails, MP!DecodeFails, Mail!Send, MP!Send, Mail!Succeed,
    MP!Succeed, Mail!GiveUp, MP!GiveUp, Mail!Retry, MP!Retry, Mail!AnswerWith, MP!AnswerWith,
    Mail!Deduplicate, MP!Deduplicate, Mail!Accepted, MP!Accepted, Mail!Refused, MP!Refused,
    Mail!RequestFails, MP!RequestFails, Mail!Forget, MP!Forget, Mail!Step, MP!Step,
    Mail!ConsumerNext, MP!ConsumerNext
<1>3. ASSUME NEW e \in Routable, Mail!OutboxStep(e) PROVE MP!OutboxStep(e)
  BY <1>3 DEF Mail!OutboxStep, MP!OutboxStep, Mail!Outbox!Accept, MP!Outbox!Accept, Mail!Outbox!Deliver,
     MP!Outbox!Deliver, Mail!Outbox!Settle, MP!Outbox!Settle, Mail!Outbox!Logged, MP!Outbox!Logged
<1>4. Mail!Next => MP!Next BY <1>2, <1>3 DEF Mail!Next, MP!Next
<1>5. UNCHANGED Mail!pipelineVars => UNCHANGED MP!pipelineVars
  BY DEF Mail!pipelineVars, MP!pipelineVars, Mail!vars, MP!vars
<1>6. [Mail!Next]_(Mail!pipelineVars) => [MP!Next]_(MP!pipelineVars) BY <1>4, <1>5
<1>7. QED BY <1>1, <1>6, PTL DEF Mail!Spec, MP!Spec

LEMMA MailParameters == MailAssumption => MP!ConsumerAssumption /\ MP!PipelineAssumption
BY DEF MailAssumption, Mail!ConsumerAssumption, Mail!PipelineAssumption, MP!ConsumerAssumption,
   MP!PipelineAssumption

(* Behind the real outbox, too, the group passes no record that was neither
   mailed nor skipped on purpose. *)
THEOREM PlatformSkipsNothing ==
    ASSUME MailAssumption PROVE PlatformSpec => []Mail!NoRecordSkipped
<1>1. MP!Spec => []MP!NoRecordSkipped BY MailParameters, MP!NothingSkipped
<1>2. MP!NoRecordSkipped => Mail!NoRecordSkipped
  BY DEF MP!NoRecordSkipped, Mail!NoRecordSkipped, MP!Handled, Mail!Handled
<1>3. QED BY <1>1, <1>2, PlatformIsPipeline, SamePipeline, PTL

(* From a domain transaction to the mailbox: each mail is of a committed event,
   and each beyond the first has cost a forgotten key. *)
THEOREM PlatformMailsAreCharged ==
    ASSUME MailAssumption PROVE PlatformSpec => []Mail!MailsAreBacked
<1>1. MP!Spec => []MP!MailsAreBacked BY MailParameters, MP!MailsAreCharged
<1>2. MP!MailsAreBacked => Mail!MailsAreBacked BY DEF MP!MailsAreBacked, Mail!MailsAreBacked
<1>3. QED BY <1>1, <1>2, PlatformIsPipeline, SamePipeline, PTL

(* The platform keeps the promise of the mail pipeline. *)
THEOREM PlatformKeepsMailPromise ==
    ASSUME MailAssumption PROVE PlatformSpec => Mail!ImplementsMailPromise
<1>1. MP!Spec => MP!ImplementsMailPromise BY MailParameters, MP!MailPromiseKept
<1> USE DEF Mail!Promise!Accept, MP!Promise!Accept, Mail!Promise!Mail, MP!Promise!Mail,
            Mail!Promise!Forget, MP!Promise!Forget
<1>2. MP!Promise!Init => Mail!Promise!Init BY DEF MP!Promise!Init, Mail!Promise!Init
<1>3. [MP!Promise!Next]_(MP!Promise!vars) => [Mail!Promise!Next]_(Mail!Promise!vars)
  BY DEF MP!Promise!Next, Mail!Promise!Next, MP!Promise!vars, Mail!Promise!vars
<1>4. MP!ImplementsMailPromise => Mail!ImplementsMailPromise
  BY <1>2, <1>3, PTL DEF MP!ImplementsMailPromise, Mail!ImplementsMailPromise, MP!Promise!Spec, Mail!Promise!Spec
<1>5. QED BY <1>1, <1>4, PlatformIsPipeline, SamePipeline, PTL

(* A transaction ends once. *)
LEMMA EndedOnce == Spec => [](Committed \cap aborted = {})
<1> DEFINE Once == Committed \cap aborted = {}
<1>1. Init => Once BY DEF Init
<1>2. ASSUME TypeOK, Once, [Next]_vars PROVE Once'
  <2>1. ASSUME NEW e \in Event, Commit(e) PROVE Once'
    <3>1. e \notin aborted /\ aborted' = aborted /\ \A d \in Event \ {e} : committedAt'[d] = committedAt[d]
      BY <1>2, <2>1 DEF Commit, Open, TypeOK
    <3>2. QED BY <1>2, <3>1 DEF Committed
  <2>2. ASSUME NEW e \in Event, Rollback(e) PROVE Once'
    <3>1. ~ (committedAt[e] > 0) /\ aborted' = aborted \cup {e} /\ committedAt' = committedAt
      BY <2>2 DEF Rollback, Open
    <3>2. QED BY <1>2, <3>1 DEF Committed
  <2>3. ASSUME UNCHANGED <<committedAt, aborted>> PROVE Once' BY <1>2, <2>3 DEF Committed
  <2>4. ASSUME NEW e \in Event, Begin(e) PROVE UNCHANGED <<committedAt, aborted>> BY <2>4 DEF Begin
  <2>5. ASSUME NEW r \in Replica, Publish(r) \/ Failure(r) PROVE UNCHANGED <<committedAt, aborted>>
    BY <2>5 DEF Publish, Failure, Spawn, SpawnFails, TryAcquireLeaderLock, PollWithoutLock,
       FetchUnpublished, FetchFails, SkipUnknown, Produce, ProduceFails, MarkPublished, MarkFails,
       Shutdown, ObserveCancel, Exit, Crash, LoseLockConnection, table, vars
  <2>6. ASSUME ReleaseOrphanLock \/ UNCHANGED vars PROVE UNCHANGED <<committedAt, aborted>>
    BY <2>6 DEF ReleaseOrphanLock, table, vars
  <2>7. QED BY <1>2, <2>1, <2>2, <2>3, <2>4, <2>5, <2>6 DEF Next, Transactions
<1>3. QED BY <1>1, <1>2, TypeCorrect, PTL DEF Spec

(* No mail tells of a transaction that rolled back or has not committed. *)
THEOREM MailsTellTheTruth ==
    ASSUME MailAssumption PROVE PlatformSpec => []MailedWasCommitted
<1>1. MP!Spec => []MP!PipelineTypeOK BY MailParameters, MP!PipelineTypeCorrect
<1>2. ASSUME MP!PipelineTypeOK, Mail!MailsAreBacked, Committed \cap aborted = {} PROVE MailedWasCommitted
  <2> SUFFICES ASSUME NEW e \in Routable, mails[e] > 0 PROVE e \in Committed \ aborted
    BY DEF MailedWasCommitted
  <2>1. mails[e] \in Nat BY <1>2 DEF MP!PipelineTypeOK, MP!TypeOK
  <2>2. e \in Committed BY <1>2, <2>1 DEF Mail!MailsAreBacked
  <2>3. QED BY <1>2, <2>2
<1>3. QED BY <1>1, <1>2, EndedOnce, PlatformIsOutbox, PlatformMailsAreCharged, PlatformIsPipeline,
  SamePipeline, PTL

(* Nothing falls between the services: what is published for good was handled,
   or its record is still ahead of the group or before its beginning. *)
THEOREM NothingFallsBetween ==
    ASSUME MailAssumption PROVE PlatformSpec => []PublishedIsHandledOrAhead
<1>1. MP!Spec => []MP!PipelineTypeOK BY MailParameters, MP!PipelineTypeCorrect
<1>2. ASSUME MP!PipelineTypeOK, Mail!NoRecordSkipped, OutboxInv PROVE PublishedIsHandledOrAhead
  <2> SUFFICES ASSUME NEW e \in published, ~ Mail!Handled(e)
               PROVE  \E i \in DOMAIN log : log[i] = e /\ (committed = None \/ i <= base \/ i > committed)
    BY DEF PublishedIsHandledOrAhead
  <2>1. PICK i \in DOMAIN log : log[i] = e BY <1>2 DEF OutboxInv, PublishedWasLogged, Logged
  <2>2. /\ committed \in Nat \cup {None} /\ base \in Nat
    BY <1>2 DEF MP!PipelineTypeOK, MP!TypeOK
  <2>3. i \in Nat
    <3>1. log \in Seq(Event) BY <1>2 DEF OutboxInv, TypeOK
    <3>2. QED BY <3>1
  <2>4. CASE committed # None /\ i > base /\ i <= committed
    <3>1. i \in base + 1..committed BY <2>2, <2>3, <2>4
    <3>2. Mail!Handled(log[i]) BY <1>2, <2>4, <3>1 DEF Mail!NoRecordSkipped
    <3>3. QED BY <2>1, <3>2
  <2>5. CASE ~ (committed # None /\ i > base /\ i <= committed) BY <2>1, <2>2, <2>3, <2>5
  <2>6. QED BY <2>4, <2>5
<1>3. PlatformSpec => []OutboxInv BY PlatformIsOutbox, Invariance, PTL
<1>4. QED BY <1>1, <1>2, <1>3, PlatformSkipsNothing, PlatformIsPipeline, SamePipeline, PTL
=============================================================================
