----------------------- MODULE IdentityChannelProofs -----------------------
(***************************************************************************)
(* Proofs about IdentityChannel, for any number of tasks, of rotations and *)
(* of failures.                                                            *)
(***************************************************************************)
EXTENDS IdentityChannel, TLAPS

(* Type correctness. *)
LEMMA TypeInit == Init => TypeOK
<1> SUFFICES ASSUME Init PROVE TypeOK OBVIOUS
<1>2. /\ pc \in [Task -> PC]
      /\ current \in [Task -> Nat] /\ handshake \in [Task -> Nat]
      /\ client \in [Task -> Nat \cup {None}]
  BY DEF Init, PC
<1>3. bornStale \in BOOLEAN /\ rebuilt \in BOOLEAN
  BY DEF Init
<1>4. /\ seq \in 0..MaxRotations /\ failures \in 0..MaxFailures
      /\ channel \in Nat /\ createdSeq \in Nat
  BY ChannelAssumption DEF Init
<1>5. QED BY <1>2, <1>3, <1>4 DEF Init, TypeOK

(* Every step keeps the types. *)
LEMMA TypeStep == TypeOK /\ [Next]_vars => TypeOK'
<1> SUFFICES ASSUME TypeOK, [Next]_vars PROVE TypeOK' OBVIOUS
<1> USE ChannelAssumption DEF TypeOK, PC, Building, Goto, Return, created, local
<1>1. CASE NewConnect BY <1>1 DEF NewConnect
<1>2. CASE NewRecord BY <1>2 DEF NewRecord
<1>3. ASSUME NEW t \in Task, Call(t) PROVE TypeOK' BY <1>3 DEF Call
<1>4. ASSUME NEW t \in Task, Compare(t) PROVE TypeOK' BY <1>4 DEF Compare
<1>5. ASSUME NEW t \in Task, ReadChannel(t) PROVE TypeOK' BY <1>5 DEF ReadChannel
<1>6. ASSUME NEW t \in Task, TakeWriteLock(t) PROVE TypeOK' BY <1>6 DEF TakeWriteLock
<1>7. ASSUME NEW t \in Task, Connect(t) PROVE TypeOK' BY <1>7 DEF Connect
<1>8. ASSUME NEW t \in Task, Store(t) PROVE TypeOK' BY <1>8 DEF Store
<1>9. ASSUME NEW t \in Task, Abandon(t) PROVE TypeOK' BY <1>9 DEF Abandon
<1>10. CASE Rotate BY <1>10 DEF Rotate
<1>11. CASE Redial BY <1>11 DEF Redial
<1>12. CASE UNCHANGED vars BY <1>12 DEF vars
<1>13. QED
  BY <1>1, <1>2, <1>3, <1>4, <1>5, <1>6, <1>7, <1>8, <1>9, <1>10, <1>11, <1>12
  DEF Next, Proceed

(* The lock, the tasks and the record of the channel keep their types. *)
THEOREM TypeCorrect == Spec => []TypeOK
<1>1. QED BY TypeInit, TypeStep, PTL DEF Spec

-----------------------------------------------------------------------------
(* Exclusion: the lock is taken by who starts to build, and given back by who
   ends. *)
LEMMA LockInit == Init => LockIsOfTheBuilder
BY ChannelAssumption DEF Init, LockIsOfTheBuilder, Building

LEMMA LockStep == TypeOK /\ LockIsOfTheBuilder /\ [Next]_vars => LockIsOfTheBuilder'
<1> SUFFICES ASSUME TypeOK, LockIsOfTheBuilder, [Next]_vars PROVE LockIsOfTheBuilder' OBVIOUS
<1>0. /\ pc \in [Task -> PC] /\ writer \in Task \cup {None} /\ None \notin Task
      /\ \A t \in Task : pc[t] \in Building <=> writer = t
  BY ChannelAssumption DEF TypeOK, LockIsOfTheBuilder
<1> USE DEF LockIsOfTheBuilder, Building, Goto, Return, created, local
<1>1. ASSUME NEW t \in Task, NEW p, p \in Building <=> pc[t] \in Building,
             pc' = [pc EXCEPT ![t] = p], writer' = writer
      PROVE  LockIsOfTheBuilder'
  BY <1>0, <1>1
<1>2. ASSUME NewConnect \/ NewRecord \/ Rotate \/ Redial \/ UNCHANGED vars PROVE LockIsOfTheBuilder'
  BY <1>0, <1>2 DEF NewConnect, NewRecord, Rotate, Redial, vars
<1>3. ASSUME NEW t \in Task, Call(t) PROVE LockIsOfTheBuilder' BY <1>1, <1>3 DEF Call
<1>4. ASSUME NEW t \in Task, Compare(t) PROVE LockIsOfTheBuilder' BY <1>1, <1>4 DEF Compare
<1>5. ASSUME NEW t \in Task, ReadChannel(t) PROVE LockIsOfTheBuilder' BY <1>1, <1>5 DEF ReadChannel
<1>6. ASSUME NEW t \in Task, TakeWriteLock(t) PROVE LockIsOfTheBuilder'
  <2>1. CASE createdSeq = current[t] BY <1>1, <1>6, <2>1 DEF TakeWriteLock
  <2>2. CASE createdSeq # current[t] BY <1>0, <1>6, <2>2 DEF TakeWriteLock
  <2>3. QED BY <2>1, <2>2
<1>7. ASSUME NEW t \in Task, Connect(t) PROVE LockIsOfTheBuilder' BY <1>1, <1>7 DEF Connect
<1>8. ASSUME NEW t \in Task, Store(t) \/ Abandon(t) PROVE LockIsOfTheBuilder'
  <2>1. pc' = [pc EXCEPT ![t] = "idle"] /\ writer' = IF writer = t THEN None ELSE writer
    BY <1>0, <1>8 DEF Store, Abandon
  <2>2. QED BY <1>0, <2>1
<1>9. QED BY <1>2, <1>3, <1>4, <1>5, <1>6, <1>7, <1>8 DEF Next, Proceed

(* At most one call builds a connection, and the lock never outlives it,
   whichever calls fail or are dropped. *)
THEOREM OneCallBuilds == Spec => []LockIsOfTheBuilder
<1>1. QED BY TypeInit, TypeStep, LockInit, LockStep, PTL DEF Spec

-----------------------------------------------------------------------------
(* The inductive invariant holds of a channel that new has not connected. *)
LEMMA InvInit == Init => ChannelInv
BY TypeInit, LockInit, ChannelAssumption
DEF Init, ChannelInv, NoEarlyCalls, RecordIsHonest, BuildsForward

(* Every step preserves it: a task that stores holds the lock alone, and what
   it stores is at least as fresh as what any reader counts on. *)
LEMMA InvStep == ChannelInv /\ [Next]_vars => ChannelInv'
<1> SUFFICES ASSUME ChannelInv, [Next]_vars PROVE ChannelInv' OBVIOUS
<1>0. TypeOK /\ TypeOK' /\ LockIsOfTheBuilder /\ LockIsOfTheBuilder' BY TypeStep, LockStep DEF ChannelInv
<1> USE <1>0, ChannelAssumption DEF Goto, Return, created, local
<1> DEFINE Parts == NoEarlyCalls /\ RecordIsHonest /\ BuildsForward
<1>a. Parts BY DEF ChannelInv
<1>1. ASSUME NewConnect PROVE Parts'
  BY <1>a, <1>1 DEF NewConnect, NoEarlyCalls, RecordIsHonest, BuildsForward, TypeOK
<1>2. ASSUME NewRecord PROVE Parts'
  <2>1. NoEarlyCalls' /\ BuildsForward'
    BY <1>a, <1>2 DEF NewRecord, NoEarlyCalls, BuildsForward, TypeOK
  <2>2. \A t \in Task : pc'[t] = "idle"
    BY <1>a, <1>2 DEF NewRecord, NoEarlyCalls
  <2>3. ASSUME channel < seq PROVE RecordIsHonest'
    <3>1. bornStale' BY <1>2, <2>3 DEF NewRecord
    <3>2. ~ rebuilt' BY <1>a, <1>2 DEF NewRecord, NoEarlyCalls
    <3>3. QED BY <3>1, <3>2 DEF RecordIsHonest
  <2>4. ASSUME channel >= seq PROVE RecordIsHonest'
    <3>1. createdSeq' <= channel' BY <1>2, <2>4 DEF NewRecord
    <3>2. QED BY <2>2, <3>1 DEF RecordIsHonest
  <2>5. seq \in Nat /\ channel \in Nat BY DEF TypeOK
  <2>6. QED BY <2>1, <2>3, <2>4, <2>5
<1>3. ASSUME NEW t \in Task, Call(t) PROVE Parts'
  BY <1>a, <1>3 DEF Call, NoEarlyCalls, RecordIsHonest, BuildsForward, TypeOK
<1>4. ASSUME NEW t \in Task, Compare(t) PROVE Parts'
  BY <1>a, <1>4 DEF Compare, NoEarlyCalls, RecordIsHonest, BuildsForward, TypeOK
<1>5. ASSUME NEW t \in Task, ReadChannel(t) PROVE Parts'
  BY <1>a, <1>5 DEF ReadChannel, NoEarlyCalls, RecordIsHonest, BuildsForward, TypeOK
<1>6. ASSUME NEW t \in Task, TakeWriteLock(t) PROVE Parts'
  BY <1>a, <1>6 DEF TakeWriteLock, NoEarlyCalls, RecordIsHonest, BuildsForward, TypeOK
<1>7. ASSUME NEW t \in Task, Connect(t) PROVE Parts'
  <2>1. NoEarlyCalls' /\ RecordIsHonest'
    BY <1>a, <1>7 DEF Connect, NoEarlyCalls, RecordIsHonest, TypeOK
  <2>2. BuildsForward'
    BY <1>a, <1>7 DEF Connect, BuildsForward, TypeOK
  <2>3. QED BY <2>1, <2>2
<1>8. ASSUME NEW t \in Task, Store(t) PROVE Parts'
  <2>1. \A s \in Task : s # t => pc[s] \notin Building
    BY <1>8 DEF Store, LockIsOfTheBuilder, Building
  <2>2. NoEarlyCalls'
    BY <1>a, <1>8 DEF Store, NoEarlyCalls, TypeOK
  <2>3. RecordIsHonest'
    BY <1>a, <1>8 DEF Store, RecordIsHonest, BuildsForward, TypeOK
  <2>4. BuildsForward'
    BY <1>a, <1>8, <2>1 DEF Store, BuildsForward, TypeOK, Building
  <2>5. QED BY <2>2, <2>3, <2>4
<1>9. ASSUME NEW t \in Task, Abandon(t) PROVE Parts'
  BY <1>a, <1>9 DEF Abandon, NoEarlyCalls, RecordIsHonest, BuildsForward, TypeOK
<1>10. ASSUME Rotate PROVE Parts'
  BY <1>a, <1>10 DEF Rotate, NoEarlyCalls, RecordIsHonest, BuildsForward, TypeOK
<1>11. ASSUME Redial PROVE Parts'
  BY <1>a, <1>11 DEF Redial, NoEarlyCalls, RecordIsHonest, BuildsForward, TypeOK
<1>12. ASSUME UNCHANGED vars PROVE Parts'
  BY <1>a, <1>12 DEF vars, NoEarlyCalls, RecordIsHonest, BuildsForward
<1>13. Parts'
  BY <1>1, <1>2, <1>3, <1>4, <1>5, <1>6, <1>7, <1>8, <1>9, <1>10, <1>11, <1>12
  DEF Next, Proceed
<1>14. QED BY <1>0, <1>13 DEF ChannelInv

(* The inductive invariant holds always: created_seq never promises more than
   the connection has, unless new recorded a rotation it had missed. *)
THEOREM Invariance == Spec => []ChannelInv
<1>1. QED BY InvInit, InvStep, PTL DEF Spec

-----------------------------------------------------------------------------
(* Every way client() returns hands out a connection as fresh as the sequence
   the call read, except from a channel born stale and never rebuilt. *)
LEMMA FreshStep ==
    ChannelInv /\ [Next]_vars =>
        [rebuilt' \/ ~ bornStale =>
            \A t \in Task : client'[t] \notin {client[t], None} => client'[t] >= current[t]]_vars
<1> SUFFICES ASSUME ChannelInv, Next, rebuilt' \/ ~ bornStale,
                    NEW t \in Task, client'[t] \notin {client[t], None}
             PROVE  client'[t] >= current[t]
  OBVIOUS
<1> USE ChannelAssumption DEF ChannelInv, TypeOK, Goto, Return, created, local
<1>1. ASSUME NEW s \in Task, ReadChannel(s) PROVE client'[t] >= current[t]
  BY <1>1 DEF ReadChannel, RecordIsHonest, NoEarlyCalls
<1>2. ASSUME NEW s \in Task, TakeWriteLock(s) PROVE client'[t] >= current[t]
  BY <1>2 DEF TakeWriteLock, RecordIsHonest, NoEarlyCalls
<1>3. ASSUME NEW s \in Task, Store(s) PROVE client'[t] >= current[t]
  BY <1>3 DEF Store, BuildsForward
<1>4. ASSUME NEW s \in Task, Call(s) \/ Compare(s) \/ Connect(s) \/ Abandon(s)
      PROVE  client'[t] \in {client[t], None}
  BY <1>4 DEF Call, Compare, Connect, Abandon
<1>5. CASE NewConnect \/ NewRecord \/ Rotate \/ Redial
  BY <1>5 DEF NewConnect, NewRecord, Rotate, Redial
<1>6. QED BY <1>1, <1>2, <1>3, <1>4, <1>5 DEF Next, Proceed

(* From the first rebuild on, and before any rotation that new missed, a call
   never hands out a client older than the rotation it saw, however many tasks
   race, fail or store an older sequence over a newer one. *)
THEOREM ClientsAreFresh == Spec => FreshAfterRebuild
<1>1. QED BY Invariance, FreshStep, PTL DEF Spec, FreshAfterRebuild
=============================================================================
