-------------------------- MODULE IdentityChannel --------------------------
(***************************************************************************)
(* The gateway's mTLS channel to the identity service                      *)
(* (services/gateway/src/pool.rs): created once, shared by all request     *)
(* tasks behind an RwLock, and rebuilt by the first task that sees that    *)
(* the X.509 SVID has rotated.                                             *)
(*                                                                         *)
(* An SVID is known by its rotation sequence number.  The atomic loads and *)
(* the awaits of client() are step boundaries; what client() does between  *)
(* two of them is one step.                                                *)
(***************************************************************************)
EXTENDS Naturals

CONSTANTS
    Task,          \* request tasks of the gateway
    MaxRotations,  \* bound on rotations
    MaxFailures,   \* bound on failed or abandoned calls
    None           \* no task, no client

ASSUME ChannelAssumption ==
    /\ MaxRotations \in Nat /\ MaxFailures \in Nat
    /\ None \notin Task \cup Nat

VARIABLES
    seq,         \* source.updated().last(), and the SVID a handshake picks up
    channel,     \* the SVID of the connection behind the RwLock
    createdSeq,  \* created_seq
    phase,       \* of new: "connect", "record", then "ready"
    bornStale,   \* history: a rotation fell between the two steps of new
    rebuilt,     \* history: the channel was rebuilt since
    writer,      \* holder of the write lock
    pc,          \* where each task is in client()
    current,     \* its current_seq
    handshake,   \* the SVID of the connection it is building
    client,      \* the SVID of the client its last call returned
    failures     \* failed or abandoned calls so far

created == <<phase, bornStale>>
local   == <<pc, current, handshake, client>>
vars    == <<seq, channel, createdSeq, created, rebuilt, writer, local, failures>>

Building == {"connect", "store"}
PC == {"idle", "compare", "read", "write"} \cup Building

TypeOK ==
    /\ seq \in 0..MaxRotations
    /\ channel \in Nat
    /\ createdSeq \in Nat
    /\ phase \in {"connect", "record", "ready"}
    /\ bornStale \in BOOLEAN
    /\ rebuilt \in BOOLEAN
    /\ writer \in Task \cup {None}
    /\ pc \in [Task -> PC]
    /\ current \in [Task -> Nat]
    /\ handshake \in [Task -> Nat]
    /\ client \in [Task -> Nat \cup {None}]
    /\ failures \in 0..MaxFailures

Init ==
    /\ seq = 0
    /\ channel = 0
    /\ createdSeq = 0
    /\ phase = "connect"
    /\ bornStale = FALSE
    /\ rebuilt = FALSE
    /\ writer = None
    /\ pc = [t \in Task |-> "idle"]
    /\ current = [t \in Task |-> 0]
    /\ handshake = [t \in Task |-> 0]
    /\ client = [t \in Task |-> None]
    /\ failures = 0

Goto(t, p) == pc' = [pc EXCEPT ![t] = p]

-----------------------------------------------------------------------------
(* new: the connection first, the sequence number afterwards. *)

NewConnect ==
    /\ phase = "connect"
    /\ phase' = "record"
    /\ channel' = seq
    /\ UNCHANGED <<seq, createdSeq, bornStale, rebuilt, writer, local, failures>>

NewRecord ==
    /\ phase = "record"
    /\ phase' = "ready"
    /\ createdSeq' = seq
    /\ bornStale' = (channel < seq)
    /\ UNCHANGED <<seq, channel, rebuilt, writer, local, failures>>

-----------------------------------------------------------------------------
(* client. *)

Call(t) ==
    /\ phase = "ready"
    /\ pc[t] = "idle"
    /\ current' = [current EXCEPT ![t] = seq]
    /\ client' = [client EXCEPT ![t] = None]
    /\ Goto(t, "compare")
    /\ UNCHANGED <<seq, channel, createdSeq, created, rebuilt, writer, handshake, failures>>

Compare(t) ==
    /\ pc[t] = "compare"
    /\ Goto(t, IF current[t] = createdSeq THEN "read" ELSE "write")
    /\ UNCHANGED <<seq, channel, createdSeq, created, rebuilt, writer, current, handshake, client, failures>>

Return(t, svid) ==
    /\ client' = [client EXCEPT ![t] = svid]
    /\ Goto(t, "idle")

ReadChannel(t) ==
    /\ pc[t] = "read"
    /\ writer = None
    /\ Return(t, channel)
    /\ UNCHANGED <<seq, channel, createdSeq, created, rebuilt, writer, current, handshake, failures>>

(* The write lock, and the double check under it. *)
TakeWriteLock(t) ==
    /\ pc[t] = "write"
    /\ writer = None
    /\ IF createdSeq = current[t]
       THEN Return(t, channel) /\ UNCHANGED writer
       ELSE Goto(t, "connect") /\ writer' = t /\ UNCHANGED client
    /\ UNCHANGED <<seq, channel, createdSeq, created, rebuilt, current, handshake, failures>>

(* connect, up to the handshake. *)
Connect(t) ==
    /\ pc[t] = "connect"
    /\ handshake' = [handshake EXCEPT ![t] = seq]
    /\ Goto(t, "store")
    /\ UNCHANGED <<seq, channel, createdSeq, created, rebuilt, writer, current, client, failures>>

StoreLatest(t) == \* mutant: the sequence is read again after the handshake
    /\ pc[t] = "store"
    /\ channel' = handshake[t]
    /\ createdSeq' = seq
    /\ rebuilt' = TRUE
    /\ writer' = None
    /\ Return(t, handshake[t])
    /\ UNCHANGED <<seq, created, current, handshake, failures>>
StoreChannelOnly(t) == \* mutant: the sequence is not stored
    /\ pc[t] = "store"
    /\ channel' = handshake[t]
    /\ rebuilt' = TRUE
    /\ writer' = None
    /\ Return(t, handshake[t])
    /\ UNCHANGED <<seq, createdSeq, created, current, handshake, failures>>
Store(t) ==
    /\ pc[t] = "store"
    /\ channel' = handshake[t]
    /\ createdSeq' = current[t]
    /\ rebuilt' = TRUE
    /\ writer' = None
    /\ Return(t, handshake[t])
    /\ UNCHANGED <<seq, created, current, handshake, failures>>

(* connect fails, or the request is dropped while it waits: the guards are
   dropped with it. *)
AbandonHoldingLock(t) == \* mutant: the lock outlives the call
    /\ pc[t] \in {"read", "write"} \cup Building
    /\ failures < MaxFailures
    /\ failures' = failures + 1
    /\ Goto(t, "idle")
    /\ UNCHANGED <<seq, channel, createdSeq, created, rebuilt, writer, current, handshake, client>>
Abandon(t) ==
    /\ pc[t] \in {"read", "write"} \cup Building
    /\ failures < MaxFailures
    /\ failures' = failures + 1
    /\ writer' = IF writer = t THEN None ELSE writer
    /\ Goto(t, "idle")
    /\ UNCHANGED <<seq, channel, createdSeq, created, rebuilt, current, handshake, client>>

-----------------------------------------------------------------------------
(* The environment. *)

Rotate ==
    /\ seq < MaxRotations
    /\ seq' = seq + 1
    /\ UNCHANGED <<channel, createdSeq, created, rebuilt, writer, local, failures>>

(* A channel that lost its connection dials again, with the SVID of the time. *)
Redial ==
    /\ phase = "ready"
    /\ channel' = seq
    /\ UNCHANGED <<seq, createdSeq, created, rebuilt, writer, local, failures>>

Proceed(t) == Compare(t) \/ ReadChannel(t) \/ TakeWriteLock(t) \/ Connect(t) \/ Store(t)

Next ==
    \/ NewConnect \/ NewRecord
    \/ \E t \in Task : Call(t) \/ Proceed(t) \/ Abandon(t)
    \/ Rotate \/ Redial

Spec == Init /\ [][Next]_vars

(* Tasks are polled and tokio's RwLock is fair.  That an attempt to connect ends
   is an assumption on the peer: the endpoint sets no time-out, so an identity
   service that accepts and then stays silent holds the write lock. *)
Fairness ==
    \A t \in Task :
        /\ WF_vars(Compare(t)) /\ WF_vars(Connect(t)) /\ WF_vars(Store(t))
        /\ SF_vars(ReadChannel(t)) /\ SF_vars(TakeWriteLock(t))

FairSpec == Spec /\ Fairness
-----------------------------------------------------------------------------
(* Properties. *)

(* The doc of client (pool.rs:78-80): if the SVID has rotated "since the
   channel was created", the channel is rebuilt "before returning the
   client".  So a client is never older than the rotation its call saw. *)
FreshClient == \A t \in Task : client[t] # None => client[t] >= current[t]

(* What holds: a call may hand out such a client only while it shares the
   channel that new connected before a rotation and recorded after it; from the
   first rebuild on, and however rebuilds race, no call does. *)
FreshAfterRebuild ==
    [][rebuilt' \/ ~ bornStale =>
        \A t \in Task : client'[t] \notin {client[t], None} => client'[t] >= current[t]]_vars

(* The write lock belongs to a call that is building a connection, and to no
   other: two never build at once, and whoever waits for the lock waits for a
   call that waits for nobody (pool.rs:89-100). *)
LockIsOfTheBuilder == \A t \in Task : pc[t] \in Building <=> writer = t

(* The strengthening of FreshAfterRebuild.  No call, and no rebuild, starts
   before new is done. *)
NoEarlyCalls == phase # "ready" => ~ rebuilt /\ \A t \in Task : pc[t] = "idle"

(* created_seq never promises more than the connection has, and a task that
   found it equal to its own sequence may rely on the connection. *)
RecordIsHonest ==
    \/ phase # "ready"
    \/ bornStale /\ ~ rebuilt
    \/ /\ createdSeq <= channel
       /\ \A t \in Task : pc[t] = "read" => current[t] <= channel

(* A connection about to be stored is at least as fresh as the record and as
   every task that is about to use it. *)
BuildsForward ==
    /\ createdSeq <= seq
    /\ \A t \in Task : current[t] <= seq
    /\ \A t \in Task : pc[t] = "store" =>
          /\ current[t] <= handshake[t]
          /\ createdSeq <= handshake[t]
          /\ \A s \in Task : pc[s] = "read" => current[s] <= handshake[t]

ChannelInv == TypeOK /\ LockIsOfTheBuilder /\ NoEarlyCalls /\ RecordIsHonest /\ BuildsForward

(* client() ends: nobody waits for the lock for ever, not even when a holder
   failed or was dropped. *)
CallsEnd == \A t \in Task : pc[t] # "idle" ~> pc[t] = "idle"

(* A late task can store an older sequence over a newer one, and the next one
   rebuilds again; but once rotations stop, and while calls go on, the record
   settles on the last rotation. *)
Settles ==
    ([]<><<\E t \in Task : Call(t)>>_vars /\ <>[][~ \E t \in Task : Abandon(t)]_vars)
        => <>[](createdSeq = seq)
=============================================================================
