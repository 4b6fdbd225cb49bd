--------------------------- MODULE EmailConsumer ---------------------------
(***************************************************************************)
(* The consumers of the e-mail service: email/src/index.ts,                *)
(* consumer/{index,handler}.ts, templates/index.tsx, sender/resend.ts.     *)
(*                                                                         *)
(* One partition of the topic "email.auth" is the sequence delivered,      *)
(* which the outbox publishers extend (module MailPipeline).  KafkaJS runs *)
(* eachMessage for one record at a time and keeps the position in memory;  *)
(* the group's offset is committed behind it.  A member that lost the      *)
(* partition goes on with its record until it learns of the rebalance.     *)
(* The await of the provider's answer is the step boundary of the handler. *)
(***************************************************************************)
EXTENDS Naturals, Sequences

CONSTANTS
    Event,        \* identities of outbox rows: idempotency keys
    Consumer,     \* replicas of the e-mail service
    MaxFaults,    \* bound on crashes, stops, rebalances and provider failures
    MaxForgets,   \* bound on idempotency keys that expire
    None          \* no offset, no owner

(* What a record is: a mail the provider takes; a tombstone; bytes that do
   not decode; a message without a known payload; a mail the provider refuses
   with one of NON_RETRYABLE_ERRORS; one it refuses with other words. *)
Kind == {"mail", "empty", "garbled", "noContent", "refused", "unlisted"}

ASSUME ConsumerAssumption ==
    /\ MaxFaults \in Nat /\ MaxForgets \in Nat
    /\ None \notin Consumer \cup Nat

VARIABLES
    kind,         \* what the record of each event is
    delivered,    \* the partition: a sequence of events
    committed,    \* the group's committed offset, None before the first
    base,         \* history: the offset the group started from
    owner,        \* the member the coordinator assigned the partition to
    pc,           \* where each replica is
    position,     \* offset of its next record
    answer,       \* SendResult: "success", or the class of its error
    mails,        \* how many mails of each event went out
    remembered,   \* the idempotency keys the provider remembers
    faults,       \* faults so far
    forgets       \* expired keys so far

group     == <<committed, base, owner>>
provider  == <<mails, remembered, forgets>>
consumers == <<pc, position, answer>>
vars      == <<kind, delivered, group, consumers, provider, faults>>

PC == {"down", "member", "idle", "sending", "answered"}
Answer == {"success", "listed", "other"}

TypeOK ==
    /\ kind \in [Event -> Kind]
    /\ delivered \in Seq(Event)
    /\ committed \in Nat \cup {None}
    /\ base \in Nat
    /\ owner \in Consumer \cup {None}
    /\ pc \in [Consumer -> PC]
    /\ position \in [Consumer -> Nat]
    /\ \A c \in Consumer :
         /\ position[c] <= Len(delivered)
         /\ pc[c] \in {"sending", "answered"} => position[c] < Len(delivered)
    /\ answer \in [Consumer -> Answer]
    /\ mails \in [Event -> Nat]
    /\ remembered \in SUBSET Event
    /\ faults \in 0..MaxFaults
    /\ forgets \in 0..MaxForgets

Init ==
    /\ kind \in [Event -> Kind]
    /\ delivered = <<>>
    /\ committed = None
    /\ base = 0
    /\ owner = None
    /\ pc = [c \in Consumer |-> "down"]
    /\ position = [c \in Consumer |-> 0]
    /\ answer = [c \in Consumer |-> "success"]
    /\ mails = [e \in Event |-> 0]
    /\ remembered = {}
    /\ faults = 0
    /\ forgets = 0

Goto(c, p) == pc' = [pc EXCEPT ![c] = p]
Fault      == faults < MaxFaults /\ faults' = faults + 1
NoFault    == UNCHANGED faults

(* The record a member is at. *)
HasRecord(c) == position[c] < Len(delivered)
Record(c)    == delivered[position[c] + 1]

-----------------------------------------------------------------------------
(* Membership of the group. *)

(* main, startConsumer: connect, subscribe and run. *)
Start(c) ==
    /\ pc[c] = "down"
    /\ Goto(c, "member")
    /\ UNCHANGED <<kind, delivered, group, position, answer, provider, faults>>

(* Without a committed offset, fromBeginning: false is the end of the topic. *)
StartOffset == IF committed = None THEN Len(delivered) ELSE committed

(* The coordinator gives the partition to a member: when its owner is gone
   or has said good-bye, or in a rebalance. *)
Assign(c) ==
    /\ pc[c] = "member"
    /\ IF owner \in Consumer \ {c} /\ pc[owner] # "down" THEN Fault ELSE NoFault
    /\ owner' = c
    /\ position' = [position EXCEPT ![c] = StartOffset]
    /\ base' = IF committed = None THEN StartOffset ELSE base
    /\ Goto(c, "idle")
    /\ UNCHANGED <<kind, delivered, committed, answer, provider>>

(* A member learns, between two records, that it lost the partition. *)
Revoke(c) ==
    /\ pc[c] = "idle" /\ owner # c
    /\ Goto(c, "member")
    /\ UNCHANGED <<kind, delivered, group, position, answer, provider, faults>>

(* KafkaJS commits what was resolved; the coordinator refuses a member that
   lost the partition. *)
Commit(c) ==
    /\ pc[c] = "idle" /\ owner = c
    /\ committed # position[c]
    /\ committed' = position[c]
    /\ UNCHANGED <<kind, delivered, base, owner, consumers, provider, faults>>

(* shutdown, stopConsumer: disconnect waits for the record in hand, commits
   and leaves the group; the process exits. *)
Stop(c) ==
    /\ pc[c] \in {"member", "idle"}
    /\ Fault
    /\ Goto(c, "down")
    /\ committed' \in {committed} \cup {p \in {position[c]} : pc[c] = "idle" /\ owner = c}
    /\ owner' = IF owner = c THEN None ELSE owner
    /\ UNCHANGED <<kind, delivered, base, position, answer, provider>>

Crash(c) ==
    /\ pc[c] # "down"
    /\ Fault
    /\ Goto(c, "down")
    /\ UNCHANGED <<kind, delivered, group, position, answer, provider>>

-----------------------------------------------------------------------------
(* eachMessage and handleAuthEmailMessage. *)

(* The handler returned: KafkaJS moves on to the next record. *)
Return(c) ==
    /\ position' = [position EXCEPT ![c] = @ + 1]
    /\ Goto(c, "idle")

(* The handler threw: KafkaJS tries again, and when its retries are used up
   it restarts the member from the committed offset. *)
Throw(c) ==
    /\ pc' \in {[pc EXCEPT ![c] = p] : p \in {"idle", "member"}}
    /\ UNCHANGED position

(* getAuthEmailContent throws "Missing email payload" or "Unknown email
   payload type", both of them on the list. *)
HasContent(e) == kind[e] # "noContent"

(* Mutants: no error is retried, every error is. *)
RetryNever(error)  == FALSE
RetryAlways(error) == TRUE

(* isRetryable: NON_RETRYABLE_ERRORS are looked for in the message. *)
Retryable(error) == error # "listed"

(* No value, or no content: the record is skipped.  Bytes that do not decode
   make eachMessage throw. *)
SkipRecord(c) ==
    /\ pc[c] = "idle" /\ HasRecord(c)
    /\ kind[Record(c)] = "empty" \/ ~HasContent(Record(c))
    /\ Return(c)
    /\ UNCHANGED <<kind, delivered, group, answer, provider, faults>>

DecodeFails(c) ==
    /\ pc[c] = "idle" /\ HasRecord(c)
    /\ kind[Record(c)] = "garbled"
    /\ Throw(c)
    /\ UNCHANGED <<kind, delivered, group, answer, provider, faults>>

(* The handler awaits sendEmail, with the event as idempotency key. *)
Send(c) ==
    /\ pc[c] = "idle" /\ HasRecord(c)
    /\ kind[Record(c)] \notin {"empty", "garbled"} /\ HasContent(Record(c))
    /\ Goto(c, "sending")
    /\ UNCHANGED <<kind, delivered, group, position, answer, provider, faults>>

(* success: skip nothing; a listed error: log and skip; any other: throw. *)
Succeed(c) ==
    /\ pc[c] = "answered" /\ answer[c] = "success"
    /\ Return(c)
    /\ UNCHANGED <<kind, delivered, group, answer, provider, faults>>

GiveUp(c) ==
    /\ pc[c] = "answered" /\ answer[c] # "success" /\ ~Retryable(answer[c])
    /\ Return(c)
    /\ UNCHANGED <<kind, delivered, group, answer, provider, faults>>

Retry(c) ==
    /\ pc[c] = "answered" /\ answer[c] # "success" /\ Retryable(answer[c])
    /\ Throw(c)
    /\ UNCHANGED <<kind, delivered, group, answer, provider, faults>>

-----------------------------------------------------------------------------
(* sendEmail and the provider behind it: sendEmail never throws. *)

AnswerWith(c, a) ==
    /\ answer' = [answer EXCEPT ![c] = a]
    /\ Goto(c, "answered")

(* Mutant: sendEmail leaves the idempotency key out. *)
MailAnyway(e) ==
    /\ mails' = [mails EXCEPT ![e] = @ + 1]
    /\ remembered' = remembered \cup {e}

(* The provider mails what it has no idempotency key of. *)
Deduplicate(e) ==
    /\ mails' = IF e \in remembered THEN mails ELSE [mails EXCEPT ![e] = @ + 1]
    /\ remembered' = remembered \cup {e}

Accepted(c) ==
    /\ pc[c] = "sending" /\ kind[Record(c)] = "mail"
    /\ Deduplicate(Record(c))
    /\ AnswerWith(c, "success")
    /\ UNCHANGED <<kind, delivered, group, position, forgets, faults>>

(* result.error: only its message is kept, and its name is dropped. *)
Refused(c) ==
    /\ pc[c] = "sending" /\ kind[Record(c)] \in {"refused", "unlisted"}
    /\ AnswerWith(c, IF kind[Record(c)] = "refused" THEN "listed" ELSE "other")
    /\ UNCHANGED <<kind, delivered, group, position, provider, faults>>

(* The request fails, before or after the provider took the mail. *)
RequestFails(c) ==
    /\ pc[c] = "sending"
    /\ Fault
    /\ \/ UNCHANGED <<mails, remembered>>
       \/ kind[Record(c)] = "mail" /\ Deduplicate(Record(c))
    /\ AnswerWith(c, "other")
    /\ UNCHANGED <<kind, delivered, group, position, forgets>>

(* The provider keeps idempotency keys for a limited time. *)
Forget(e) ==
    /\ e \in remembered /\ forgets < MaxForgets
    /\ remembered' = remembered \ {e}
    /\ forgets' = forgets + 1
    /\ UNCHANGED <<kind, delivered, group, consumers, mails, faults>>

-----------------------------------------------------------------------------
(* What a running member does by itself; the environment does the rest. *)
Step(c) ==
    \/ Start(c) \/ Assign(c) \/ Revoke(c) \/ Commit(c)
    \/ SkipRecord(c) \/ DecodeFails(c) \/ Send(c)
    \/ Succeed(c) \/ GiveUp(c) \/ Retry(c)
    \/ Accepted(c) \/ Refused(c)

ConsumerNext ==
    \/ \E c \in Consumer : Step(c) \/ Stop(c) \/ Crash(c) \/ RequestFails(c)
    \/ \E e \in Event : Forget(e)
=============================================================================
