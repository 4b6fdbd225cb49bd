---------------------------- MODULE MailPipeline ----------------------------
(***************************************************************************)
(* From a committed transaction to a mail: the outbox, by its promise      *)
(* (OutboxPromise, which module Outbox implements), and the consumers of   *)
(* the e-mail service (EmailConsumer) meet over the topic delivered.       *)
(***************************************************************************)
EXTENDS EmailConsumer

CONSTANT MaxLog     \* bound on records, copies included

ASSUME PipelineAssumption == MaxLog \in Nat

VARIABLES
    accepted,       \* events whose transaction committed
    settled         \* events the publishers are done with

pipelineVars == <<vars, accepted, settled>>

Outbox  == INSTANCE OutboxPromise WITH Routable <- Event
Promise == INSTANCE MailPromise

PipelineInit == Init /\ Outbox!Init

(* A step of the outbox: the topic may grow by an event, and by copies. *)
OutboxStep(e) ==
    /\ Outbox!Accept(e) \/ Outbox!Deliver(e) \/ Outbox!Settle(e)
    /\ Len(delivered') <= MaxLog
    /\ UNCHANGED <<kind, group, consumers, provider, faults>>

Next ==
    \/ \E e \in Event : OutboxStep(e)
    \/ ConsumerNext /\ UNCHANGED <<accepted, settled>>

Spec == PipelineInit /\ [][Next]_pipelineVars

(* Replicas are restarted, members go on, the coordinator finds an owner, and
   the provider answers.  Nothing forces a transaction, a copy, a stop, or the
   end of a key. *)
Fairness == \A c \in Consumer : WF_pipelineVars(Step(c) /\ UNCHANGED <<accepted, settled>>)

FairSpec == Spec /\ Fairness

-----------------------------------------------------------------------------
(* Properties. *)

PipelineTypeOK ==
    /\ TypeOK
    /\ accepted \in SUBSET Event
    /\ settled \in SUBSET Event

(* Mailed, or on purpose never to be. *)
Handled(e) == mails[e] > 0 \/ kind[e] \in {"empty", "noContent", "refused"}

(* Records on which the handler throws each time. *)
Poison(e) == kind[e] \in {"garbled", "unlisted"}

(* The group's offset never passes a record that was neither mailed nor
   skipped on purpose, wherever members crash, lose the partition or lose the
   provider's answer (consumer/index.ts:90): only what lies before the offset
   the group started from is passed over. *)
NoRecordSkipped ==
    committed # None => \A i \in base + 1..committed : Handled(delivered[i])

(* Copies of records, retries of sends that may have worked, and members that
   outlive their assignment send no mail of a transaction that did not commit,
   and no second one while the provider knows the key (resend.ts:38). *)
ImplementsMailPromise == Promise!Spec

(* The users' side of it, in numbers: no mail without a commit, and each mail
   of an event beyond the first has cost the provider a key it forgot,
   however many copies, retries, rebalances and lost answers there were. *)
MailsAreBacked ==
    \A e \in Event : mails[e] <= IF e \in accepted THEN 1 + forgets ELSE 0

(* From the group's first commit on each record is handled in the end, unless
   one that can neither be sent nor skipped (handler.ts:130) lies before it:
   a refused or empty record never holds up its successors. *)
EventuallyHandled ==
    \A i \in 1..MaxLog :
        (committed # None /\ i > base /\ i \in DOMAIN delivered) ~>
            /\ i \in DOMAIN delivered
            /\ Handled(delivered[i]) \/ \E j \in base + 1..i : Poison(delivered[j])

-----------------------------------------------------------------------------
(* The inductive invariant of the proofs. *)

Working(c) == pc[c] \in {"idle", "sending", "answered"}

(* The topic holds events of committed transactions only. *)
LoggedWasAccepted == \A i \in DOMAIN delivered : delivered[i] \in accepted

(* Offsets lie in the topic, and the group starts where its offset may go. *)
OffsetsInLog == base <= Len(delivered) /\ (committed # None => committed <= Len(delivered))

(* The owner of the partition has handled all it has passed. *)
OwnerPassedHandled ==
    \A c \in Consumer : owner = c /\ Working(c) =>
        \A i \in base + 1..position[c] : Handled(delivered[i])

(* An answer tells what happened to the record in hand. *)
AnswerIsTrue ==
    \A c \in Consumer : pc[c] = "answered" =>
        /\ answer[c] = "success" => mails[Record(c)] > 0
        /\ answer[c] = "listed" => kind[Record(c)] = "refused"

(* The provider knows keys of mails that went out. *)
RememberedWasMailed == \A e \in remembered : mails[e] > 0

(* An event that may be mailed again has room for it in the account. *)
MailBudget ==
    \A e \in Event :
        /\ mails[e] > 0 => e \in accepted
        /\ mails[e] + (IF e \in remembered THEN 0 ELSE 1) <= 1 + forgets

PipelineInv ==
    /\ PipelineTypeOK
    /\ LoggedWasAccepted
    /\ OffsetsInLog
    /\ OwnerPassedHandled
    /\ AnswerIsTrue
    /\ RememberedWasMailed
    /\ NoRecordSkipped
=============================================================================
