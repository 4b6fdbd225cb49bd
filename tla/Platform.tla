------------------------------ MODULE Platform ------------------------------
(***************************************************************************)
(* The two services together, from a domain transaction of the identity    *)
(* service to a mail: the publishers of module Outbox with their table,    *)
(* lock and batches, and the consumers of module EmailConsumer behind the  *)
(* topic the publishers append to.                                         *)
(*                                                                         *)
(* Module MailPipeline states what the consumers do behind any outbox that *)
(* keeps OutboxPromise; here the outbox is the real one, and Mail is the   *)
(* pipeline seen through it.  The rows nobody can route never reach the    *)
(* topic, so they are no events of the pipeline.                           *)
(***************************************************************************)
EXTENDS Outbox

CONSTANTS
    Consumer,        \* replicas of the e-mail service
    MaxMailFaults,   \* bound on its crashes, stops, rebalances and failed sends
    MaxForgets,      \* bound on idempotency keys that expire
    MaxLog,          \* bound on records, copies included
    None             \* no offset, no owner

VARIABLES
    kind,            \* what the record of each event is to the handler
    committed,       \* the group's committed offset
    base,            \* history: the offset the group started from
    owner,           \* the member that has the partition
    member,          \* where each replica of the e-mail service is
    position,        \* offset of its next record
    answer,          \* the answer it has to its send
    mails,           \* how many mails of each event went out
    remembered,      \* the idempotency keys the provider remembers
    mailFaults,      \* faults of the e-mail service so far
    forgets          \* expired keys so far

mailVars     == <<kind, committed, base, owner, member, position, answer,
                  mails, remembered, mailFaults, forgets>>
platformVars == <<vars, mailVars>>

(* The topic is the log of the outbox; an event is accepted once its
   transaction committed, and settled once its row is marked. *)
Mail == INSTANCE MailPipeline
        WITH Event     <- Routable,
             accepted  <- Committed \cap Routable,
             delivered <- log,
             settled   <- published,
             pc        <- member,
             faults    <- mailFaults,
             MaxFaults <- MaxMailFaults

(* The parameters of the e-mail service are as its module assumes. *)
MailAssumption == Mail!ConsumerAssumption /\ Mail!PipelineAssumption

PlatformInit == Init /\ Mail!Init

(* A step of the identity service, its failures included, or one of the e-mail
   service and its provider: they meet in the topic only. *)
IdentityStep == Next /\ Len(log') <= MaxLog /\ UNCHANGED mailVars
MailStep     == Mail!ConsumerNext /\ UNCHANGED vars

PlatformNext == IdentityStep \/ MailStep

PlatformSpec == PlatformInit /\ [][PlatformNext]_platformVars

-----------------------------------------------------------------------------
(* Properties of the whole. *)

(* A mail never tells of something that did not happen: its transaction has
   committed and has not rolled back, whatever failed in either service. *)
MailedWasCommitted ==
    \A e \in Routable : mails[e] > 0 => e \in Committed \ aborted

(* No event falls between the two services.  Once the publishers are done with
   a row for ever (mark_published), its mail went out or was given up on
   purpose, unless its record is still ahead of the group, or lies before the
   offset at which the group once began (fromBeginning: false). *)
PublishedIsHandledOrAhead ==
    \A e \in published :
        \/ Mail!Handled(e)
        \/ \E i \in DOMAIN log :
              log[i] = e /\ (committed = None \/ i <= base \/ i > committed)
=============================================================================
