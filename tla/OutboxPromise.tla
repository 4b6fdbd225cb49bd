--------------------------- MODULE OutboxPromise ---------------------------
(***************************************************************************)
(* What the transactional outbox of the identity service promises, without *)
(* saying how: an event the database accepted may be delivered to Kafka,   *)
(* any number of times, and is settled (published_at set, never looked at  *)
(* again) only once it has been delivered.  Nothing else is ever           *)
(* delivered.  Module Outbox implements it.                                *)
(***************************************************************************)
EXTENDS Naturals, Sequences

CONSTANTS
    Event,      \* identities of outbox rows
    Routable    \* those whose event_type has a Kafka topic

VARIABLES
    accepted,   \* events whose transaction committed
    delivered,  \* the sequence of Kafka records, by event
    settled     \* events that will not be delivered on purpose any more

vars == <<accepted, delivered, settled>>

Logged == {delivered[i] : i \in DOMAIN delivered}

Init ==
    /\ accepted = {}
    /\ delivered = <<>>
    /\ settled = {}

(* A domain transaction commits together with its outbox row. *)
Accept(e) ==
    /\ e \notin accepted
    /\ accepted' = accepted \cup {e}
    /\ UNCHANGED <<delivered, settled>>

(* At-least-once: a settled event may be delivered again, by a publisher
   that fetched it before it was settled. *)
Deliver(e) ==
    /\ e \in accepted \cap Routable
    /\ delivered' = Append(delivered, e)
    /\ UNCHANGED <<accepted, settled>>

Settle(e) ==
    /\ e \in Logged
    /\ settled' = settled \cup {e}
    /\ UNCHANGED <<accepted, delivered>>

Next == \E e \in Event : Accept(e) \/ Deliver(e) \/ Settle(e)

Spec == Init /\ [][Next]_vars
=============================================================================
