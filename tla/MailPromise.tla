---------------------------- MODULE MailPromise ----------------------------
(***************************************************************************)
(* What the mail pipeline promises a user, without saying how: a mail      *)
(* belongs to an event whose transaction committed, and the same event is  *)
(* mailed again only when the provider has forgotten its idempotency key.  *)
(* Module MailPipeline implements it.                                      *)
(***************************************************************************)
EXTENDS Naturals

CONSTANT Event      \* identities of outbox rows, the idempotency keys

VARIABLES
    accepted,       \* events whose transaction committed
    mails,          \* how many mails of each event went out
    remembered      \* the keys the provider remembers

vars == <<accepted, mails, remembered>>

Init ==
    /\ accepted = {}
    /\ mails = [e \in Event |-> 0]
    /\ remembered = {}

(* A domain transaction commits. *)
Accept(e) ==
    /\ e \notin accepted
    /\ accepted' = accepted \cup {e}
    /\ UNCHANGED <<mails, remembered>>

(* The provider takes a mail it does not know yet. *)
Mail(e) ==
    /\ e \in accepted \ remembered
    /\ mails' = [mails EXCEPT ![e] = @ + 1]
    /\ remembered' = remembered \cup {e}
    /\ UNCHANGED accepted

(* The retention of an idempotency key ends. *)
Forget(e) ==
    /\ e \in remembered
    /\ remembered' = remembered \ {e}
    /\ UNCHANGED <<accepted, mails>>

Next == \E e \in Event : Accept(e) \/ Mail(e) \/ Forget(e)

Spec == Init /\ [][Next]_vars
=============================================================================
