------------------------------ MODULE MCOutbox ------------------------------
(* Outbox on small instances: the replicas are interchangeable. *)
EXTENDS Outbox, TLC

Symmetry == Permutations(Replica)
=============================================================================
