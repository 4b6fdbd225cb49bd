------------------------- MODULE MCIdentityChannel -------------------------
(* IdentityChannel on small instances: the tasks are interchangeable. *)
EXTENDS IdentityChannel, TLC

Symmetry == Permutations(Task)
=============================================================================
