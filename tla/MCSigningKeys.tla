--------------------------- MODULE MCSigningKeys ---------------------------
(***************************************************************************)
(* SigningKeys on small instances: one of the replicas reads from the      *)
(* standby and its clock is ahead by the leeway.                           *)
(***************************************************************************)
EXTENDS SigningKeys

CONSTANTS g1, g2, kek1, kek2

MCKek == [g \in {g1, g2} |-> IF g = g1 THEN kek1 ELSE kek2]
MCSkew == [g \in {g1, g2} |-> IF g = g1 THEN 0 ELSE 1]
=============================================================================
