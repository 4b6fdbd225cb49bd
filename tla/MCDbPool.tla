------------------------------ MODULE MCDbPool ------------------------------
(* DbPool with the smallest writer pool that serves both the publisher and
   the requests. *)
EXTENDS DbPool

CONSTANTS r1, r2
=============================================================================
