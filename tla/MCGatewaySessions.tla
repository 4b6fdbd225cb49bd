------------------------- MODULE MCGatewaySessions -------------------------
(***************************************************************************)
(* GatewaySessions on small instances: two replicas, one of which serves   *)
(* TLS, with one request at a time each.                                   *)
(***************************************************************************)
EXTENDS GatewaySessions

CONSTANTS Place,    \* the replica each request goes to
          Visitor   \* a browser that only logs in

MCRefusal == {"Unauthenticated", "Internal"}

(* A replica's end or another failure, not both; the visitor only logs in. *)
MCNext ==
    /\ Next
    /\ stops' + faults' <= 1
    /\ \A r \in Request : req'[r] # None =>
         /\ req'[r].gateway = Place[r]
         /\ req'[r].browser \in Visitor => req'[r].kind = "login"

MCSpec == Init /\ [][MCNext]_vars /\ Fairness

CONSTANTS r1, r2, g1, g2

MCPlace == [r \in {r1, r2} |-> IF r = r1 THEN g1 ELSE g2]
=============================================================================
