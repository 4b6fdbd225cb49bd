--------------------------- MODULE MCCredentials ---------------------------
(***************************************************************************)
(* Credentials on small instances: one user sends requests, another one    *)
(* holds a username, which two names that differ in case stand for.  One   *)
(* password is too short.                                                  *)
(***************************************************************************)
EXTENDS Credentials

CONSTANTS ann, bob, BOB, cat, p1, Bystander

MCLower == [n \in {ann, bob, BOB, cat} |-> IF n = BOB THEN bob ELSE n]

MCInit ==
    /\ Init
    /\ \A u \in User : Current(u).name = IF u \in Bystander THEN bob ELSE ann
    /\ \A u \in Bystander : Current(u).status = "active" /\ Current(u).pw = p1

(* The bystanders keep their rows and send nothing. *)
Quiet ==
    \A u \in Bystander :
        rows'[u] = rows[u] /\ \A r \in Request : req'[r] # None => req'[r].user # u

MCSpec == MCInit /\ [][Next /\ Quiet]_vars /\ Fairness
=============================================================================
