--------------------------- MODULE MCMailPipeline ---------------------------
(***************************************************************************)
(* MailPipeline on small instances.  The events in Ordinary are mails the  *)
(* provider takes; the others are of any kind.                             *)
(***************************************************************************)
EXTENDS MailPipeline

CONSTANT Ordinary

MCInit == PipelineInit /\ \A e \in Ordinary : kind[e] = "mail"

MCSpec == MCInit /\ [][Next]_pipelineVars /\ Fairness
=============================================================================
