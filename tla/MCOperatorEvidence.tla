-------------------------- MODULE MCOperatorEvidence --------------------------
(***************************************************************************)
(* Symmetry of the requests, and their attempts.                           *)
(***************************************************************************)
EXTENDS OperatorEvidence, TLC

Symmetry == Permutations(Requests)

===============================================================================
