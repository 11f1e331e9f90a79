------------------------ MODULE ExecutionGateBoundary ------------------------
(***************************************************************************)
(* The execution gate implements AuthorityBoundary.                        *)
(*                                                                         *)
(* A verdict is open until the attempt has built its receipt; an attempt   *)
(* the process takes down with it before that has none and is lost.        *)
(***************************************************************************)
EXTENDS ExecutionGate

Verdict(a) ==
  IF receipt[a] # NoReceipt THEN receipt[a].outcome
  ELSE IF pc[a] = "lost" THEN "lost" ELSE "open"

Boundary == INSTANCE AuthorityBoundary WITH
  recorded  <- {a \in Attempts : authFile[a]},
  effect    <- handler,
  verdict   <- [a \in Attempts |-> Verdict(a)],
  published <- {a \in Attempts : receiptFile[a] # NoReceipt}

\* Every step of the gate, its dependencies and its process is a step that the
\* boundary allows, or none: effects only under a durable authorization, once
\* and before the verdict; verdicts that agree with the effect; receipts only
\* beside authorizations (createExecutionGate as a whole).
ImplementsBoundary == Boundary!Spec

=============================================================================
