--------------------------- MODULE MCLocalProofSink ---------------------------
(***************************************************************************)
(* Three calls for TLC, of which two are for the same file.                *)
(***************************************************************************)
EXTENDS LocalProofSink

CONSTANTS c1, c2, c3, n1, n2

MCCalls == {c1, c2, c3}
MCNames == {n1, n2}
MCNameOf == [c \in MCCalls |-> IF c = c3 THEN n2 ELSE n1]

===============================================================================
