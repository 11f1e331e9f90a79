----------------------------- MODULE RecordStore -----------------------------
(***************************************************************************)
(* What the execution gate relies on when it hands a record to a proof     *)
(* sink: an acknowledged record is kept from then on, whatever happens;    *)
(* of any other record nothing is promised, neither that it is kept nor    *)
(* that it is not.                                                         *)
(***************************************************************************)
CONSTANT Calls

VARIABLES
  kept,      \* calls whose record can be read back
  answer     \* "none", "acknowledged" or "rejected"

vars == <<kept, answer>>

Unanswered == {c \in Calls : answer[c] = "none"}
Acknowledged == {c \in Calls : answer[c] = "acknowledged"}

Init ==
  /\ kept = {}
  /\ answer = [c \in Calls |-> "none"]

Keep(c) ==
  /\ c \in Unanswered
  /\ kept' = kept \cup {c}
  /\ UNCHANGED answer

Acknowledge(c) ==
  /\ c \in Unanswered \cap kept
  /\ answer' = [answer EXCEPT ![c] = "acknowledged"]
  /\ UNCHANGED kept

Reject(c) ==
  /\ c \in Unanswered
  /\ answer' = [answer EXCEPT ![c] = "rejected"]
  /\ UNCHANGED kept

Lose(lost) ==
  /\ lost \cap Acknowledged = {}
  /\ kept' = kept \ lost
  /\ UNCHANGED answer

Next ==
  \/ \E c \in Calls : Keep(c) \/ Acknowledge(c) \/ Reject(c)
  \/ \E lost \in SUBSET kept : Lose(lost)

Spec == Init /\ [][Next]_vars

===============================================================================
