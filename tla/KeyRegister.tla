----------------------------- MODULE KeyRegister -----------------------------
(***************************************************************************)
(* What those who sign and those who revoke rely on: one register of key   *)
(* states, which at most one holder serves at a time, as it is.  It is     *)
(* changed by one rotation or revocation after the other and only while    *)
(* nobody serves it.  Changes that have not been acknowledged may be       *)
(* undone, together with the service; acknowledged ones never.             *)
(***************************************************************************)
EXTENDS KeyStates

CONSTANT Processes

VARIABLES
  register,    \* the current state, or NoState
  served,      \* who serves which state
  acked        \* the latest state that was acknowledged, or NoState

vars == <<register, served, acked>>

Init ==
  /\ register = NoState
  /\ served = {}
  /\ acked = NoState

Create ==
  /\ register = NoState
  /\ register' = EmptyState
  /\ UNCHANGED <<served, acked>>

Serve(p) ==
  /\ served = {} /\ register # NoState
  /\ served' = {<<p, register>>}
  /\ UNCHANGED <<register, acked>>

Withdraw ==
  /\ served' = {}
  /\ UNCHANGED <<register, acked>>

\* Exactly one revision later, and a state that may be served.
Succeeds(s, t) ==
  /\ t.revision = s.revision + 1
  /\ Follows(s, t) /\ Valid(t)

Change ==
  /\ served = {} /\ register # NoState
  /\ register' \in States
  /\ Succeeds(register, register')
  /\ UNCHANGED <<served, acked>>

\* Who acknowledges a state serves it.
Acknowledge(p) ==
  /\ served = {} /\ register # NoState
  /\ acked' = register
  /\ served' = {<<p, register>>}
  /\ UNCHANGED register

\* Back to a state between the acknowledged one and the current one.
Undo ==
  /\ served' = {}
  /\ register' \in States \cup {NoState}
  /\ register' # NoState => register # NoState /\ Follows(register', register)
  /\ acked # NoState => register' # NoState /\ Follows(acked, register')
  /\ UNCHANGED acked

Next ==
  \/ Create \/ Change \/ Withdraw \/ Undo
  \/ \E p \in Processes : Serve(p) \/ Acknowledge(p)

Spec == Init /\ [][Next]_vars

=============================================================================
