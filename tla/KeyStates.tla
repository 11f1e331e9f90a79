------------------------------ MODULE KeyStates ------------------------------
(***************************************************************************)
(* The states that the key store of sdk/node/pqc/local-keys.mjs goes       *)
(* through: a revision number and the life cycle of every key pair.        *)
(***************************************************************************)
EXTENDS Integers, FiniteSets

CONSTANTS
  Keys,         \* hybrid key pairs
  Capacity,     \* how many key sets the history may hold (256 in the code)
  MaxRevision,  \* bound on the revision counter
  NoState

KeyStatus == {"absent", "active", "retired", "revoked"}

States == [revision : 0..MaxRevision, status : [Keys -> KeyStatus]]

EmptyState == [revision |-> 0, status |-> [k \in Keys |-> "absent"]]

History(s) == {k \in Keys : s.status[k] # "absent"}

\* State t comes after state s: no key goes back in its life cycle.
Rank == [absent |-> 0, active |-> 1, retired |-> 2, revoked |-> 3]

Follows(s, t) ==
  /\ s.revision <= t.revision
  /\ s.revision = t.revision => s = t
  /\ \A k \in Keys : Rank[s.status[k]] <= Rank[t.status[k]]

ActiveKeys(s) == {k \in Keys : s.status[k] = "active"}

Valid(s) ==
  Cardinality(ActiveKeys(s)) <= 1 /\ Cardinality(History(s)) <= Capacity

=============================================================================
