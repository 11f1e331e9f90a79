------------------------- MODULE LocalKeyStoreProofs -------------------------
(***************************************************************************)
(* Proofs about LocalKeyStore for any processes, keys and bounds.          *)
(*                                                                         *)
(* What concerns the lock holds with one recovering operator at a time     *)
(* (OneOperator): with two it does not, as the run keystore_two_recoveries *)
(* shows.  What a state on disk looks like does not depend on the lock.    *)
(***************************************************************************)
EXTENDS LocalKeyStore, FiniteSetTheorems, TLAPS

-----------------------------------------------------------------------------
(***************************************************************************)
(* Type correctness.  It needs to know that a usable store has a state and *)
(* that a change in progress has a next one.                               *)
(***************************************************************************)
HasState ==
  \A p \in Processes :
    /\ Live(p) => mem[p] # NoState
    /\ phase[p] \in Busy => next[p] # NoState

TypeInv == TypeOK /\ HasState

\* The status a change computes is a status of every key.
LEMMA ChangeTypes ==
  ASSUME TypeInv, NEW p \in Processes, NEW status \in [Keys -> KeyStatus],
         Change(p, status)
  PROVE  TypeInv'
<1>1. mem[p] \in States /\ mem[p].revision + 1 \in 0..MaxRevision
  BY StoreAssumption DEF TypeInv, TypeOK, HasState, Change, States
<1>2. [revision |-> mem[p].revision + 1, status |-> status] \in States
  BY <1>1 DEF States
<1>3. /\ next' \in [Processes -> States \cup {NoState}]
      /\ next'[p] # NoState
      /\ \A q \in Processes \ {p} : next'[q] = next[q]
  BY <1>2, StoreAssumption DEF Change, TypeInv, TypeOK
<1>4. TypeOK'
  BY <1>3 DEF Change, Goto, TypeInv, TypeOK, dirVars, Phases, Writing, Busy
<1>5. HasState'
  BY <1>3 DEF Change, Goto, TypeInv, TypeOK, HasState, Live, Busy
<1>6. QED
  BY <1>4, <1>5 DEF TypeInv

\* The first state is a state.
LEMMA EmptyStateIsState == EmptyState \in States
BY StoreAssumption DEF EmptyState, States, KeyStatus

\* Every step preserves the types.
LEMMA TypeStep == TypeInv /\ [Next]_vars => TypeInv'
<1> SUFFICES ASSUME TypeInv, [Next]_vars
             PROVE  TypeInv'
  OBVIOUS
<1> USE DEF TypeInv, TypeOK, HasState, Live, Goto, Phases, Writing, Opening,
    Busy
<1>1. ASSUME NEW p \in Processes, CreateLock(p)
      PROVE  TypeInv'
  <2>1. locks + 1 \in 1..MaxLocks
    BY <1>1, StoreAssumption DEF CreateLock
  <2>2. lock' \in Locks /\ locks' \in 0..MaxLocks
          /\ token' \in [Processes -> 0..MaxLocks]
    BY <1>1, <2>1 DEF CreateLock, Locks
  <2>3. QED
    BY <1>1, <2>2 DEF CreateLock
<1>2. ASSUME NEW p \in Processes, WriteLock(p)
      PROVE  TypeInv'
  BY <1>2 DEF WriteLock, Locks
<1>3. ASSUME NEW p \in Processes, LoadState(p) \/ Initialize(p)
      PROVE  TypeInv'
  <2>1. CASE LoadState(p)
    BY <2>1 DEF LoadState, dirVars
  <2>2. CASE Initialize(p)
    BY <2>2 DEF Initialize, dirVars
  <2>3. QED
    BY <1>3, <2>1, <2>2
<1>4. ASSUME NEW p \in Processes, LinkState(p) \/ UnlinkTemporary(p)
      PROVE  TypeInv'
  BY <1>4, EmptyStateIsState DEF LinkState, UnlinkTemporary
<1>5. ASSUME NEW p \in Processes, PublishFirst(p)
      PROVE  TypeInv'
  BY <1>5, EmptyStateIsState, StoreAssumption DEF PublishFirst
<1>6. ASSUME NEW p \in Processes, OpenFails(p)
      PROVE  TypeInv'
  BY <1>6, StoreAssumption DEF OpenFails, ReleaseLock
<1>7. ASSUME NEW p \in Processes, CheckDisk(p) \/ PersistFails(p)
      PROVE  TypeInv'
  BY <1>7 DEF CheckDisk, PersistFails, dirVars
<1>8. ASSUME NEW p \in Processes, Rename(p)
      PROVE  TypeInv'
  BY <1>8 DEF Rename
<1>9. ASSUME NEW p \in Processes, Publish(p)
      PROVE  TypeInv'
  BY <1>9 DEF Publish
<1>10. ASSUME NEW p \in Processes, ClockRegressed(p)
       PROVE  TypeInv'
  BY <1>10 DEF ClockRegressed, dirVars
<1>11. ASSUME NEW p \in Processes, Close(p)
       PROVE  TypeInv'
  BY <1>11, StoreAssumption DEF Close, ReleaseLock
<1>12. ASSUME NEW p \in Processes, Crash(p)
       PROVE  TypeInv'
  BY <1>12 DEF Crash, dirVars
<1>13. ASSUME NEW p \in Processes, NEW k \in Keys, Rotate(p, k) \/ Revoke(p, k)
       PROVE  TypeInv'
  <2>1. mem[p] \in States
    BY <1>13 DEF Rotate, Revoke
  <2>2. CASE Rotate(p, k)
    BY <2>1, <2>2, ChangeTypes DEF Rotate, States, KeyStatus
  <2>3. CASE Revoke(p, k)
    BY <2>1, <2>3, ChangeTypes DEF Revoke, States, KeyStatus
  <2>4. QED
    BY <1>13, <2>2, <2>3
<1>14. ASSUME NEW o \in Operators, Recover(o)
       PROVE  TypeInv'
  BY <1>14 DEF Recover, ReadLock, ConfirmStopped, CompareLock, RemoveLock,
    RecoveryFails, Step, Idle, dirVars, procVars
<1>15. ASSUME PowerLoss
       PROVE  TypeInv'
  BY <1>15 DEF PowerLoss, Idle
<1>16. CASE UNCHANGED vars
  BY <1>16 DEF vars, dirVars, procVars
<1>17. QED
  BY <1>1, <1>2, <1>3, <1>4, <1>5, <1>6, <1>7, <1>8, <1>9, <1>10, <1>11,
    <1>12, <1>13, <1>14, <1>15, <1>16 DEF Next, Open, Persist

\* The initial state has its types.
LEMMA TypeInit == Init => TypeInv
<1> SUFFICES ASSUME Init
             PROVE  TypeInv
  OBVIOUS
<1>1. 0 \in 0..MaxLocks
  BY StoreAssumption
<1>2. TypeOK
  BY <1>1 DEF Init, TypeOK, Phases, Idle
<1>3. HasState
  BY DEF Init, HasState, Live, Busy
<1>4. QED
  BY <1>2, <1>3 DEF TypeInv

\* Every variable of the store always has its type.
THEOREM TypeCorrect == Spec => []TypeOK
<1>1. TypeInv => TypeOK
  BY DEF TypeInv
<1>2. QED
  BY <1>1, TypeInit, TypeStep, PTL DEF Spec

-----------------------------------------------------------------------------
(***************************************************************************)
(* The lock.  An operator that is about to unlink the lock file has found  *)
(* it to be the one of a dead process, and nobody else can take it away:   *)
(* its process does not come back, and there is no second operator.        *)
(***************************************************************************)
OneOperator == \A o, u \in Operators : o = u

Recovering(o) ==
  LET seen == recovery[o].seen IN
  recovery[o].step # "idle" =>
    /\ seen # NoLock /\ seen.inode <= locks
    /\ lock # NoLock /\ lock.inode = seen.inode => lock.pid = seen.pid
    /\ recovery[o].step \in {"stopped", "compared"} => phase[seen.pid] = "dead"
    /\ recovery[o].step = "compared" =>
         lock # NoLock /\ lock.inode = seen.inode

LockInv ==
  /\ lock # NoLock => lock.inode <= locks
  /\ LiveWriterHoldsLock
  /\ \A o \in Operators : Recovering(o)

\* Every step of one operator's world preserves the claim to the lock.
LEMMA LockStep ==
  ASSUME OneOperator, TypeInv, LockInv, [Next]_vars
  PROVE  LockInv'
<1> USE DEF TypeInv, TypeOK, LockInv, LiveWriterHoldsLock, Recovering, Goto,
    Writing, Opening, Busy, Locks
<1>1. ASSUME NEW p \in Processes, CreateLock(p)
      PROVE  LockInv'
  <2>1. locks + 1 \in 1..MaxLocks
    BY <1>1, StoreAssumption DEF CreateLock
  <2>2. [inode |-> locks + 1, pid |-> p, complete |-> FALSE] \in Locks
    BY <2>1
  <2>3. lock' # NoLock /\ lock'.inode = locks + 1 /\ lock'.pid = p
    BY <1>1, <2>2, StoreAssumption DEF CreateLock
  <2>4. \A q \in Processes : phase[q] \notin Writing
    BY <1>1 DEF CreateLock, LockFree
  <2>5. locks' = locks + 1 /\ token'[p] = locks + 1 /\ lock'.inode <= locks'
    BY <1>1, <2>3 DEF CreateLock
  <2>6. LiveWriterHoldsLock'
    BY <1>1, <2>3, <2>4, <2>5 DEF CreateLock
  <2>7. ASSUME NEW o \in Operators
        PROVE  Recovering(o)'
    BY <1>1, <2>3, <2>5 DEF CreateLock, LockFree
  <2>8. QED
    BY <2>5, <2>6, <2>7
<1>2. ASSUME NEW p \in Processes, WriteLock(p)
      PROVE  LockInv'
  <2>1. lock # NoLock /\ lock \in Locks
    BY <1>2 DEF WriteLock
  <2>2. [lock EXCEPT !.complete = TRUE] \in Locks
    BY <2>1
  <2>3. lock' # NoLock /\ lock'.inode = lock.inode /\ lock'.pid = lock.pid
    BY <1>2, <2>1, <2>2, StoreAssumption DEF WriteLock
  <2>4. QED
    BY <1>2, <2>1, <2>3 DEF WriteLock
<1>3. ASSUME NEW p \in Processes,
             \/ LoadState(p) \/ Initialize(p) \/ LinkState(p)
             \/ UnlinkTemporary(p) \/ PublishFirst(p)
             \/ CheckDisk(p) \/ Rename(p) \/ Publish(p) \/ PersistFails(p)
      PROVE  LockInv'
  <2>1. /\ UNCHANGED <<lock, locks, token, recovery>>
        /\ phase[p] \in Writing /\ phase'[p] \in Writing
        /\ \A q \in Processes \ {p} : phase'[q] = phase[q]
    BY <1>3 DEF LoadState, Initialize, LinkState, UnlinkTemporary,
      PublishFirst, CheckDisk, Rename, Publish, PersistFails, dirVars
  <2>2. QED
    BY <2>1
<1>4. ASSUME NEW p \in Processes, OpenFails(p) \/ Close(p)
      PROVE  LockInv'
  <2>1. phase[p] \in Writing /\ lock # NoLock /\ lock.pid = p
    BY <1>4 DEF OpenFails, Close
  <2>2. \A q \in Processes \ {p} : phase[q] \notin Writing
    BY <2>1
  <2>3. \A o \in Operators : recovery[o].step # "compared"
    BY <2>1
  <2>4. QED
    BY <1>4, <2>1, <2>2, <2>3 DEF OpenFails, Close, ReleaseLock
<1>5. ASSUME NEW p \in Processes, ClockRegressed(p)
      PROVE  LockInv'
  BY <1>5 DEF ClockRegressed, dirVars
<1>6. ASSUME NEW p \in Processes, NEW status, Change(p, status)
      PROVE  LockInv'
  BY <1>6 DEF Change, Live, dirVars
<1>7. ASSUME NEW p \in Processes, Crash(p)
      PROVE  LockInv'
  BY <1>7 DEF Crash, dirVars
<1>8. ASSUME NEW o \in Operators, ReadLock(o)
      PROVE  LockInv'
  BY <1>8 DEF ReadLock, Step, OneOperator, procVars
<1>9. ASSUME NEW o \in Operators, ConfirmStopped(o) \/ CompareLock(o)
      PROVE  LockInv'
  BY <1>9 DEF ConfirmStopped, CompareLock, Step, OneOperator, procVars
<1>10. ASSUME NEW o \in Operators, RemoveLock(o)
       PROVE  LockInv'
  <2>1. /\ recovery[o].step = "compared" /\ phase[recovery[o].seen.pid] = "dead"
        /\ lock.pid = recovery[o].seen.pid
    BY <1>10 DEF RemoveLock, Step
  <2>2. \A q \in Processes : phase[q] \notin Writing
    BY <2>1
  <2>3. QED
    BY <1>10, <2>2 DEF RemoveLock, Step, OneOperator, procVars
<1>11. ASSUME NEW o \in Operators, RecoveryFails(o)
       PROVE  LockInv'
  BY <1>11 DEF RecoveryFails, Idle, dirVars, procVars
<1>12. ASSUME PowerLoss
       PROVE  LockInv'
  BY <1>12 DEF PowerLoss, Idle
<1>13. CASE UNCHANGED vars
  BY <1>13 DEF vars, dirVars, procVars
<1>14. QED
  BY <1>1, <1>2, <1>3, <1>4, <1>5, <1>6, <1>7, <1>8, <1>9, <1>10, <1>11,
    <1>12, <1>13 DEF Next, Open, Persist, Rotate, Revoke, Recover

\* With one operator at a time, every live writer holds the lock.
THEOREM WriterHoldsLock ==
  ASSUME OneOperator
  PROVE  Spec => []LiveWriterHoldsLock
<1>1. Init => LockInv
  BY DEF Init, LockInv, LiveWriterHoldsLock, Recovering, Writing, Opening,
    Busy, Idle
<1>2. TypeInv /\ LockInv /\ [Next]_vars => LockInv'
  BY LockStep, OneOperator
<1>3. LockInv => LiveWriterHoldsLock
  BY DEF LockInv
<1>4. QED
  BY <1>1, <1>2, <1>3, TypeInit, TypeStep, PTL DEF Spec

\* At most one process at a time is a writer.
LEMMA OneWriter ==
  ASSUME LiveWriterHoldsLock, NEW p \in Processes, NEW q \in Processes,
         phase[p] \in Writing, phase[q] \in Writing
  PROVE  p = q
BY DEF LiveWriterHoldsLock

-----------------------------------------------------------------------------
(***************************************************************************)
(* The order of key states                                                 *)
(***************************************************************************)

\* A rank is a number.
LEMMA RankIsNat == \A x \in KeyStatus : Rank[x] \in Nat
BY DEF Rank, KeyStatus

\* A state follows itself.
LEMMA FollowsItself == \A s \in States : Follows(s, s)
BY RankIsNat DEF Follows, States

\* Follows is transitive.
LEMMA FollowsTransitive ==
  ASSUME NEW s \in States, NEW t \in States, NEW u \in States,
         Follows(s, t), Follows(t, u)
  PROVE  Follows(s, u)
<1>1. s.revision <= u.revision /\ (s.revision = u.revision => s = u)
  BY StoreAssumption DEF Follows, States
<1>2. ASSUME NEW k \in Keys
      PROVE  Rank[s.status[k]] <= Rank[u.status[k]]
  <2>1. /\ Rank[s.status[k]] \in Nat /\ Rank[t.status[k]] \in Nat
        /\ Rank[u.status[k]] \in Nat
    BY RankIsNat DEF States
  <2>2. QED
    BY <2>1 DEF Follows
<1>3. QED
  BY <1>1, <1>2 DEF Follows

\* A rotation or revocation computes a state that follows the one it is
\* computed from.
LEMMA ChangeFollows ==
  ASSUME TypeInv, NEW p \in Processes, NEW k \in Keys,
         Rotate(p, k) \/ Revoke(p, k)
  PROVE  /\ mem[p] \in States /\ next'[p] \in States
         /\ Follows(mem[p], next'[p])
<1>1. mem[p] \in States /\ mem[p].revision \in Nat
  BY StoreAssumption DEF TypeInv, TypeOK, HasState, Rotate, Revoke, States
<1>2. /\ next'[p].revision = mem[p].revision + 1
      /\ next'[p] \in States
  <2>1. TypeInv'
    BY TypeStep DEF Next
  <2>2. next'[p] # NoState /\ next'[p].revision = mem[p].revision + 1
    BY <2>1 DEF Rotate, Revoke, Change, Goto, TypeInv, TypeOK, HasState, Busy
  <2>3. QED
    BY <2>1, <2>2 DEF TypeInv, TypeOK
<1>3. ASSUME NEW j \in Keys
      PROVE  Rank[mem[p].status[j]] <= Rank[next'[p].status[j]]
  <2>1. mem[p].status[j] \in KeyStatus
    BY <1>1 DEF States
  <2>2. CASE Rotate(p, k)
    BY <2>1, <2>2 DEF Rotate, Unused, Change, TypeInv, TypeOK, Rank, KeyStatus
  <2>3. CASE Revoke(p, k)
    BY <1>1, <2>1, <2>3 DEF Revoke, Change, TypeInv, TypeOK, States, Rank,
      KeyStatus
  <2>4. QED
    BY <2>2, <2>3
<1>4. QED
  BY <1>1, <1>2, <1>3 DEF Follows

-----------------------------------------------------------------------------
(***************************************************************************)
(* Persistence.  Only the one writer changes state.json, so what it has    *)
(* compared stays compared until it renames the next revision into place.  *)
(***************************************************************************)
Persisting(p) ==
  /\ Live(p) => mem[p] = disk
  /\ phase[p] \in {"unlinking", "initSyncing"} => disk = EmptyState
  /\ phase[p] \in {"checking", "renaming"} =>
       /\ mem[p] \in States /\ next[p] \in States
       /\ Follows(mem[p], next[p])
  /\ phase[p] = "renaming" => disk = mem[p]
  /\ phase[p] = "syncing" => disk = next[p]

StoreInv ==
  /\ \A p \in Processes : Persisting(p)
  /\ disk \in survivors
  /\ AcknowledgedSurvives

\* Every step preserves it.
LEMMA StoreStep ==
  ASSUME TypeInv, TypeInv', LiveWriterHoldsLock, StoreInv, [Next]_vars
  PROVE  StoreInv'
<1> USE DEF TypeInv, TypeOK, HasState, StoreInv, Persisting, Live, Goto,
    AcknowledgedSurvives
<1>1. ASSUME NEW p \in Processes,
             CreateLock(p) \/ WriteLock(p) \/ Initialize(p)
      PROVE  StoreInv'
  BY <1>1 DEF CreateLock, WriteLock, Initialize, dirVars
<1>2. ASSUME NEW p \in Processes, LoadState(p)
      PROVE  StoreInv'
  BY <1>2 DEF LoadState, dirVars
<1>3. ASSUME NEW p \in Processes, LinkState(p)
      PROVE  StoreInv'
  <2>1. acked = NoState
    BY <1>3 DEF LinkState
  <2>2. \A q \in Processes \ {p} : phase[q] \notin Writing
    BY <1>3, OneWriter DEF LinkState, Writing, Opening
  <2>3. QED
    BY <1>3, <2>1, <2>2 DEF LinkState, Writing, Opening, Busy
<1>4. ASSUME NEW p \in Processes, UnlinkTemporary(p)
      PROVE  StoreInv'
  BY <1>4 DEF UnlinkTemporary
<1>5. ASSUME NEW p \in Processes, PublishFirst(p)
      PROVE  StoreInv'
  <2>1. disk = EmptyState /\ EmptyState # NoState
    BY <1>5, EmptyStateIsState, StoreAssumption DEF PublishFirst
  <2>2. Follows(EmptyState, EmptyState)
    BY EmptyStateIsState, FollowsItself
  <2>3. QED
    BY <1>5, <2>1, <2>2 DEF PublishFirst
<1>6. ASSUME NEW p \in Processes, OpenFails(p) \/ Close(p)
      PROVE  StoreInv'
  BY <1>6 DEF OpenFails, Close, ReleaseLock
<1>7. ASSUME NEW p \in Processes, CheckDisk(p)
      PROVE  StoreInv'
  BY <1>7 DEF CheckDisk, dirVars
<1>8. ASSUME NEW p \in Processes, Rename(p)
      PROVE  StoreInv'
  <2>1. /\ disk = mem[p] /\ mem[p] \in States /\ next[p] \in States
        /\ Follows(mem[p], next[p])
    BY <1>8 DEF Rename
  <2>2. next[p] # NoState
    BY <2>1, StoreAssumption
  <2>3. acked # NoState => Follows(acked, next[p])
    BY <2>1, FollowsTransitive
  <2>4. \A q \in Processes \ {p} : phase[q] \notin Writing
    BY <1>8, OneWriter DEF Rename, Writing, Busy
  <2>5. AcknowledgedSurvives' /\ disk' \in survivors'
    BY <1>8, <2>2, <2>3 DEF Rename
  <2>6. ASSUME NEW q \in Processes
        PROVE  Persisting(q)'
    BY <1>8, <2>4 DEF Rename, Writing, Opening, Busy
  <2>7. QED
    BY <2>5, <2>6
<1>9. ASSUME NEW p \in Processes, Publish(p)
      PROVE  StoreInv'
  <2>1. disk = next[p] /\ next[p] \in States
    BY <1>9 DEF Publish, Busy
  <2>2. Follows(next[p], next[p]) /\ next[p] # NoState
    BY <2>1, FollowsItself, StoreAssumption
  <2>3. QED
    BY <1>9, <2>1, <2>2 DEF Publish
<1>10. ASSUME NEW p \in Processes, PersistFails(p)
       PROVE  StoreInv'
  BY <1>10 DEF PersistFails, dirVars, Busy
<1>11. ASSUME NEW p \in Processes, ClockRegressed(p)
       PROVE  StoreInv'
  BY <1>11 DEF ClockRegressed, dirVars
<1>12. ASSUME NEW p \in Processes, Crash(p)
       PROVE  StoreInv'
  BY <1>12 DEF Crash, dirVars
<1>13. ASSUME NEW p \in Processes, NEW k \in Keys, Rotate(p, k) \/ Revoke(p, k)
       PROVE  StoreInv'
  <2>1. /\ mem[p] \in States /\ next'[p] \in States
        /\ Follows(mem[p], next'[p])
    BY <1>13, ChangeFollows
  <2>2. /\ phase' = [phase EXCEPT ![p] = "checking"]
        /\ \A q \in Processes \ {p} : next'[q] = next[q]
        /\ UNCHANGED <<dirVars, mem, faulted, acked>>
    BY <1>13 DEF Rotate, Revoke, Change
  <2>3. QED
    BY <2>1, <2>2 DEF dirVars
<1>14. ASSUME NEW o \in Operators, Recover(o)
       PROVE  StoreInv'
  BY <1>14 DEF Recover, ReadLock, ConfirmStopped, CompareLock, RemoveLock,
    RecoveryFails, Step, dirVars, procVars
<1>15. ASSUME PowerLoss
       PROVE  StoreInv'
  BY <1>15 DEF PowerLoss
<1>16. CASE UNCHANGED vars
  BY <1>16 DEF vars, dirVars, procVars
<1>17. QED
  BY <1>1, <1>2, <1>3, <1>4, <1>5, <1>6, <1>7, <1>8, <1>9, <1>10, <1>11,
    <1>12, <1>13, <1>14, <1>15, <1>16 DEF Next, Open, Persist

\* The lock and persistence invariants together, for one operator at a time.
LEMMA StoreInvariance ==
  ASSUME OneOperator
  PROVE  Spec => [](TypeInv /\ StoreInv)
<1>1. Init => StoreInv
  BY DEF Init, StoreInv, Persisting, Live, AcknowledgedSurvives
<1>2. TypeInv /\ TypeInv' /\ LiveWriterHoldsLock /\ StoreInv /\ [Next]_vars
        => StoreInv'
  BY StoreStep
<1>3. Spec => []LiveWriterHoldsLock
  BY WriterHoldsLock, OneOperator
<1>4. QED
  BY <1>1, <1>2, <1>3, TypeInit, TypeStep, PTL DEF Spec

\* A usable store signs with the state on disk.
THEOREM LiveStatesCurrent ==
  ASSUME OneOperator
  PROVE  Spec => []LiveStateIsCurrent
<1>1. TypeInv /\ StoreInv => LiveStateIsCurrent
  BY DEF StoreInv, Persisting, LiveStateIsCurrent
<1>2. QED
  BY <1>1, StoreInvariance, OneOperator, PTL

\* No acknowledged change is lost to a crash or a power loss.
THEOREM AcknowledgedSurviving ==
  ASSUME OneOperator
  PROVE  Spec => []AcknowledgedSurvives
<1>1. TypeInv /\ StoreInv => AcknowledgedSurvives
  BY DEF StoreInv
<1>2. QED
  BY <1>1, StoreInvariance, OneOperator, PTL

\* No usable store has an active key that an acknowledged change has retired or
\* revoked, whichever process made the change (revoke, rotate, live).
EndedKeysAreNotServed ==
  \A p \in Processes, k \in Keys :
    Live(p) /\ acked # NoState /\ acked.status[k] \in {"retired", "revoked"} =>
      k \notin ActiveKeys(mem[p])

\* A revocation is final: after it is acknowledged no process, no crash and no
\* power loss brings the key back into use.
THEOREM EndedKeysNotServed ==
  ASSUME OneOperator
  PROVE  Spec => []EndedKeysAreNotServed
<1>1. ASSUME TypeInv, StoreInv, NEW p \in Processes, NEW k \in Keys,
             Live(p), acked # NoState,
             acked.status[k] \in {"retired", "revoked"}
      PROVE  k \notin ActiveKeys(mem[p])
  <2>1. mem[p] = disk
    BY <1>1 DEF StoreInv, Persisting
  <2>2. Follows(acked, disk)
    BY <1>1 DEF StoreInv, AcknowledgedSurvives
  <2>3. Rank[acked.status[k]] <= Rank[disk.status[k]]
    BY <2>2 DEF Follows
  <2>4. Rank[acked.status[k]] \in {2, 3} /\ Rank["active"] = 1
    BY <1>1 DEF Rank
  <2>5. disk.status[k] # "active"
    BY <2>3, <2>4
  <2>6. QED
    BY <2>1, <2>5 DEF ActiveKeys
<1>2. TypeInv /\ StoreInv => EndedKeysAreNotServed
  BY <1>1 DEF EndedKeysAreNotServed
<1>3. QED
  BY <1>2, StoreInvariance, OneOperator, PTL

\* Acknowledged revisions follow each other, whoever makes them.
THEOREM AcknowledgedOrdered ==
  ASSUME OneOperator
  PROVE  Spec => AcknowledgedInOrder
<1>1. ASSUME TypeInv, StoreInv, [Next]_vars, acked' # acked, acked # NoState
      PROVE  Follows(acked, acked')
  <2>1. acked' = disk
    BY <1>1 DEF Next, Open, Persist, CreateLock, WriteLock, LoadState,
      Initialize, LinkState, UnlinkTemporary, PublishFirst, OpenFails,
      CheckDisk, Rename, Publish, PersistFails, ClockRegressed, Close, Crash,
      Rotate, Revoke, Change, Recover, ReadLock, ConfirmStopped, CompareLock,
      RemoveLock, RecoveryFails, Step, PowerLoss, vars, StoreInv, Persisting
  <2>2. QED
    BY <1>1, <2>1 DEF StoreInv, AcknowledgedSurvives
<1>2. TypeInv /\ StoreInv /\ [Next]_vars =>
        [acked # NoState => Follows(acked, acked')]_acked
  BY <1>1
<1>3. QED
  BY <1>2, StoreInvariance, OneOperator, PTL DEF Spec, AcknowledgedInOrder

-----------------------------------------------------------------------------
(***************************************************************************)
(* Valid states.  This does not depend on the lock: every state that a     *)
(* process holds or that a file may contain is valid, because the changes  *)
(* of a valid state are, so no hypothesis on the operators is needed.      *)
(***************************************************************************)
ValidInv ==
  /\ \A s \in survivors \ {NoState} : Valid(s)
  /\ disk # NoState => Valid(disk)
  /\ \A p \in Processes : /\ mem[p] # NoState => Valid(mem[p])
                          /\ next[p] # NoState => Valid(next[p])

\* The empty store is valid.
LEMMA EmptyStateIsValid == Valid(EmptyState)
<1>1. ActiveKeys(EmptyState) = {} /\ History(EmptyState) = {}
  BY DEF ActiveKeys, History, EmptyState
<1>2. QED
  BY <1>1, FS_EmptySet, StoreAssumption DEF Valid

\* The sets of keys of a state are finite.
LEMMA KeySetsFinite ==
  ASSUME NEW s
  PROVE  /\ IsFiniteSet(History(s)) /\ Cardinality(History(s)) \in Nat
         /\ IsFiniteSet(ActiveKeys(s)) /\ Cardinality(ActiveKeys(s)) \in Nat
<1>1. History(s) \in SUBSET Keys /\ ActiveKeys(s) \in SUBSET Keys
  BY DEF History, ActiveKeys
<1>2. QED
  BY <1>1, StoreAssumption, FS_Subset, FS_CardinalityType

\* A rotation adds the one active key pair and fits into the history.
LEMMA RotateIsValid ==
  ASSUME TypeInv, NEW p \in Processes, NEW k \in Keys, Rotate(p, k)
  PROVE  Valid(next'[p])
<1> DEFINE s == mem[p]
           t == next'[p]
<1>1. s \in States /\ s.status \in [Keys -> KeyStatus]
  BY DEF Rotate, TypeInv, TypeOK, HasState, States
<1>2. t.status = [j \in Keys |->
                    IF j = k THEN "active"
                    ELSE IF s.status[j] = "active" THEN "retired"
                    ELSE s.status[j]]
  BY DEF Rotate, Change, TypeInv, TypeOK
<1> HIDE DEF t
<1>3. ActiveKeys(t) = {k}
  BY <1>2 DEF ActiveKeys
<1>4. History(t) = History(s) \cup {k} /\ k \notin History(s)
  BY <1>1, <1>2 DEF History, Rotate, Unused, KeyStatus
<1>5. Cardinality(ActiveKeys(t)) = 1
  BY <1>3, FS_Singleton
<1>6. Cardinality(History(t)) = Cardinality(History(s)) + 1
  BY <1>4, FS_AddElement, KeySetsFinite
<1>7. Cardinality(History(s)) < Capacity
  BY DEF Rotate, HasRoom
<1>8. Valid(t)
  BY <1>5, <1>6, <1>7, KeySetsFinite, StoreAssumption DEF Valid
<1>9. QED
  BY <1>8 DEF t

\* A revocation takes the key pair out of use and keeps it in the history.
LEMMA RevokeIsValid ==
  ASSUME TypeInv, NEW p \in Processes, NEW k \in Keys, Revoke(p, k),
         Valid(mem[p])
  PROVE  Valid(next'[p])
<1> DEFINE s == mem[p]
           t == next'[p]
<1>1. s \in States /\ s.status \in [Keys -> KeyStatus]
  BY DEF Revoke, TypeInv, TypeOK, HasState, States
<1>2. t.status = [s.status EXCEPT ![k] = "revoked"]
  BY DEF Revoke, Change, TypeInv, TypeOK
<1> HIDE DEF t
<1>3. ActiveKeys(t) \in SUBSET ActiveKeys(s)
  BY <1>1, <1>2 DEF ActiveKeys
<1>4. History(t) = History(s)
  BY <1>1, <1>2 DEF History, Revoke
<1>5. Cardinality(ActiveKeys(t)) <= Cardinality(ActiveKeys(s))
  BY <1>3, KeySetsFinite, FS_Subset
<1>6. Valid(t)
  BY <1>4, <1>5, KeySetsFinite DEF Valid
<1>7. QED
  BY <1>6 DEF t

\* Every step keeps all states valid.
LEMMA ValidStep == TypeInv /\ ValidInv /\ [Next]_vars => ValidInv'
<1> SUFFICES ASSUME TypeInv, ValidInv, [Next]_vars
             PROVE  ValidInv'
  OBVIOUS
<1> USE DEF ValidInv
<1>1. ASSUME NEW p \in Processes, NEW k \in Keys, Rotate(p, k) \/ Revoke(p, k)
      PROVE  ValidInv'
  <2>1. Valid(next'[p])
    BY <1>1, RotateIsValid, RevokeIsValid
      DEF TypeInv, HasState, Rotate, Revoke
  <2>2. /\ UNCHANGED <<dirVars, mem>>
        /\ \A q \in Processes \ {p} : next'[q] = next[q]
    BY <1>1 DEF Rotate, Revoke, Change, TypeInv, TypeOK
  <2>3. QED
    BY <2>1, <2>2 DEF dirVars
<1>2. ASSUME NEW p \in Processes, Open(p)
      PROVE  ValidInv'
  <2>1. UNCHANGED next
    BY <1>2 DEF Open, CreateLock, WriteLock, LoadState, Initialize, LinkState,
      UnlinkTemporary, PublishFirst, OpenFails
  <2>2. CASE LoadState(p)
    BY <2>1, <2>2 DEF LoadState, dirVars, TypeInv, TypeOK
  <2>3. CASE LinkState(p)
    BY <2>1, <2>3, EmptyStateIsValid DEF LinkState
  <2>4. CASE PublishFirst(p)
    BY <2>1, <2>4, EmptyStateIsValid DEF PublishFirst, TypeInv, TypeOK
  <2>5. CASE CreateLock(p) \/ WriteLock(p) \/ Initialize(p)
               \/ UnlinkTemporary(p) \/ OpenFails(p)
    BY <2>1, <2>5 DEF CreateLock, WriteLock, Initialize, UnlinkTemporary,
      OpenFails, dirVars
  <2>6. QED
    BY <1>2, <2>2, <2>3, <2>4, <2>5 DEF Open
<1>3. ASSUME NEW p \in Processes, Persist(p)
      PROVE  ValidInv'
  <2>1. next' = next /\ next[p] # NoState
    BY <1>3 DEF Persist, CheckDisk, Rename, Publish, PersistFails, TypeInv,
      HasState, Busy
  <2>2. CASE Rename(p)
    BY <2>1, <2>2 DEF Rename
  <2>3. CASE Publish(p)
    BY <2>1, <2>3 DEF Publish, TypeInv, TypeOK
  <2>4. CASE CheckDisk(p) \/ PersistFails(p)
    BY <2>4 DEF CheckDisk, PersistFails, dirVars
  <2>5. QED
    BY <1>3, <2>2, <2>3, <2>4 DEF Persist
<1>4. ASSUME NEW p \in Processes, ClockRegressed(p) \/ Close(p) \/ Crash(p)
      PROVE  ValidInv'
  BY <1>4 DEF ClockRegressed, Close, Crash, dirVars
<1>5. ASSUME NEW o \in Operators, Recover(o)
      PROVE  ValidInv'
  BY <1>5 DEF Recover, ReadLock, ConfirmStopped, CompareLock, RemoveLock,
    RecoveryFails, Step, dirVars, procVars
<1>6. CASE PowerLoss
  BY <1>6 DEF PowerLoss
<1>7. CASE UNCHANGED vars
  BY <1>7 DEF vars, dirVars, procVars
<1>8. QED
  BY <1>1, <1>2, <1>3, <1>4, <1>5, <1>6, <1>7 DEF Next

\* Whatever is found on disk has one active key pair at most and fits into the
\* history, whoever recovers which lock.
THEOREM StatesValid == Spec => []StatesAreValid
<1>1. Init => ValidInv
  BY DEF Init, ValidInv
<1>2. ValidInv => StatesAreValid
  BY DEF ValidInv, Valid, ActiveKeys, StatesAreValid
<1>3. QED
  BY <1>1, <1>2, ValidStep, TypeInit, TypeStep, PTL DEF Spec

-----------------------------------------------------------------------------
(***************************************************************************)
(* The register.  What a process is about to rename into place is one      *)
(* revision later than what is on disk, and all that a power loss may      *)
(* bring back lies before it.                                              *)
(***************************************************************************)
RegisterInv ==
  /\ \A p \in Processes :
       /\ phase[p] \in Busy => ~faulted[p]
       /\ phase[p] \in {"checking", "renaming"} =>
            next[p].revision = mem[p].revision + 1
  /\ \A s \in survivors \ {NoState} : disk # NoState /\ Follows(s, disk)

\* Every step preserves it.
LEMMA RegisterInvStep ==
  ASSUME TypeInv, TypeInv', LiveWriterHoldsLock, StoreInv, RegisterInv,
         [Next]_vars
  PROVE  RegisterInv'
<1> USE DEF TypeInv, TypeOK, HasState, RegisterInv, Live, Goto, Busy
<1>1. ASSUME NEW p \in Processes,
             \/ CreateLock(p) \/ WriteLock(p) \/ LoadState(p) \/ Initialize(p)
             \/ UnlinkTemporary(p) \/ OpenFails(p) \/ Close(p)
      PROVE  RegisterInv'
  BY <1>1 DEF CreateLock, WriteLock, LoadState, Initialize, UnlinkTemporary,
    OpenFails, Close, ReleaseLock, Opening, dirVars
<1>2. ASSUME NEW p \in Processes, LinkState(p)
      PROVE  RegisterInv'
  BY <1>2, EmptyStateIsState, FollowsItself, StoreAssumption DEF LinkState
<1>3. ASSUME NEW p \in Processes, PublishFirst(p)
      PROVE  RegisterInv'
  BY <1>3, EmptyStateIsState, FollowsItself, StoreAssumption
    DEF PublishFirst, StoreInv, Persisting
<1>4. ASSUME NEW p \in Processes, NEW k \in Keys, Rotate(p, k) \/ Revoke(p, k)
      PROVE  RegisterInv'
  <2>1. /\ next'[p].revision = mem[p].revision + 1
        /\ phase' = [phase EXCEPT ![p] = "checking"] /\ ~faulted[p]
        /\ \A q \in Processes \ {p} : next'[q] = next[q]
        /\ UNCHANGED <<dirVars, mem, faulted>>
    BY <1>4 DEF Rotate, Revoke, Change
  <2>2. QED
    BY <2>1 DEF dirVars
<1>5. ASSUME NEW p \in Processes, CheckDisk(p) \/ PersistFails(p)
      PROVE  RegisterInv'
  BY <1>5 DEF CheckDisk, PersistFails, dirVars
<1>6. ASSUME NEW p \in Processes, Rename(p)
      PROVE  RegisterInv'
  <2>1. /\ disk \in States /\ next[p] \in States /\ Follows(disk, next[p])
        /\ next[p] # NoState
    BY <1>6, StoreAssumption DEF Rename, StoreInv, Persisting
  <2>2. ASSUME NEW s \in survivors' \ {NoState}
        PROVE  disk' # NoState /\ Follows(s, disk')
    <3>1. disk' = next[p] /\ survivors' = survivors \cup {next[p]}
      BY <1>6 DEF Rename
    <3>2. s \in States
      BY <3>1, <2>1
    <3>3. CASE s = next[p]
      BY <2>1, <3>1, <3>3, FollowsItself
    <3>4. CASE s \in survivors
      BY <2>1, <3>1, <3>2, <3>4, FollowsTransitive
    <3>5. QED
      BY <3>1, <3>3, <3>4
  <2>3. QED
    BY <1>6, <2>2 DEF Rename
<1>7. ASSUME NEW p \in Processes, Publish(p)
      PROVE  RegisterInv'
  <2>1. disk \in States /\ disk # NoState
    BY <1>7, StoreAssumption DEF Publish, StoreInv, Persisting
  <2>2. QED
    BY <1>7, <2>1, FollowsItself DEF Publish
<1>8. ASSUME NEW p \in Processes, ClockRegressed(p)
      PROVE  RegisterInv'
  BY <1>8 DEF ClockRegressed, dirVars
<1>9. ASSUME NEW p \in Processes, Crash(p)
      PROVE  RegisterInv'
  BY <1>9 DEF Crash, dirVars
<1>10. ASSUME NEW o \in Operators, Recover(o)
       PROVE  RegisterInv'
  BY <1>10 DEF Recover, ReadLock, ConfirmStopped, CompareLock, RemoveLock,
    RecoveryFails, Step, dirVars, procVars
<1>11. ASSUME PowerLoss
       PROVE  RegisterInv'
  BY <1>11, FollowsItself DEF PowerLoss
<1>12. CASE UNCHANGED vars
  BY <1>12 DEF vars, dirVars, procVars
<1>13. QED
  BY <1>1, <1>2, <1>3, <1>4, <1>5, <1>6, <1>7, <1>8, <1>9, <1>10, <1>11,
    <1>12 DEF Next, Open, Persist

\* A step that no usable store notices.
LEMMA ServedUnchanged ==
  ASSUME \A q \in Processes : Live(q)' <=> Live(q),
         \A q \in Processes : Live(q) => mem'[q] = mem[q]
  PROVE  Served' = Served
BY DEF Served

LEMMA ServedByNone ==
  ASSUME \A q \in Processes : ~Live(q)
  PROVE  Served = {}
BY DEF Served

LEMMA ServedByNoneThen ==
  ASSUME \A q \in Processes : ~Live(q)'
  PROVE  Served' = {}
BY DEF Served

LEMMA ServedByOneThen ==
  ASSUME NEW p \in Processes, Live(p)',
         \A q \in Processes \ {p} : ~Live(q)'
  PROVE  Served' = {<<p, mem'[p]>>}
BY DEF Served

\* Store and register have the same states and the same order of them.
LEMMA SameStates ==
  /\ Register!States = States /\ Register!EmptyState = EmptyState
  /\ \A s, u : /\ Register!Follows(s, u) <=> Follows(s, u)
               /\ Register!Valid(s) <=> Valid(s)
<1>1. Register!States = States
  BY DEF Register!States, States, Register!KeyStatus, KeyStatus
<1>2. Register!EmptyState = EmptyState
  BY DEF Register!EmptyState, EmptyState
<1>3. ASSUME NEW s, NEW u
      PROVE  Register!Follows(s, u) <=> Follows(s, u)
  BY DEF Register!Follows, Follows, Register!Rank, Rank
<1>4. ASSUME NEW s
      PROVE  Register!Valid(s) <=> Valid(s)
  <2>1. Register!ActiveKeys(s) = ActiveKeys(s) /\ Register!History(s) = History(s)
    BY DEF Register!ActiveKeys, ActiveKeys, Register!History, History
  <2>2. QED
    BY <2>1 DEF Register!Valid, Valid, Register!Cardinality, Cardinality
<1>5. QED
  BY <1>1, <1>2, <1>3, <1>4

\* While a process is opening or has the store, no other one has.
LEMMA OthersNotLive ==
  ASSUME LiveWriterHoldsLock, NEW p \in Processes, phase[p] \in Writing
  PROVE  \A q \in Processes \ {p} : phase[q] \notin Writing /\ ~Live(q)
BY OneWriter DEF Live, Writing

\* Every step is one of the register's or leaves it alone.
LEMMA RegisterStep ==
  ASSUME TypeInv, TypeInv', LiveWriterHoldsLock, StoreInv, ValidInv,
         RegisterInv, [Next]_vars
  PROVE  [Register!Next]_(Register!vars)
<1> DEFINE Stutter == UNCHANGED <<disk, Served, acked>>
<1> USE DEF TypeInv, TypeOK, Goto
<1>1. Stutter => [Register!Next]_(Register!vars)
  BY DEF Register!vars
<1>2. Register!Withdraw => Register!Next
  BY DEF Register!Next
<1>3. ASSUME NEW p \in Processes,
             \/ CreateLock(p) \/ WriteLock(p) \/ Initialize(p)
             \/ UnlinkTemporary(p) \/ OpenFails(p) \/ CheckDisk(p)
             \/ PersistFails(p)
      PROVE  Stutter
  <2>1. /\ ~Live(p) /\ ~Live(p)' /\ UNCHANGED <<disk, acked, mem>>
        /\ \A q \in Processes \ {p} : Live(q)' <=> Live(q)
    BY <1>3 DEF CreateLock, WriteLock, Initialize, UnlinkTemporary, OpenFails,
      CheckDisk, PersistFails, Live, Opening, Busy, dirVars
  <2>2. QED
    BY <2>1, ServedUnchanged
<1>4. ASSUME NEW p \in Processes,
             \/ \E k \in Keys : Rotate(p, k) \/ Revoke(p, k)
             \/ ClockRegressed(p) \/ Close(p)
      PROVE  Register!Withdraw
  <2>1. phase[p] \in Writing
    BY <1>4 DEF Rotate, Revoke, ClockRegressed, Close, Live, Writing
  <2>2. /\ ~Live(p)' /\ UNCHANGED <<disk, acked>>
        /\ \A q \in Processes \ {p} : Live(q)' <=> Live(q)
    BY <1>4 DEF Rotate, Revoke, Change, ClockRegressed, Close, Live, dirVars
  <2>3. Served' = {}
    BY <2>1, <2>2, OthersNotLive, ServedByNoneThen
  <2>4. QED
    BY <2>2, <2>3 DEF Register!Withdraw
<1>5. ASSUME NEW p \in Processes, LoadState(p)
      PROVE  Register!Serve(p)
  <2>1. phase[p] \in Writing /\ ~Live(p)
    BY <1>5 DEF LoadState, Writing, Opening, Live
  <2>2. /\ Live(p)' /\ mem'[p] = disk /\ disk # NoState
        /\ UNCHANGED <<disk, acked>>
        /\ \A q \in Processes \ {p} : Live(q)' <=> Live(q)
    BY <1>5 DEF LoadState, Live, dirVars
  <2>3. Served = {} /\ Served' = {<<p, disk>>}
    BY <2>1, <2>2, OthersNotLive, ServedByNone, ServedByOneThen
  <2>4. QED
    BY <2>2, <2>3 DEF Register!Serve
<1>6. ASSUME NEW p \in Processes, LinkState(p)
      PROVE  Register!Create
  <2>1. \A q \in Processes : Live(q)' <=> Live(q)
    BY <1>6 DEF LinkState, Live
  <2>2. Served' = Served
    BY <1>6, <2>1, ServedUnchanged DEF LinkState
  <2>3. QED
    BY <1>6, <2>2, SameStates DEF LinkState, Register!Create
<1>7. ASSUME NEW p \in Processes, PublishFirst(p) \/ Publish(p)
      PROVE  Register!Acknowledge(p)
  <2>1. phase[p] \in Writing /\ ~Live(p)
    BY <1>7 DEF PublishFirst, Publish, Writing, Opening, Busy, Live
  <2>2. disk # NoState /\ mem'[p] = disk /\ acked' = disk /\ disk' = disk
    BY <1>7, EmptyStateIsState, StoreAssumption
      DEF PublishFirst, Publish, StoreInv, Persisting, HasState, Busy
  <2>3. Live(p)' /\ \A q \in Processes \ {p} : Live(q)' <=> Live(q)
    BY <1>7 DEF PublishFirst, Publish, Live, RegisterInv, Busy
  <2>4. Served = {} /\ Served' = {<<p, disk>>}
    BY <2>1, <2>2, <2>3, OthersNotLive, ServedByNone, ServedByOneThen
  <2>5. QED
    BY <2>2, <2>4 DEF Register!Acknowledge
<1>8. ASSUME NEW p \in Processes, Rename(p)
      PROVE  Register!Change
  <2>1. phase[p] \in Writing /\ ~Live(p)
    BY <1>8 DEF Rename, Writing, Busy, Live
  <2>2. /\ disk = mem[p] /\ disk \in States /\ next[p] \in States
        /\ Follows(disk, next[p])
        /\ next[p].revision = disk.revision + 1
    BY <1>8 DEF Rename, StoreInv, Persisting, RegisterInv
  <2>3. disk # NoState /\ Valid(next[p])
    BY <2>2, StoreAssumption DEF ValidInv
  <2>4. \A q \in Processes : Live(q)' <=> Live(q)
    BY <1>8 DEF Rename, Live
  <2>5. Served = {} /\ Served' = Served
    BY <1>8, <2>1, <2>4, OthersNotLive, ServedByNone, ServedUnchanged DEF Rename
  <2>6. disk' = next[p] /\ acked' = acked
    BY <1>8 DEF Rename
  <2>7. QED
    BY <2>2, <2>3, <2>5, <2>6, SameStates
      DEF Register!Change, Register!Succeeds
<1>9. ASSUME NEW p \in Processes, Crash(p)
      PROVE  Stutter \/ Register!Withdraw
  <2>1. /\ ~Live(p)' /\ UNCHANGED <<disk, acked, mem>>
        /\ \A q \in Processes \ {p} : Live(q)' <=> Live(q)
    BY <1>9 DEF Crash, Live, dirVars
  <2>2. CASE Live(p)
    <3>1. Served' = {}
      BY <2>1, <2>2, OthersNotLive, ServedByNoneThen DEF Live, Writing
    <3>2. QED
      BY <2>1, <3>1 DEF Register!Withdraw
  <2>3. CASE ~Live(p)
    BY <2>1, <2>3, ServedUnchanged
  <2>4. QED
    BY <2>2, <2>3
<1>10. ASSUME NEW o \in Operators, Recover(o)
       PROVE  Stutter
  <2>1. UNCHANGED <<phase, mem, faulted, disk, acked>>
    BY <1>10 DEF Recover, ReadLock, ConfirmStopped, CompareLock, RemoveLock,
      RecoveryFails, Step, dirVars, procVars
  <2>2. QED
    BY <2>1 DEF Served, Live
<1>11. ASSUME PowerLoss
       PROVE  Register!Undo
  <2>1. Served' = {}
    BY <1>11, ServedByNoneThen DEF PowerLoss, Live
  <2>2. disk' \in survivors /\ acked' = acked
    BY <1>11 DEF PowerLoss
  <2>3. QED
    BY <2>1, <2>2, SameStates
      DEF Register!Undo, RegisterInv, StoreInv, AcknowledgedSurvives
<1>12. CASE UNCHANGED vars
  BY <1>1, <1>12 DEF vars, dirVars, procVars, Served, Live
<1>13. ASSUME NEW p \in Processes,
              Register!Serve(p) \/ Register!Acknowledge(p)
       PROVE  Register!Next
  BY <1>13 DEF Register!Next
<1>14. Register!Create \/ Register!Change \/ Register!Undo => Register!Next
  BY DEF Register!Next
<1>15. ASSUME Next
       PROVE  [Register!Next]_(Register!vars)
  <2>1. CASE PowerLoss
    BY <2>1, <1>11, <1>14
  <2>2. CASE \E o \in Operators : Recover(o)
    BY <2>2, <1>1, <1>10
  <2>3. ASSUME NEW p \in Processes,
               \/ Open(p) \/ Persist(p) \/ ClockRegressed(p) \/ Close(p)
               \/ Crash(p) \/ \E k \in Keys : Rotate(p, k) \/ Revoke(p, k)
        PROVE  [Register!Next]_(Register!vars)
    BY <2>3, <1>1, <1>2, <1>3, <1>4, <1>5, <1>6, <1>7, <1>8, <1>9, <1>13, <1>14
      DEF Open, Persist
  <2>4. QED
    BY <1>15, <2>1, <2>2, <2>3 DEF Next
<1>16. QED
  BY <1>12, <1>15

\* The first state is a register's, too.
LEMMA RegisterInit == Init => Register!Init /\ RegisterInv /\ ValidInv
<1> SUFFICES ASSUME Init
             PROVE  Register!Init /\ RegisterInv /\ ValidInv
  OBVIOUS
<1>1. Served = {}
  BY ServedByNone DEF Init, Live
<1>2. Register!Init
  BY <1>1 DEF Init, Register!Init
<1>3. RegisterInv /\ ValidInv
  BY DEF Init, RegisterInv, ValidInv, Busy
<1>4. QED
  BY <1>2, <1>3

\* The key directory, with all processes that open it, is one register of key
\* states: served by one of them at a time as it is on disk, changed by one
\* rotation or revocation after the other, and never behind what has been
\* acknowledged.
THEOREM StoreImplementsRegister ==
  ASSUME OneOperator
  PROVE  Spec => ImplementsKeyRegister
<1>1. TypeInv /\ TypeInv' /\ LiveWriterHoldsLock /\ StoreInv /\ RegisterInv
        /\ [Next]_vars => RegisterInv'
  BY RegisterInvStep
<1>2. TypeInv /\ TypeInv' /\ LiveWriterHoldsLock /\ StoreInv /\ ValidInv
        /\ RegisterInv /\ [Next]_vars => [Register!Next]_(Register!vars)
  BY RegisterStep
<1>3. Spec => []LiveWriterHoldsLock
  BY WriterHoldsLock, OneOperator
<1>4. QED
  BY <1>1, <1>2, <1>3, RegisterInit, ValidStep, TypeInit, TypeStep,
    StoreInvariance, OneOperator, PTL
    DEF Spec, ImplementsKeyRegister, Register!Spec

=============================================================================
