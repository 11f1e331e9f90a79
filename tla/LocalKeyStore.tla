---------------------------- MODULE LocalKeyStore ----------------------------
(***************************************************************************)
(* The local key store of sdk/node/pqc/local-keys.mjs: several operating   *)
(* system processes that may open one key directory, the writer lock that  *)
(* keeps all but one of them out, the persistence of each key revision, and *)
(* operators that recover the lock of a writer that has crashed.           *)
(*                                                                         *)
(* A process performs one uninterrupted segment between two awaits; other  *)
(* processes, operators, a crash or a power loss may come in between.  A   *)
(* crash of a process loses its memory and keeps every file.  A power loss *)
(* also undoes directory changes that no fsync of the directory has made   *)
(* durable: `survivors` holds what state.json may contain afterwards.      *)
(* A file's own content is synced before it is linked or renamed into      *)
(* place, so what survives is always one complete revision.                *)
(***************************************************************************)
EXTENDS KeyStates

CONSTANTS
  Processes,    \* processes (process identifiers are not reused)
  Operators,    \* concurrent calls of recoverLocalKeyLock
  MaxLocks,     \* bound on the number of lock files ever created
  NoLock

VARIABLES
  (*************************************************************************)
  (* The key directory                                                     *)
  (*************************************************************************)
  lock,        \* .writer-lock: its inode, the process it names, whether its
               \* content is complete
  locks,       \* how many lock files have been created
  disk,        \* state.json as processes see it
  extraLink,   \* the temporary file is still a second link of state.json
  survivors,   \* what state.json may hold after a power loss
  (*************************************************************************)
  (* Variables of openLocalKeyStore(), per process                         *)
  (*************************************************************************)
  phase,       \* where the process is; see Phases
  token,       \* the inode of the lock file the process created, or 0
  mem,         \* `state`
  next,        \* the revision being persisted
  faulted,
  (*************************************************************************)
  (* Variables of recoverLocalKeyLock(), per operator                      *)
  (*************************************************************************)
  recovery,
  (*************************************************************************)
  (* History                                                               *)
  (*************************************************************************)
  acked        \* the latest revision whose change was acknowledged

dirVars == <<lock, locks, disk, extraLink, survivors>>
procVars == <<phase, token, mem, next, faulted>>
vars == <<dirVars, procVars, recovery, acked>>

-----------------------------------------------------------------------------
Locks == [inode : 1..MaxLocks, pid : Processes, complete : BOOLEAN]

\* Busy while change() persists: checking, renaming, syncing.
Busy == {"checking", "renaming", "syncing"}

\* openLocalKeyStore() once the lock file exists, then the open store.
Opening == {"locked", "loading", "linking", "unlinking", "initSyncing"}

Writing == Opening \cup {"open"} \cup Busy

Phases == Writing \cup {"closed", "dead"}

Idle == [step |-> "idle", seen |-> NoLock]

ASSUME StoreAssumption ==
  /\ IsFiniteSet(Keys)
  /\ Capacity \in Nat /\ MaxRevision \in Nat /\ MaxLocks \in Nat
  /\ NoLock \notin Locks /\ NoState \notin States

TypeOK ==
  /\ lock \in Locks \cup {NoLock}
  /\ locks \in 0..MaxLocks
  /\ disk \in States \cup {NoState}
  /\ extraLink \in BOOLEAN
  /\ survivors \in SUBSET (States \cup {NoState})
  /\ phase \in [Processes -> Phases]
  /\ token \in [Processes -> 0..MaxLocks]
  /\ mem \in [Processes -> States \cup {NoState}]
  /\ next \in [Processes -> States \cup {NoState}]
  /\ faulted \in [Processes -> BOOLEAN]
  /\ recovery \in [Operators ->
       [step : {"idle", "read", "stopped", "compared"},
        seen : Locks \cup {NoLock}]]
  /\ acked \in States \cup {NoState}

Init ==
  /\ lock = NoLock
  /\ locks = 0
  /\ disk = NoState
  /\ extraLink = FALSE
  /\ survivors = {NoState}
  /\ phase = [p \in Processes |-> "closed"]
  /\ token = [p \in Processes |-> 0]
  /\ mem = [p \in Processes |-> NoState]
  /\ next = [p \in Processes |-> NoState]
  /\ faulted = [p \in Processes |-> FALSE]
  /\ recovery = [o \in Operators |-> Idle]
  /\ acked = NoState

Goto(p, there) == phase' = [phase EXCEPT ![p] = there]

\* releaseLock: a lock whose content is not this handle's is left alone.
OwnLock(p) == lock # NoLock /\ lock.inode = token[p] /\ lock.complete

ReleaseLock(p) ==
  /\ lock' = IF OwnLock(p) THEN NoLock ELSE lock
  /\ token' = [token EXCEPT ![p] = 0]

-----------------------------------------------------------------------------
(***************************************************************************)
(* openLocalKeyStore                                                       *)
(***************************************************************************)
\* Mutant: the lock file is created without O_EXCL.
LockIgnored == TRUE

\* The exclusive creation of the lock file; with a lock there, opening fails
\* and changes nothing.
LockFree == lock = NoLock

CreateLock(p) ==
  /\ phase[p] = "closed"
  /\ LockFree
  /\ locks < MaxLocks
  /\ locks' = locks + 1
  /\ lock' = [inode |-> locks + 1, pid |-> p, complete |-> FALSE]
  /\ token' = [token EXCEPT ![p] = locks + 1]
  /\ Goto(p, "locked")
  /\ UNCHANGED <<disk, extraLink, survivors, mem, next, faulted, recovery,
                 acked>>

WriteLock(p) ==
  /\ phase[p] = "locked"
  /\ lock' = IF lock # NoLock /\ lock.inode = token[p]
             THEN [lock EXCEPT !.complete = TRUE] ELSE lock
  /\ Goto(p, "loading")
  /\ UNCHANGED <<locks, disk, extraLink, survivors, token, mem, next, faulted,
                 recovery, acked>>

LoadState(p) ==
  /\ phase[p] = "loading"
  /\ disk # NoState /\ ~extraLink
  /\ mem' = [mem EXCEPT ![p] = disk]
  /\ faulted' = [faulted EXCEPT ![p] = FALSE]
  /\ Goto(p, "open")
  /\ UNCHANGED <<dirVars, token, next, recovery, acked>>

\* Opened with `initialize` and without a state file.
Initialize(p) ==
  /\ phase[p] = "loading"
  /\ disk = NoState
  /\ Goto(p, "linking")
  /\ UNCHANGED <<dirVars, token, mem, next, faulted, recovery, acked>>

LinkState(p) ==
  /\ phase[p] = "linking"
  /\ disk = NoState
  /\ disk' = EmptyState
  /\ extraLink' = TRUE
  /\ survivors' = survivors \cup {EmptyState}
  /\ Goto(p, "unlinking")
  /\ UNCHANGED <<lock, locks, token, mem, next, faulted, recovery, acked>>

UnlinkTemporary(p) ==
  /\ phase[p] = "unlinking"
  /\ extraLink' = FALSE
  /\ Goto(p, "initSyncing")
  /\ UNCHANGED <<lock, locks, disk, survivors, token, mem, next, faulted,
                 recovery, acked>>

PublishFirst(p) ==
  /\ phase[p] = "initSyncing"
  /\ survivors' = {disk}
  /\ mem' = [mem EXCEPT ![p] = EmptyState]
  /\ faulted' = [faulted EXCEPT ![p] = FALSE]
  /\ acked' = EmptyState
  /\ Goto(p, "open")
  /\ UNCHANGED <<lock, locks, disk, extraLink, token, next, recovery>>

\* Any error while opening: the temporary file is removed if it can be, and
\* the lock is released unless it is only partly written.
OpenFails(p) ==
  /\ phase[p] \in Opening
  /\ IF phase[p] = "unlinking" THEN extraLink' \in BOOLEAN
                               ELSE UNCHANGED extraLink
  /\ ReleaseLock(p)
  /\ Goto(p, "closed")
  /\ UNCHANGED <<locks, disk, survivors, mem, next, faulted, recovery, acked>>

-----------------------------------------------------------------------------
(***************************************************************************)
(* rotate and revoke: change() computes and validates the next revision in *)
(* one segment, then persists it.                                          *)
(***************************************************************************)
Live(p) == phase[p] = "open" /\ ~faulted[p]

Change(p, status) ==
  /\ Live(p)
  /\ mem[p].revision < MaxRevision
  /\ next' = [next EXCEPT ![p] = [revision |-> mem[p].revision + 1,
                                  status |-> status]]
  /\ Goto(p, "checking")
  /\ UNCHANGED <<dirVars, token, mem, faulted, recovery, acked>>

\* Mutants: one key set too many; a key pair of the history used again.
HasRoomOffByOne(s) == Cardinality(History(s)) <= Capacity

NotActive(s, k) == s.status[k] # "active"

\* rotate's own limit; validateState tests the same of the state it makes.
HasRoom(s) == Cardinality(History(s)) < Capacity

\* A key pair that occurs in the history is rejected by validateState.
Unused(s, k) == s.status[k] = "absent"

Rotate(p, k) ==
  /\ Live(p)
  /\ Unused(mem[p], k)
  /\ HasRoom(mem[p])
  /\ Change(p, [j \in Keys |->
       IF j = k THEN "active"
       ELSE IF mem[p].status[j] = "active" THEN "retired"
       ELSE mem[p].status[j]])

Revoke(p, k) ==
  /\ Live(p)
  /\ mem[p].status[k] \in {"active", "retired"}
  /\ Change(p, [mem[p].status EXCEPT ![k] = "revoked"])

\* The state on disk must still be the one in memory.
CheckDisk(p) ==
  /\ phase[p] = "checking"
  /\ disk = mem[p] /\ ~extraLink
  /\ Goto(p, "renaming")
  /\ UNCHANGED <<dirVars, token, mem, next, faulted, recovery, acked>>

Rename(p) ==
  /\ phase[p] = "renaming"
  /\ disk' = next[p]
  /\ survivors' = survivors \cup {next[p]}
  /\ Goto(p, "syncing")
  /\ UNCHANGED <<lock, locks, extraLink, token, mem, next, faulted, recovery,
                 acked>>

\* Mutant: the directories are not synced.
PublishUnsynced(p) ==
  /\ phase[p] = "syncing"
  /\ mem' = [mem EXCEPT ![p] = next[p]]
  /\ acked' = next[p]
  /\ Goto(p, "open")
  /\ UNCHANGED <<dirVars, token, next, faulted, recovery>>

\* Both directories are synced; the change is acknowledged to its caller.
Publish(p) ==
  /\ phase[p] = "syncing"
  /\ survivors' = {disk}
  /\ mem' = [mem EXCEPT ![p] = next[p]]
  /\ acked' = next[p]
  /\ Goto(p, "open")
  /\ UNCHANGED <<lock, locks, disk, extraLink, token, next, faulted, recovery>>

\* Mutant: a failed change leaves the store usable.
PersistFailsSilently(p) ==
  /\ phase[p] \in Busy
  /\ Goto(p, "open")
  /\ UNCHANGED <<dirVars, token, mem, next, faulted, recovery, acked>>

\* Any error, before or after the rename took place.
PersistFails(p) ==
  /\ phase[p] \in Busy
  /\ faulted' = [faulted EXCEPT ![p] = TRUE]
  /\ Goto(p, "open")
  /\ UNCHANGED <<dirVars, token, mem, next, recovery, acked>>

\* Any call of the store reads the clock and faults it if the time went back.
ClockRegressed(p) ==
  /\ Live(p)
  /\ faulted' = [faulted EXCEPT ![p] = TRUE]
  /\ UNCHANGED <<dirVars, phase, token, mem, next, recovery, acked>>

Close(p) ==
  /\ phase[p] = "open"
  /\ ReleaseLock(p)
  /\ Goto(p, "closed")
  /\ UNCHANGED <<locks, disk, extraLink, survivors, mem, next, faulted,
                 recovery, acked>>

-----------------------------------------------------------------------------
(***************************************************************************)
(* recoverLocalKeyLock, called with confirmStopped and the process and     *)
(* revision the operator has seen.  An error ends the call.                *)
(***************************************************************************)
Step(o, from, to, seen) ==
  /\ recovery[o].step = from
  /\ recovery' = [recovery EXCEPT ![o] = [step |-> to, seen |-> seen]]
  /\ UNCHANGED <<locks, disk, extraLink, survivors, procVars, acked>>

\* A lock whose content is incomplete does not parse.
ReadLock(o) ==
  /\ lock # NoLock /\ lock.complete
  /\ Step(o, "idle", "read", lock)
  /\ UNCHANGED lock

\* Mutant: the answer of the process check is read the wrong way round.
ConfirmRunning(o) ==
  /\ recovery[o].step = "read"
  /\ phase[recovery[o].seen.pid] # "dead"
  /\ disk # NoState /\ ~extraLink
  /\ Step(o, "read", "stopped", recovery[o].seen)
  /\ UNCHANGED lock

\* The process the lock names does not exist, and the revision on disk is the
\* expected one.
ConfirmStopped(o) ==
  /\ recovery[o].step = "read"
  /\ phase[recovery[o].seen.pid] = "dead"
  /\ disk # NoState /\ ~extraLink
  /\ Step(o, "read", "stopped", recovery[o].seen)
  /\ UNCHANGED lock

\* The lock file is still the one that was read.
CompareLock(o) ==
  /\ recovery[o].step = "stopped"
  /\ lock # NoLock /\ lock.inode = recovery[o].seen.inode
  /\ Step(o, "stopped", "compared", recovery[o].seen)
  /\ UNCHANGED lock

\* unlink names a path: it removes whatever lock file is there now.
RemoveLock(o) ==
  /\ lock # NoLock
  /\ Step(o, "compared", "idle", NoLock)
  /\ lock' = NoLock

RecoveryFails(o) ==
  /\ recovery[o] # Idle
  /\ recovery' = [recovery EXCEPT ![o] = Idle]
  /\ UNCHANGED <<dirVars, procVars, acked>>

-----------------------------------------------------------------------------
(***************************************************************************)
(* Crashes                                                                 *)
(***************************************************************************)
Crash(p) ==
  /\ phase[p] # "dead"
  /\ Goto(p, "dead")
  /\ UNCHANGED <<dirVars, token, mem, next, faulted, recovery, acked>>

\* Every process that has the store dies; the lock file may be gone too.
PowerLoss ==
  /\ phase' = [p \in Processes |-> IF phase[p] = "closed" THEN "closed"
                                                         ELSE "dead"]
  /\ recovery' = [o \in Operators |-> Idle]
  /\ lock' \in {lock, NoLock}
  /\ disk' \in survivors
  /\ extraLink' = (extraLink /\ disk' = disk)
  /\ survivors' = {disk'}
  /\ UNCHANGED <<locks, token, mem, next, faulted, acked>>

-----------------------------------------------------------------------------
Open(p) ==
  \/ CreateLock(p) \/ WriteLock(p) \/ LoadState(p)
  \/ Initialize(p) \/ LinkState(p) \/ UnlinkTemporary(p) \/ PublishFirst(p)
  \/ OpenFails(p)

Persist(p) == CheckDisk(p) \/ Rename(p) \/ Publish(p) \/ PersistFails(p)

Recover(o) ==
  \/ ReadLock(o) \/ ConfirmStopped(o) \/ CompareLock(o) \/ RemoveLock(o)
  \/ RecoveryFails(o)

Next ==
  \/ \E p \in Processes :
       \/ Open(p) \/ Persist(p) \/ ClockRegressed(p) \/ Close(p) \/ Crash(p)
       \/ \E k \in Keys : Rotate(p, k) \/ Revoke(p, k)
  \/ \E o \in Operators : Recover(o)
  \/ PowerLoss

Spec == Init /\ [][Next]_vars

\* Every call of recoverLocalKeyLock ends, and the operators call it as often
\* as it takes.
Diligence ==
  \A o \in Operators : /\ SF_vars(ReadLock(o))
                       /\ SF_vars(ConfirmStopped(o))
                       /\ SF_vars(CompareLock(o))
                       /\ SF_vars(RemoveLock(o))
                       /\ WF_vars(RecoveryFails(o))

DiligentSpec == Spec /\ Diligence

-----------------------------------------------------------------------------
(***************************************************************************)
(* Properties                                                              *)
(***************************************************************************)

\* A process that is opening the store or has it open holds the lock file, so
\* there is one such process at most; no opener, recovery or late release
\* takes the lock away from it (openLocalKeyStore, releaseLock,
\* recoverLocalKeyLock).
LiveWriterHoldsLock ==
  \A p \in Processes :
    phase[p] \in Writing =>
      lock # NoLock /\ lock.pid = p /\ lock.inode = token[p]

\* The state a usable store signs with is the one on disk; after a change
\* whose outcome is uncertain no snapshot of the old one stays usable
\* (persist: faulted; change: busy).
LiveStateIsCurrent ==
  \A p \in Processes : Live(p) => mem[p] = disk

\* A change that was acknowledged is not lost, not even by a power loss right
\* after: whatever state.json may then hold follows it, and a revoked or
\* retired key is not active again (persist: rename, then directory fsync).
AcknowledgedSurvives ==
  acked # NoState =>
    \A s \in survivors : s # NoState /\ Follows(acked, s)

\* Acknowledged revisions follow each other, whichever process makes them:
\* none is overwritten by one computed from an older state (persist: the
\* comparison with the disk).
AcknowledgedInOrder ==
  [][acked # NoState => Follows(acked, acked')]_acked

\* Every state that can be found on disk has at most one active key pair and
\* no more key sets than the history may hold (rotate).
StatesAreValid ==
  \A s \in (survivors \cup {disk}) \ {NoState} : Valid(s)

\* A rotation or revocation that a usable store goes by cannot be taken back by
\* a power loss (persist syncs before it publishes; opening does not sync what
\* it loads).
PublishedIsDurable ==
  \A p \in Processes :
    Live(p) /\ mem[p].revision > 0 => survivors = {mem[p]}

\* A lock left by a crashed writer is eventually gone if its operator keeps
\* calling recoverLocalKeyLock.
StaleLockRecovered ==
  lock # NoLock /\ phase[lock.pid] = "dead" ~> lock = NoLock

\* The same for a complete lock in a directory whose initialization has been
\* acknowledged (recoverLocalKeyLock).
CompleteLockRecovered ==
  lock # NoLock /\ lock.complete /\ phase[lock.pid] = "dead" /\ acked # NoState
    ~> lock = NoLock

\* The usable stores and the state that each of them signs with.
Served == {<<p, mem[p]>> : p \in {q \in Processes : Live(q)}}

Register == INSTANCE KeyRegister WITH register <- disk, served <- Served

\* Whatever processes, operators and crashes do, the directory is one register
\* of key states: at most one usable store at a time, which signs with what is on
\* disk; one rotation or revocation after the other; nothing acknowledged is
\* undone (openLocalKeyStore, persist, releaseLock, recoverLocalKeyLock).
ImplementsKeyRegister == Register!Spec

=============================================================================
