---------------------------- MODULE LocalProofSink ----------------------------
(***************************************************************************)
(* The local proof sink (sdk/node/local-proof-sink.js): every call of      *)
(* retain() creates one file and acknowledges it after the fsync of the    *)
(* file, of its directory and of the directory's parent.  Calls run beside *)
(* each other; an await ends each of the steps below, any of which may     *)
(* fail, and the process may stop or lose its power between them.          *)
(***************************************************************************)
EXTENDS LocalFiles

CONSTANTS
  Calls,      \* calls of retain(), in the life of any number of processes
  NameOf      \* the file each writes: attempt ID and suffix

ASSUME SinkAssumption ==
  /\ NameOf \in [Calls -> Names]
  /\ Absent \notin Calls /\ Partial \notin Calls

VARIABLE pc      \* where each call is

vars == <<fileVars, pc>>

\* Awaiting the creation of the file, and so on; `answer` has all done but
\* has not been told to the caller.
Running == {"create", "write", "flush", "directory", "parent", "answer"}

TypeOK ==
  /\ files \in [Names -> Calls \cup {Absent, Partial}]
  /\ flushed \subseteq Names
  /\ linked \subseteq Names
  /\ directory \in {"created", "durable", "lost"}
  /\ pc \in [Calls -> Running \cup {"idle", "acknowledged", "rejected", "stopped"}]

Init == FilesInit /\ pc = [c \in Calls |-> "idle"]

At(c, place) == pc[c] = place

Goto(c, place) == pc' = [pc EXCEPT ![c] = place]

-----------------------------------------------------------------------------
\* The attempt ID is checked and the directory looked at.
Begin(c) ==
  /\ At(c, "idle")
  /\ Goto(c, IF directory = "lost" THEN "rejected" ELSE "create")
  /\ UNCHANGED fileVars

\* Mutant: O_TRUNC in place of O_EXCL.
CreateTruncating(c) ==
  /\ At(c, "create") /\ directory # "lost" /\ Fill(NameOf[c], Partial)
  /\ Goto(c, "write")

Create(c) ==
  /\ At(c, "create") /\ CreateExclusive(NameOf[c])
  /\ Goto(c, "write")

Write(c) ==
  /\ At(c, "write") /\ Fill(NameOf[c], c)
  /\ Goto(c, "flush")

\* Mutant: the file is closed without fsync.
CloseRecord(c) ==
  /\ At(c, "flush")
  /\ Goto(c, "directory")
  /\ UNCHANGED fileVars

FlushRecord(c) ==
  /\ At(c, "flush") /\ Flush(NameOf[c])
  /\ Goto(c, "directory")

FlushRoot(c) ==
  /\ At(c, "directory") /\ FlushDirectory
  /\ Goto(c, "parent")

\* Mutant: only the directory itself is flushed.
SkipParent(c) ==
  /\ At(c, "parent")
  /\ Goto(c, "answer")
  /\ UNCHANGED fileVars

FlushRootParent(c) ==
  /\ At(c, "parent") /\ FlushParent
  /\ Goto(c, "answer")

Acknowledge(c) ==
  /\ At(c, "answer")
  /\ Goto(c, "acknowledged")
  /\ UNCHANGED fileVars

\* Any step may fail, creation also because the file exists.  What has been
\* done stays: nothing removes the file.
Reject(c) ==
  /\ pc[c] \in Running
  /\ Goto(c, "rejected")
  /\ UNCHANGED fileVars

-----------------------------------------------------------------------------
\* The calls that are running when their process stops.
StopAll ==
  pc' = [c \in Calls |-> IF pc[c] \in Running THEN "stopped" ELSE pc[c]]

Crash == StopAll /\ UNCHANGED fileVars

PowerLoss == StopAll /\ PowerFails

Repair == MakeDirectory /\ UNCHANGED pc

Retain(c) ==
  \/ Begin(c) \/ Create(c) \/ Write(c) \/ FlushRecord(c)
  \/ FlushRoot(c) \/ FlushRootParent(c) \/ Acknowledge(c) \/ Reject(c)

Next ==
  \/ \E c \in Calls : Retain(c)
  \/ Crash
  \/ PowerLoss
  \/ Repair

Spec == Init /\ [][Next]_vars

-----------------------------------------------------------------------------
(***************************************************************************)
(* Properties                                                              *)
(***************************************************************************)

\* Whenever a record has been acknowledged, the complete record is found under
\* its name, after any crash and power loss, whichever calls ran beside it
\* (retain).
AcknowledgedRecordsSurvive ==
  \A c \in Calls : At(c, "acknowledged") => files[NameOf[c]] = c

\* A record that is complete is never replaced by another one, and loses its
\* content by nothing but a power loss (exclusive creation in retain).
RecordsAreNotReplaced ==
  [][\A n \in Names :
       files[n] \in Calls => files'[n] = files[n] \/ PowerFails]_vars

\* The sink does what the execution gate relies on.
Kept == {c \in Calls : files[NameOf[c]] = c}

Answer == [c \in Calls |-> IF pc[c] \in {"acknowledged", "rejected"}
                           THEN pc[c] ELSE "none"]

Store == INSTANCE RecordStore WITH kept <- Kept, answer <- Answer

\* Every step of the sink is a step of RecordStore or invisible to the gate:
\* an acknowledgment follows the record, and rejected calls may leave theirs
\* (retain, retainAuthorization, retainReceipt).
ImplementsRecordStore == Store!Spec

===============================================================================
