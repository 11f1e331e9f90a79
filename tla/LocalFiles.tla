------------------------------ MODULE LocalFiles ------------------------------
(***************************************************************************)
(* Files in one directory of a local POSIX file system, as far as modules  *)
(* that create files exclusively and flush them depend on it.  A power     *)
(* loss may undo whatever no fsync has covered: the content of a file by   *)
(* its own fsync, its name by that of the directory, the directory itself  *)
(* by that of its parent.                                                  *)
(***************************************************************************)
EXTENDS Naturals

CONSTANT Names      \* names of files

VARIABLES
  files,       \* what a reader finds under each name
  flushed,     \* names of files whose content is durable
  linked,      \* names whose directory entry is durable
  directory    \* "created", "durable" (linked in its parent) or "lost"

fileVars == <<files, flushed, linked, directory>>

Absent == "absent"
Partial == "partial"      \* empty or cut off

FilesInit ==
  /\ files = [n \in Names |-> Absent]
  /\ flushed = Names
  /\ linked = {}
  /\ directory \in {"created", "durable"}

\* open with O_CREAT and O_EXCL.
CreateExclusive(n) ==
  /\ directory # "lost"
  /\ files[n] = Absent
  /\ files' = [files EXCEPT ![n] = Partial]
  /\ flushed' = flushed \ {n}
  /\ UNCHANGED <<linked, directory>>

Fill(n, content) ==
  /\ files' = [files EXCEPT ![n] = content]
  /\ flushed' = flushed \ {n}
  /\ UNCHANGED <<linked, directory>>

Flush(n) ==
  /\ flushed' = flushed \cup {n}
  /\ UNCHANGED <<files, linked, directory>>

\* fsync of the directory covers the names of all its files.
FlushDirectory ==
  /\ linked' = {n \in Names : files[n] # Absent}
  /\ UNCHANGED <<files, flushed, directory>>

FlushParent ==
  /\ directory' = "durable"
  /\ UNCHANGED <<files, flushed, linked>>

\* The directory that no fsync of its parent has covered is gone.
LoseDirectory ==
  /\ directory = "created"
  /\ directory' = "lost"
  /\ files' = [n \in Names |-> Absent]

\* Some names that are not durable are gone, some contents are cut off.
LoseFiles ==
  /\ directory # "lost"
  /\ directory' = "durable"
  /\ \E gone \in SUBSET (Names \ linked), torn \in SUBSET (Names \ flushed) :
       files' = [n \in Names |->
                   IF n \in gone THEN Absent
                   ELSE IF n \in torn /\ files[n] # Absent THEN Partial
                   ELSE files[n]]

\* What is found afterwards is what is on the disk.
PowerFails ==
  /\ LoseDirectory \/ LoseFiles
  /\ linked' = {n \in Names : files'[n] # Absent}
  /\ flushed' = Names

\* An operator makes the directory again.
MakeDirectory ==
  /\ directory = "lost"
  /\ directory' = "created"
  /\ UNCHANGED <<files, flushed, linked>>

===============================================================================
