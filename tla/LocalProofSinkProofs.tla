------------------------- MODULE LocalProofSinkProofs -------------------------
(***************************************************************************)
(* Proofs about LocalProofSink, for any number of calls and files.         *)
(*                                                                         *)
(* The properties follow from one invariant per call, Owns: from the       *)
(* exclusive creation of its file on, no other call that is running or     *)
(* acknowledged has that file, and what the call has flushed is durable.   *)
(***************************************************************************)
EXTENDS LocalProofSink, TLAPS

Flushed == {"directory", "parent", "answer", "acknowledged"}

Written == {"flush"} \cup Flushed

Created == {"write"} \cup Written

Owns(c) ==
  /\ pc[c] \in Created =>
       /\ files[NameOf[c]] # Absent
       /\ \A d \in Calls \ {c} :
            NameOf[d] = NameOf[c] => pc[d] \notin Created
  /\ pc[c] = "write" => files[NameOf[c]] = Partial
  /\ pc[c] \in Written => files[NameOf[c]] = c
  /\ pc[c] \in Flushed => NameOf[c] \in flushed
  /\ pc[c] \in {"parent", "answer", "acknowledged"} => NameOf[c] \in linked
  /\ pc[c] \in {"answer", "acknowledged"} => directory = "durable"

Inv == TypeOK /\ \A c \in Calls : Owns(c)

-----------------------------------------------------------------------------
\* A power loss keeps what is durable, and only shortens the rest.
LEMMA PowerKeeps ==
  ASSUME TypeOK, PowerFails
  PROVE  /\ files' \in [Names -> Calls \cup {Absent, Partial}]
         /\ flushed' = Names
         /\ linked' \subseteq Names
         /\ directory' \in {"durable", "lost"}
         /\ directory = "durable" =>
              /\ directory' = "durable"
              /\ \A n \in linked \cap flushed : files'[n] = files[n]
         /\ \A n \in Names : files'[n] # Absent => n \in linked'
<1>1. CASE LoseDirectory
  BY <1>1 DEF LoseDirectory, PowerFails, TypeOK
<1>2. CASE LoseFiles
  <2>1. PICK gone \in SUBSET (Names \ linked), torn \in SUBSET (Names \ flushed) :
          files' = [n \in Names |->
                     IF n \in gone THEN Absent
                     ELSE IF n \in torn /\ files[n] # Absent THEN Partial
                     ELSE files[n]]
    BY <1>2 DEF LoseFiles
  <2>2. files' \in [Names -> Calls \cup {Absent, Partial}]
    BY <2>1 DEF TypeOK
  <2>3. \A n \in linked \cap flushed : files'[n] = files[n]
    BY <2>1 DEF TypeOK
  <2> QED BY <1>2, <2>2, <2>3 DEF LoseFiles, PowerFails
<1> QED BY <1>1, <1>2 DEF PowerFails

\* The variables keep their types.
LEMMA TypeStep == ASSUME TypeOK, [Next]_vars PROVE TypeOK'
<1> USE SinkAssumption
<1>1. CASE \E c \in Calls : Retain(c)
  <2> PICK c \in Calls : Retain(c)
    BY <1>1
  <2> NameOf[c] \in Names
    OBVIOUS
  <2>1. CASE Begin(c)
    BY <2>1 DEF Begin, Goto, fileVars, TypeOK, Running
  <2>2. CASE Create(c)
    BY <2>2 DEF Create, CreateExclusive, Goto, TypeOK, Running
  <2>3. CASE Write(c)
    BY <2>3 DEF Write, Fill, Goto, TypeOK, Running
  <2>4. CASE FlushRecord(c)
    BY <2>4 DEF FlushRecord, Flush, Goto, TypeOK, Running
  <2>5. CASE FlushRoot(c)
    BY <2>5 DEF FlushRoot, FlushDirectory, Goto, TypeOK, Running
  <2>6. CASE FlushRootParent(c)
    BY <2>6 DEF FlushRootParent, FlushParent, Goto, TypeOK, Running
  <2>7. CASE Acknowledge(c) \/ Reject(c)
    BY <2>7 DEF Acknowledge, Reject, Goto, fileVars, TypeOK, Running
  <2> QED
    BY <2>1, <2>2, <2>3, <2>4, <2>5, <2>6, <2>7 DEF Retain
<1>2. CASE Crash
  BY <1>2 DEF Crash, StopAll, fileVars, TypeOK
<1>3. CASE PowerLoss
  <2>1. pc' \in [Calls -> Running \cup {"idle", "acknowledged", "rejected", "stopped"}]
    BY <1>3 DEF PowerLoss, StopAll, TypeOK
  <2> QED BY <1>3, <2>1, PowerKeeps DEF PowerLoss, TypeOK
<1>4. CASE Repair
  BY <1>4 DEF Repair, MakeDirectory, TypeOK
<1>5. CASE UNCHANGED vars
  BY <1>5 DEF vars, fileVars, TypeOK
<1> QED BY <1>1, <1>2, <1>3, <1>4, <1>5 DEF Next

-----------------------------------------------------------------------------
\* Calls own their files after every step.
LEMMA OwnsStep ==
  ASSUME Inv, [Next]_vars, NEW e \in Calls
  PROVE  Owns(e)'
<1> USE SinkAssumption
<1>0. TypeOK /\ TypeOK' /\ \A c \in Calls : Owns(c)
  BY TypeStep DEF Inv
<1>n. \A c \in Calls : NameOf[c] \in Names
  OBVIOUS
<1>1. CASE \E c \in Calls : Retain(c)
  <2> PICK c \in Calls : Retain(c)
    BY <1>1
  <2>0. Owns(c) /\ Owns(e)
    BY <1>0
  <2>1. CASE Begin(c)
    BY <2>0, <2>1, <1>0 DEF Begin, At, Goto, fileVars, TypeOK, Owns, Created, Written, Flushed
  <2>2. CASE Create(c)
    <3>1. \A d \in Calls : NameOf[d] = NameOf[c] => pc[d] \notin Created
      BY <2>2, <1>0 DEF Create, CreateExclusive, Owns
    <3> QED
      BY <2>0, <2>2, <3>1, <1>0, <1>n
      DEF Create, CreateExclusive, At, Goto, TypeOK, Owns, Created, Written,
          Flushed, Absent, Partial
  <2>3. CASE Write(c)
    BY <2>0, <2>3, <1>0, <1>n
    DEF Write, Fill, At, Goto, TypeOK, Owns, Created, Written, Flushed
  <2>4. CASE FlushRecord(c)
    BY <2>0, <2>4, <1>0, <1>n
    DEF FlushRecord, Flush, At, Goto, TypeOK, Owns, Created, Written, Flushed
  <2>5. CASE FlushRoot(c)
    BY <2>0, <2>5, <1>0, <1>n
    DEF FlushRoot, FlushDirectory, At, Goto, TypeOK, Owns, Created, Written, Flushed
  <2>6. CASE FlushRootParent(c)
    BY <2>0, <2>6, <1>0, <1>n
    DEF FlushRootParent, FlushParent, At, Goto, TypeOK, Owns, Created, Written, Flushed
  <2>7. CASE Acknowledge(c)
    BY <2>0, <2>7, <1>0, <1>n
    DEF Acknowledge, At, Goto, fileVars, TypeOK, Owns, Created, Written, Flushed
  <2>8. CASE Reject(c)
    BY <2>0, <2>8, <1>0, <1>n
    DEF Reject, Goto, fileVars, TypeOK, Owns, Created, Written, Flushed
  <2> QED
    BY <2>1, <2>2, <2>3, <2>4, <2>5, <2>6, <2>7, <2>8 DEF Retain
<1>2. CASE Crash
  <2>1. \A d \in Calls : pc'[d] \in Created => pc'[d] = pc[d]
    BY <1>2, <1>0 DEF Crash, StopAll, Created, Written, Flushed, TypeOK
  <2> QED
    BY <1>2, <1>0, <2>1 DEF Crash, fileVars, Owns, Created, Written, Flushed
<1>3. CASE PowerLoss
  <2>1. \A d \in Calls : pc'[d] \in Created =>
                           pc[d] = "acknowledged" /\ pc'[d] = "acknowledged"
    BY <1>3, <1>0 DEF PowerLoss, StopAll, Running, Created, Written, Flushed, TypeOK
  <2>2. CASE pc[e] = "acknowledged"
    <3>1. /\ files[NameOf[e]] = e /\ files[NameOf[e]] # Absent
          /\ NameOf[e] \in linked \cap flushed /\ directory = "durable"
          /\ \A d \in Calls \ {e} : NameOf[d] = NameOf[e] => pc[d] \notin Created
      BY <1>0, <2>2 DEF Owns, Created, Written, Flushed
    <3>2. PowerFails
      BY <1>3 DEF PowerLoss
    <3>3. /\ files'[NameOf[e]] = e /\ directory' = "durable"
          /\ NameOf[e] \in linked' /\ NameOf[e] \in flushed'
      BY <1>0, <1>n, <3>1, <3>2, PowerKeeps
    <3>4. \A d \in Calls \ {e} : NameOf[d] = NameOf[e] => pc'[d] \notin Created
      BY <2>1, <3>1 DEF Created, Written, Flushed
    <3>5. pc'[e] = "acknowledged"
      BY <1>0, <1>3, <2>2 DEF PowerLoss, StopAll, Running, TypeOK
    <3> QED BY <3>1, <3>3, <3>4, <3>5 DEF Owns
  <2>3. CASE pc[e] # "acknowledged"
    BY <2>1, <2>3 DEF Owns, Created, Written, Flushed
  <2> QED BY <2>2, <2>3
<1>4. CASE Repair
  BY <1>4, <1>0 DEF Repair, MakeDirectory, Owns, Created, Written, Flushed
<1>5. CASE UNCHANGED vars
  BY <1>5, <1>0 DEF vars, fileVars, Owns
<1> QED BY <1>1, <1>2, <1>3, <1>4, <1>5 DEF Next

\* The invariant holds in every state.
THEOREM Invariance == Spec => []Inv
<1>1. Init => Inv
  BY SinkAssumption
  DEF Init, FilesInit, Inv, TypeOK, Owns, Running, Created, Written, Flushed
<1>2. Inv /\ [Next]_vars => Inv'
  BY TypeStep, OwnsStep DEF Inv
<1> QED BY <1>1, <1>2, PTL DEF Spec

-----------------------------------------------------------------------------
\* The sink's variables keep their types (retain).
THEOREM TypeCorrect == Spec => []TypeOK
<1>1. Inv => TypeOK
  BY DEF Inv
<1> QED BY <1>1, Invariance, PTL

\* An acknowledged record is there after any crash or power loss (retain).
THEOREM AcknowledgedSurvive == Spec => []AcknowledgedRecordsSurvive
<1>1. Inv => AcknowledgedRecordsSurvive
  BY DEF Inv, Owns, AcknowledgedRecordsSurvive, At, Written, Flushed
<1> QED BY <1>1, Invariance, PTL

\* A complete record is never replaced (exclusive creation in retain).
THEOREM NotReplaced == Spec => RecordsAreNotReplaced
<1> USE SinkAssumption
<1>1. ASSUME Inv, [Next]_vars, NEW n \in Names, files[n] \in Calls
      PROVE  files'[n] = files[n] \/ PowerFails
  <2>0. TypeOK /\ files[n] # Absent
    BY <1>1 DEF Inv
  <2>1. CASE \E c \in Calls : Retain(c)
    <3> PICK c \in Calls : Retain(c)
      BY <2>1
    <3>1. CASE Create(c)
      BY <2>0, <3>1 DEF Create, CreateExclusive, TypeOK
    <3>2. CASE Write(c)
      <4>1. CASE NameOf[c] = n
        <5>1. files[n] = Partial
          BY <1>1, <3>2, <4>1 DEF Inv, Owns, Write, At
        <5> QED BY <1>1, <5>1
      <4> QED BY <2>0, <3>2, <4>1 DEF Write, Fill, TypeOK
    <3> QED
      BY <2>0, <3>1, <3>2
      DEF Retain, Begin, FlushRecord, Flush, FlushRoot, FlushDirectory,
          FlushRootParent, FlushParent, Acknowledge, Reject, fileVars
  <2> QED
    BY <1>1, <2>1 DEF Next, Crash, PowerLoss, Repair, MakeDirectory, vars, fileVars
<1>2. Inv /\ [Next]_vars =>
        [\A n \in Names :
           files[n] \in Calls => files'[n] = files[n] \/ PowerFails]_vars
  BY <1>1
<1> QED BY <1>2, Invariance, PTL DEF Spec, RecordsAreNotReplaced

-----------------------------------------------------------------------------
\* What the gate sees of a step: an acknowledgment, a rejection, or nothing.
LEMMA AnswerChanges ==
  ASSUME TypeOK, NEW c \in Calls, NEW place, Goto(c, place)
  PROVE  Answer' = [Answer EXCEPT ![c] =
                      IF place \in {"acknowledged", "rejected"} THEN place
                                                               ELSE "none"]
BY DEF Answer, Goto, TypeOK

LEMMA KeptUnchanged == ASSUME UNCHANGED files PROVE UNCHANGED Kept
BY DEF Kept

\* The sink implements what the gate relies on (retainAuthorization,
\* retainReceipt).
THEOREM SinkImplementsStore == Spec => ImplementsRecordStore
<1> USE SinkAssumption
<1>1. Init => Store!Init
  BY DEF Init, FilesInit, Store!Init, Kept, Answer
<1>2. ASSUME Inv, [Next]_vars PROVE [Store!Next]_(Store!vars)
  <2>0. TypeOK /\ \A c \in Calls : Owns(c)
    BY <1>2 DEF Inv
  <2>1. CASE \E c \in Calls : Retain(c)
    <3> PICK c \in Calls : Retain(c)
      BY <2>1
    <3>0. pc[c] \in Running => Answer[c] = "none"
      BY DEF Answer, Running
    <3>1. CASE Begin(c) /\ directory = "lost"
      <4>1. Store!Reject(c)
        BY <2>0, <3>1, AnswerChanges, KeptUnchanged
        DEF Begin, At, fileVars, Store!Reject, Store!Unanswered, Answer
      <4> QED BY <4>1 DEF Store!Next
    <3>2. CASE Acknowledge(c)
      <4>1. c \in Kept
        BY <2>0, <3>2 DEF Acknowledge, At, Owns, Kept, Written, Flushed
      <4>2. Store!Acknowledge(c)
        BY <2>0, <3>0, <3>2, <4>1, AnswerChanges, KeptUnchanged
        DEF Acknowledge, At, fileVars, Running, Store!Acknowledge, Store!Unanswered
      <4> QED BY <4>2 DEF Store!Next
    <3>3. CASE Reject(c)
      <4>1. Store!Reject(c)
        BY <2>0, <3>0, <3>3, AnswerChanges, KeptUnchanged
        DEF Reject, fileVars, Store!Reject, Store!Unanswered
      <4> QED BY <4>1 DEF Store!Next
    <3>4. CASE Write(c)
      <4>1. Kept' = Kept \cup {c}
        \* the file held no other record
        <5>1. files[NameOf[c]] = Partial /\ files' = [files EXCEPT ![NameOf[c]] = c]
          BY <2>0, <3>4 DEF Write, Fill, At, Owns
        <5>2. \A d \in Calls : d # c => (files'[NameOf[d]] = d <=> files[NameOf[d]] = d)
          BY <2>0, <5>1 DEF TypeOK
        <5> QED BY <2>0, <5>1, <5>2 DEF Kept, TypeOK
      <4>2. UNCHANGED Answer
        BY <2>0, <3>4 DEF Write, At, Goto, Answer, TypeOK
      <4>3. Store!Keep(c)
        BY <3>0, <3>4, <4>1, <4>2
        DEF Write, At, Running, Store!Keep, Store!Unanswered
      <4> QED BY <4>3 DEF Store!Next
    <3>5. CASE Create(c)
      <4>1. UNCHANGED Kept
        BY <2>0, <3>5 DEF Create, CreateExclusive, Kept, TypeOK
      <4>2. UNCHANGED Answer
        BY <2>0, <3>5 DEF Create, At, Goto, Answer, TypeOK
      <4> QED BY <4>1, <4>2 DEF Store!vars
    <3>6. CASE \/ Begin(c) /\ directory # "lost"
               \/ FlushRecord(c) \/ FlushRoot(c) \/ FlushRootParent(c)
      <4>1. UNCHANGED Kept
        BY <3>6, KeptUnchanged
        DEF Begin, FlushRecord, Flush, FlushRoot, FlushDirectory,
            FlushRootParent, FlushParent, fileVars
      <4>2. UNCHANGED Answer
        BY <2>0, <3>6
        DEF Begin, FlushRecord, FlushRoot, FlushRootParent, At, Goto, Answer, TypeOK
      <4> QED BY <4>1, <4>2 DEF Store!vars
    <3> QED
      BY <3>1, <3>2, <3>3, <3>4, <3>5, <3>6 DEF Retain
  <2>2. CASE Crash \/ Repair \/ UNCHANGED vars
    <3>1. UNCHANGED Answer
      BY <2>0, <2>2
      DEF Crash, StopAll, Repair, vars, Running, Answer, TypeOK
    <3>2. UNCHANGED Kept
      <4>1. CASE Repair
        BY <4>1, KeptUnchanged DEF Repair, MakeDirectory
      <4> QED BY <2>2, <4>1, KeptUnchanged DEF Crash, vars, fileVars
    <3> QED BY <3>1, <3>2 DEF Store!vars
  <2>3. CASE PowerLoss
    <3>1. UNCHANGED Answer
      BY <2>0, <2>3 DEF PowerLoss, StopAll, Running, Answer, TypeOK
    <3>2. Kept' \subseteq Kept
      <4>1. \A n \in Names : files'[n] \in {files[n], Absent, Partial}
        BY <2>0, <2>3 DEF PowerLoss, PowerFails, LoseDirectory, LoseFiles, TypeOK
      <4> QED BY <4>1 DEF Kept
    <3>3. (Kept \ Kept') \cap Store!Acknowledged = {}
      <4>1. \A c \in Calls : Answer[c] = "acknowledged" => c \in Kept'
        BY <1>2, <2>3, OwnsStep
        DEF Answer, PowerLoss, StopAll, Running, Owns, Kept, TypeOK, Inv,
            Written, Flushed, Next
      <4> QED BY <4>1 DEF Store!Acknowledged
    <3>4. Store!Lose(Kept \ Kept')
      BY <3>1, <3>2, <3>3 DEF Store!Lose
    <3> QED BY <3>4 DEF Store!Next
  <2> QED BY <1>2, <2>1, <2>2, <2>3 DEF Next
<1> QED BY <1>1, <1>2, Invariance, PTL DEF Spec, ImplementsRecordStore, Store!Spec

===============================================================================
