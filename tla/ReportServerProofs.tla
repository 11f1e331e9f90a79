-------------------------- MODULE ReportServerProofs --------------------------
(***************************************************************************)
(* Proofs about ReportServer, for any calls, reports and capacity.         *)
(***************************************************************************)
EXTENDS ReportServer, FiniteSetTheorems, TLAPS

\* The handler of a call has created the report.
Holds == {"write", "sync", "done"}

\* What the stage of a call, its effect and what it is told have to do with
\* each other.
Progress(c) ==
  /\ pc[c] \in {"idle", "resolve"} \cup BeforeDispatch =>
       effect[c] = "none" /\ result[c] = "none"
  /\ pc[c] = "handler" => result[c] = "none"
  /\ result[c] \in {"refused", "capacity", "not_started"} => effect[c] = "none"
  /\ result[c] = "reported_success" => effect[c] = "done"

\* Who has created a report has it alone.
Content(c) ==
  /\ effect[c] \in Holds =>
       \A d \in Calls \ {c} :
         ReportOf[d] = ReportOf[c] => effect[d] \notin Holds
  /\ effect[c] = "write" => report[ReportOf[c]] = Partial
  /\ effect[c] \in {"sync", "done"} => report[ReportOf[c]] = c
  /\ effect[c] \in {"none", "open"} => report[ReportOf[c]] # c

Inv == TypeOK /\ AdmissionBounds /\ \A c \in Calls : Progress(c) /\ Content(c)

-----------------------------------------------------------------------------
LEMMA InitInv == Init => Inv
<1> SUFFICES ASSUME Init PROVE Inv
  OBVIOUS
<1> USE ServerAssumption
<1>1. TypeOK
  BY DEF Init, TypeOK, Results
<1>2. InGate = {}
  BY DEF Init, InGate, Stages
<1>3. AdmissionBounds
  BY <1>2, FS_EmptySet DEF Init, AdmissionBounds
<1>4. \A c \in Calls : Progress(c) /\ Content(c)
  BY DEF Init, Progress, Content, Holds
<1> QED BY <1>1, <1>3, <1>4 DEF Inv

-----------------------------------------------------------------------------
\* Steps of the handler keep the types.
LEMMA HandlerTypes ==
  ASSUME TypeOK, NEW c \in Calls, NEW from, NEW to, NEW content,
         HandlerGoes(c, from, to, content),
         to \in {"write", "sync", "done", "failed"},
         content \in Calls \cup {Absent, Partial}
  PROVE  TypeOK'
BY ServerAssumption DEF TypeOK, HandlerGoes, Stages, Results

LEMMA TypeStep ==
  ASSUME TypeOK, AdmissionBounds, [Next]_vars
  PROVE  TypeOK'
<1> USE ServerAssumption
<1>1. ASSUME NEW c \in Calls, Bind(c) PROVE TypeOK'
  BY <1>1 DEF Bind, Refuse, Receive, Admit, TurnAway, Goto, Tell, TypeOK, Stages, Results
<1>2. ASSUME NEW c \in Calls, Execute(c) PROVE TypeOK'
  <2>1. CASE Answer(c)
    <3>1. inFlight # 0
      <4>1. c \in InGate /\ IsFiniteSet(InGate)
        BY <2>1, FS_Subset DEF Answer, At, InGate, Stages
      <4> QED BY <4>1, FS_EmptySet DEF AdmissionBounds
    <3> QED BY <2>1, <3>1 DEF Answer, Goto, TypeOK
  <2> QED
    BY <1>2, <2>1
    DEF Execute, Stop, EnterPrecondition, FindAbsent, Dispatch, Complete,
        Unresolved, Goto, Tell, TypeOK, Stages, Results
<1>3. ASSUME NEW c \in Calls, Handle(c) PROVE TypeOK'
  <2>1. report[ReportOf[c]] \in Calls \cup {Absent, Partial}
    BY DEF TypeOK
  <2> QED
    BY <1>3, <2>1, HandlerTypes
    DEF Handle, OpenReport, WriteReport, SyncReport, HandlerFails
<1>4. CASE ChangeDefinition
  BY <1>4 DEF ChangeDefinition, TypeOK
<1>5. CASE Restart
  BY <1>5 DEF Restart, TypeOK
<1>6. CASE UNCHANGED vars
  BY <1>6 DEF vars, TypeOK
<1> QED BY <1>1, <1>2, <1>3, <1>4, <1>5, <1>6 DEF Next

-----------------------------------------------------------------------------
\* The counter follows the calls inside execute().
LEMMA AdmissionStep ==
  ASSUME TypeOK, AdmissionBounds, [Next]_vars
  PROVE  AdmissionBounds'
<1> USE ServerAssumption
<1>0. IsFiniteSet(InGate)
  BY FS_Subset DEF InGate
<1>1. ASSUME NEW c \in Calls, Admit(c) PROVE AdmissionBounds'
  <2>1. InGate' = InGate \cup {c} /\ c \notin InGate
    BY <1>1 DEF Admit, At, Goto, InGate, Stages, TypeOK
  <2>2. Cardinality(InGate \cup {c}) = Cardinality(InGate) + 1
    BY <1>0, <2>1, FS_AddElement
  <2>3. Cardinality(InGate') = Cardinality(InGate) + 1
    BY <2>1, <2>2
  <2>4. inFlight' = inFlight + 1 /\ inFlight < Capacity
    BY <1>1 DEF Admit
  <2>5. inFlight' = Cardinality(InGate')
    BY <2>3, <2>4 DEF AdmissionBounds
  <2>6. inFlight' <= Capacity
    BY <2>4 DEF TypeOK
  <2> QED BY <2>5, <2>6 DEF AdmissionBounds
<1>2. ASSUME NEW c \in Calls, Answer(c) PROVE AdmissionBounds'
  <2>1. InGate' = InGate \ {c} /\ c \in InGate
    BY <1>2 DEF Answer, At, Goto, InGate, Stages, TypeOK
  <2>2. Cardinality(InGate \ {c}) = Cardinality(InGate) - 1
    BY <1>0, <2>1, FS_RemoveElement
  <2>3. Cardinality(InGate') = Cardinality(InGate) - 1
    BY <2>1, <2>2
  <2>4. inFlight' = inFlight - 1
    BY <1>2 DEF Answer
  <2>5. inFlight' = Cardinality(InGate')
    BY <2>3, <2>4 DEF AdmissionBounds
  <2>6. inFlight' <= Capacity
    BY <2>4 DEF AdmissionBounds, TypeOK
  <2> QED BY <2>5, <2>6 DEF AdmissionBounds
<1>3. CASE Restart
  <2>1. InGate' = {}
    BY <1>3 DEF Restart, InGate, Stages, TypeOK
  <2> QED BY <1>3, <2>1, FS_EmptySet DEF Restart, AdmissionBounds
<1>4. ASSUME NEW c \in Calls,
             \/ Refuse(c) \/ Receive(c) \/ TurnAway(c) \/ Handle(c)
             \/ Stop(c) \/ EnterPrecondition(c) \/ FindAbsent(c)
             \/ Dispatch(c) \/ Complete(c) \/ Unresolved(c)
      PROVE  UNCHANGED <<InGate, inFlight>>
  BY <1>4
  DEF Refuse, Receive, TurnAway, Handle, OpenReport, WriteReport, SyncReport,
      HandlerFails, HandlerGoes, Stop, BeforeDispatch, EnterPrecondition,
      FindAbsent, Dispatch, Complete, Unresolved, At, Goto, InGate, Stages, TypeOK
<1>5. CASE ChangeDefinition \/ UNCHANGED vars
  BY <1>5 DEF ChangeDefinition, vars, InGate, AdmissionBounds
<1>6. ASSUME UNCHANGED <<InGate, inFlight>> PROVE AdmissionBounds'
  BY <1>6 DEF AdmissionBounds
<1> QED BY <1>1, <1>2, <1>3, <1>4, <1>5, <1>6 DEF Next, Bind, Execute

-----------------------------------------------------------------------------
LEMMA ProgressStep ==
  ASSUME TypeOK, NEW e \in Calls, Progress(e), [Next]_vars
  PROVE  Progress(e)'
<1>1. ASSUME NEW c \in Calls, Bind(c) PROVE Progress(e)'
  BY <1>1
  DEF Bind, Refuse, Receive, Admit, TurnAway, At, Goto, Tell, TypeOK, Progress,
      BeforeDispatch
<1>2. ASSUME NEW c \in Calls, Execute(c) PROVE Progress(e)'
  <2>1. CASE Stop(c)
    BY <2>1 DEF Stop, Goto, Tell, TypeOK, Progress, BeforeDispatch
  <2>2. CASE EnterPrecondition(c) \/ FindAbsent(c)
    BY <2>2 DEF EnterPrecondition, FindAbsent, At, Goto, TypeOK, Progress, BeforeDispatch
  <2>3. CASE Dispatch(c)
    BY <2>3 DEF Dispatch, At, Goto, TypeOK, Progress, BeforeDispatch
  <2>4. CASE Complete(c) \/ Unresolved(c) \/ Answer(c)
    BY <2>4
    DEF Complete, Unresolved, Answer, At, Goto, Tell, TypeOK, Progress, BeforeDispatch
  <2> QED BY <1>2, <2>1, <2>2, <2>3, <2>4 DEF Execute
<1>3. ASSUME NEW c \in Calls, Handle(c) PROVE Progress(e)'
  BY <1>3
  DEF Handle, OpenReport, WriteReport, SyncReport, HandlerFails, HandlerGoes,
      TypeOK, Progress
<1>4. CASE ChangeDefinition \/ UNCHANGED vars
  BY <1>4 DEF ChangeDefinition, vars, Progress
<1>5. CASE Restart
  BY <1>5 DEF Restart, TypeOK, Progress, Stages, BeforeDispatch
<1> QED BY <1>1, <1>2, <1>3, <1>4, <1>5 DEF Next

\* Only the handler that has created a report writes it.
LEMMA ContentStep ==
  ASSUME TypeOK, \A c \in Calls : Progress(c) /\ Content(c), [Next]_vars,
         NEW e \in Calls
  PROVE  Content(e)'
<1> USE ServerAssumption
<1>0. Content(e) /\ \A c \in Calls : ReportOf[c] \in Reports
  OBVIOUS
<1>1. ASSUME NEW c \in Calls, Bind(c) PROVE UNCHANGED <<effect, report>>
  BY <1>1 DEF Bind, Refuse, Receive, Admit, TurnAway
<1>2. ASSUME NEW c \in Calls, Execute(c) PROVE Content(e)'
  <2>1. CASE Dispatch(c)
    <3>1. effect[c] = "none" /\ Content(c)
      BY <2>1 DEF Dispatch, At, Progress, BeforeDispatch
    <3> QED BY <1>0, <2>1, <3>1 DEF Dispatch, TypeOK, Content, Holds
  <2>2. CASE UNCHANGED <<effect, report>>
    BY <1>0, <2>2 DEF Content
  <2> QED
    BY <1>2, <2>1, <2>2
    DEF Execute, Stop, EnterPrecondition, FindAbsent, Complete, Unresolved, Answer
<1>3. ASSUME NEW c \in Calls, Handle(c) PROVE Content(e)'
  <2>0. Content(c)
    OBVIOUS
  <2>1. CASE OpenReport(c)
    <3>1. report[ReportOf[c]] = Absent
      BY <2>1 DEF OpenReport
    <3>2. \A d \in Calls : ReportOf[d] = ReportOf[c] => effect[d] \notin Holds
      BY <3>1 DEF Content, Holds, Absent, Partial
    <3> QED
      BY <1>0, <2>0, <2>1, <3>1, <3>2
      DEF OpenReport, HandlerGoes, TypeOK, Content, Holds
  <2>2. CASE WriteReport(c)
    BY <1>0, <2>0, <2>2 DEF WriteReport, HandlerGoes, TypeOK, Content, Holds
  <2>3. CASE SyncReport(c)
    BY <1>0, <2>0, <2>3 DEF SyncReport, HandlerGoes, TypeOK, Content, Holds
  <2>4. CASE HandlerFails(c)
    BY <1>0, <2>0, <2>4 DEF HandlerFails, HandlerGoes, TypeOK, Content, Holds
  <2> QED BY <1>3, <2>1, <2>2, <2>3, <2>4 DEF Handle
<1>4. CASE ChangeDefinition \/ UNCHANGED vars
  BY <1>0, <1>4 DEF ChangeDefinition, vars, Content
<1>5. CASE Restart
  BY <1>0, <1>5 DEF Restart, TypeOK, Content, Holds
<1> QED
  BY <1>0, <1>1, <1>2, <1>3, <1>4, <1>5 DEF Next, Content

THEOREM Invariance == Spec => []Inv
<1>1. Inv /\ [Next]_vars => Inv'
  BY TypeStep, AdmissionStep, ProgressStep, ContentStep DEF Inv
<1> QED BY <1>1, InitInv, PTL DEF Spec

-----------------------------------------------------------------------------
\* The server's variables keep their types.
THEOREM TypeCorrect == Spec => []TypeOK
<1>1. Inv => TypeOK
  BY DEF Inv
<1> QED BY <1>1, Invariance, PTL

\* Every admission slot is given back once, and there are never more calls
\* inside execute() than the capacity (withAdmissionLimit).
THEOREM AdmissionBounded == Spec => []AdmissionBounds
<1>1. Inv => AdmissionBounds
  BY DEF Inv
<1> QED BY <1>1, Invariance, PTL

\* A call that reports success has its report (the handler's exclusive
\* creation).
THEOREM SuccessExclusive == Spec => []SuccessIsExclusive
<1>1. Inv => SuccessIsExclusive
  BY DEF Inv, Progress, Content, SuccessIsExclusive
<1> QED BY <1>1, Invariance, PTL

\* A call that is told it has not been started never has an effect.
THEOREM NotStartedNoEffect == Spec => []NotStartedHasNoEffect
<1>1. Inv => NotStartedHasNoEffect
  BY DEF Inv, Progress, Content, NotStartedHasNoEffect
<1> QED BY <1>1, Invariance, PTL

===============================================================================
