------------------------- MODULE ExecutionGateProofs -------------------------
(***************************************************************************)
(* Proofs about ExecutionGate for every set of attempts, every evidence,   *)
(* every policy and every number of key changes.                           *)
(*                                                                         *)
(* TypeOK is inductive.  The safety properties follow from Inv, which is   *)
(* inductive relative to TypeOK and has four conjuncts per attempt, each   *)
(* preserved by a lemma with one step per action.                          *)
(*                                                                         *)
(* The last part proves that the gate implements AuthorityBoundary.        *)
(***************************************************************************)
EXTENDS ExecutionGateBoundary, TLAPS

-----------------------------------------------------------------------------
(***************************************************************************)
(* Type correctness                                                        *)
(***************************************************************************)

\* The types of the variables that EnterStage and Finish assign.
SettlingType ==
  /\ pc \in [Attempts -> Active \cup {"ready", "done", "lost"}]
  /\ call \in [Attempts -> {"none", "pending", "answered", "rejected"}]
  /\ receipt \in [Attempts -> Receipts \cup {NoReceipt}]
  /\ writing \in [Attempts -> SUBSET {"authorization", "receipt"}]

\* Finish builds a receipt whatever the outcome and the reason.
LEMMA FinishTypes ==
  ASSUME TypeOK, NEW a \in Attempts, NEW outcome \in Outcomes, NEW why \in Reasons,
         retained'[a] \in BOOLEAN, decision'[a] \in Decisions, started'[a] \in BOOLEAN,
         Finish(a, outcome, why)
  PROVE  SettlingType'
<1>1. [authorized |-> retained'[a], decision |-> decision'[a],
       eligible |-> started'[a], outcome |-> outcome, reason |-> why] \in Receipts
  BY DEF Receipts
<1>2. receipt' \in [Attempts -> Receipts \cup {NoReceipt}]
  BY <1>1 DEF TypeOK, Finish
<1>3. QED
  BY <1>2 DEF TypeOK, Finish, SettlingType, Active, Stages

\* The same for an error before dispatch.
LEMMA StopTypes ==
  ASSUME TypeOK, NEW a \in Attempts, NEW why \in Reasons,
         retained'[a] \in BOOLEAN, decision'[a] \in Decisions, started'[a] \in BOOLEAN,
         Stop(a, why)
  PROVE  SettlingType'
BY FinishTypes DEF Stop, Outcomes, Reasons

\* The reasons a failing stage can give.
EarlyReasons == Reasons \ {"CANCELLED_AFTER_DISPATCH"}

\* Every stage before dispatch has a reason for its failure.
LEMMA StageReasons ==
  \A stage \in BeforeDispatch : StageReason(stage) \in EarlyReasons
BY DEF BeforeDispatch, Stages, StageReason, EarlyReasons, Reasons

\* Entering a stage, or stopping because the attempt is aborted.
LEMMA EnterStageTypes ==
  ASSUME TypeOK, NEW a \in Attempts, NEW stage \in BeforeDispatch,
         retained'[a] \in BOOLEAN, decision'[a] \in Decisions, started'[a] \in BOOLEAN,
         EnterStage(a, stage)
  PROVE  SettlingType'
<1>1. CASE aborted[a]
  BY <1>1, StageReasons, StopTypes DEF EnterStage, EarlyReasons
<1>2. CASE ~aborted[a]
  BY <1>2 DEF EnterStage, TypeOK, SettlingType, Active, BeforeDispatch
<1>3. QED
  BY <1>1, <1>2

\* Every step preserves the types.
LEMMA TypeStep == TypeOK /\ [Next]_vars => TypeOK'
<1> SUFFICES ASSUME TypeOK, [Next]_vars PROVE TypeOK'
  OBVIOUS
<1>1. ASSUME NEW a \in Attempts, NEW wellFormed \in BOOLEAN,
             Begin(a, wellFormed)
      PROVE  TypeOK'
  <2>1. SettlingType'
    BY <1>1, EnterStageTypes, StopTypes DEF Begin, LocalsKept, TypeOK,
      BeforeDispatch, Stages, Reasons
  <2>2. QED
    BY <1>1, <2>1 DEF Begin, LocalsKept, Elsewhere, keyVars, TypeOK,
      SettlingType
<1>2. ASSUME NEW a \in Attempts, StageFails(a)
      PROVE  TypeOK'
  <2>1. SettlingType'
    BY <1>2, StopTypes, StageReasons DEF EarlyReasons, StageFails, LocalsKept, TypeOK
  <2>2. QED
    BY <1>2, <2>1 DEF StageFails, LocalsKept, Elsewhere, keyVars, TypeOK,
      SettlingType
<1>3. ASSUME NEW a \in Attempts, StageInterrupted(a)
      PROVE  TypeOK'
  <2>1. SettlingType'
    BY <1>3, StopTypes, StageReasons DEF EarlyReasons, StageInterrupted, LocalsKept, TypeOK
  <2>2. QED
    BY <1>3, <2>1 DEF StageInterrupted, LocalsKept, Elsewhere, keyVars,
      TypeOK, SettlingType
<1>4. ASSUME NEW a \in Attempts, EvaluationUnavailable(a)
      PROVE  TypeOK'
  <2>1. SettlingType'
    BY <1>4, StopTypes DEF EvaluationUnavailable, LocalsKept, TypeOK, Reasons
  <2>2. QED
    BY <1>4, <2>1 DEF EvaluationUnavailable, LocalsKept, Elsewhere, keyVars,
      TypeOK, SettlingType
<1>5. ASSUME NEW a \in Attempts, Deny(a)
      PROVE  TypeOK'
  <2>1. SettlingType'
    BY <1>5, StopTypes DEF Deny, TypeOK, Reasons, Decisions
  <2>2. QED
    BY <1>5, <2>1 DEF Deny, Elsewhere, keyVars, TypeOK, SettlingType,
      Decisions
<1>6. ASSUME NEW a \in Attempts, SigningUnavailable(a)
      PROVE  TypeOK'
  <2>1. SettlingType'
    BY <1>6, StopTypes DEF SigningUnavailable, TypeOK, Reasons, Decisions
  <2>2. QED
    BY <1>6, <2>1 DEF SigningUnavailable, Elsewhere, keyVars, TypeOK,
      SettlingType, Decisions
<1>7. ASSUME NEW a \in Attempts, Authorize(a)
      PROVE  TypeOK'
  <2>1. SettlingType'
    BY <1>7, EnterStageTypes DEF Authorize, TypeOK, BeforeDispatch, Stages,
      Decisions
  <2>2. epoch \in Nat
    BY GateAssumption DEF TypeOK
  <2>3. session' \in [Attempts -> Nat \cup {NoSession}]
    BY <1>7, <2>2 DEF Authorize, TypeOK
  <2>4. QED
    BY <1>7, <2>1, <2>3 DEF Authorize, Elsewhere, keyVars, TypeOK,
      SettlingType, Decisions
<1>8. ASSUME NEW a \in Attempts, AuthorizationRetained(a)
      PROVE  TypeOK'
  <2>1. SettlingType'
    BY <1>8, EnterStageTypes DEF AuthorizationRetained, TypeOK,
      BeforeDispatch, Stages
  <2>2. seen' \in [Attempts -> SUBSET (Evidence \cup {NoEvidence})]
    BY <1>8 DEF AuthorizationRetained, TypeOK
  <2>3. QED
    BY <1>8, <2>1, <2>2 DEF AuthorizationRetained, Elsewhere, keyVars, TypeOK,
      SettlingType
<1>9. ASSUME NEW a \in Attempts, Revalidated(a)
      PROVE  TypeOK'
  <2>1. SettlingType'
    BY <1>9, EnterStageTypes, StopTypes DEF Revalidated, LocalsKept, TypeOK,
      BeforeDispatch, Stages, Reasons
  <2>2. QED
    BY <1>9, <2>1 DEF Revalidated, LocalsKept, Elsewhere, keyVars, TypeOK,
      SettlingType
<1>10. ASSUME NEW a \in Attempts, Dispatch(a)
       PROVE  TypeOK'
  BY <1>10 DEF Dispatch, Elsewhere, keyVars, Active, Stages, TypeOK
<1>11. ASSUME NEW a \in Attempts, RefuseDispatch(a)
       PROVE  TypeOK'
  <2>1. SettlingType'
    BY <1>11, StopTypes DEF RefuseDispatch, LocalsKept, TypeOK, Reasons
  <2>2. QED
    BY <1>11, <2>1 DEF RefuseDispatch, LocalsKept, Elsewhere, keyVars, TypeOK,
      SettlingType
<1>12. ASSUME NEW a \in Attempts, Complete(a)
       PROVE  TypeOK'
  <2>1. SettlingType'
    BY <1>12, FinishTypes DEF Complete, LocalsKept, TypeOK, Reasons, Outcomes
  <2>2. QED
    BY <1>12, <2>1 DEF Complete, LocalsKept, Elsewhere, keyVars, TypeOK,
      SettlingType
<1>13. ASSUME NEW a \in Attempts, InvokeUnresolved(a)
       PROVE  TypeOK'
  <2>1. SettlingType'
    BY <1>13, FinishTypes DEF InvokeUnresolved, LocalsKept, TypeOK, Reasons,
      Outcomes
  <2>2. QED
    BY <1>13, <2>1 DEF InvokeUnresolved, LocalsKept, Elsewhere, keyVars,
      TypeOK, SettlingType
<1>14. ASSUME NEW a \in Attempts, ReceiptSettled(a)
       PROVE  TypeOK'
  BY <1>14 DEF ReceiptSettled, Return, Elsewhere, keyVars, TypeOK
<1>15. ASSUME NEW a \in Attempts, ReceiptTimeout(a)
       PROVE  TypeOK'
  BY <1>15 DEF ReceiptTimeout, Return, Elsewhere, keyVars, TypeOK
<1>16. ASSUME NEW a \in Attempts, Cancel(a)
       PROVE  TypeOK'
  BY <1>16 DEF Cancel, Abort, keyVars, sinkVars, TypeOK
<1>17. ASSUME NEW a \in Attempts, Timeout(a)
       PROVE  TypeOK'
  BY <1>17 DEF Timeout, Abort, keyVars, sinkVars, TypeOK
<1>18. ASSUME NEW a \in Attempts, EvidenceAnswers(a)
       PROVE  TypeOK'
  BY <1>18 DEF EvidenceAnswers, CurrentEvidence, Answer, keyVars, TypeOK
<1>19. ASSUME NEW a \in Attempts, EvidenceRejects(a)
       PROVE  TypeOK'
  BY <1>19 DEF EvidenceRejects, Answer, keyVars, TypeOK
<1>20. ASSUME NEW a \in Attempts, NEW holds \in BOOLEAN,
              PreconditionAnswers(a, holds)
       PROVE  TypeOK'
  BY <1>20 DEF PreconditionAnswers, Answer, keyVars, TypeOK
<1>21. ASSUME NEW a \in Attempts, NEW record \in {"authorization", "receipt"},
              SinkStores(a, record)
       PROVE  TypeOK'
  <2>1. CASE record = "authorization"
    BY <1>21, <2>1 DEF SinkStores, localVars, keyVars, TypeOK
  <2>2. CASE record = "receipt"
    BY <1>21, <2>2 DEF SinkStores, localVars, keyVars, TypeOK
  <2>3. QED
    BY <2>1, <2>2
<1>22. ASSUME NEW a \in Attempts, NEW record \in {"authorization", "receipt"},
              NEW acknowledges \in BOOLEAN,
              SinkSettles(a, record, acknowledges)
       PROVE  TypeOK'
  BY <1>22 DEF SinkSettles, Answer, keyVars, TypeOK
<1>23. ASSUME NEW a \in Attempts,
              NEW result \in {"succeeded", "reported_failure", "threw"},
              HandlerSettles(a, result)
       PROVE  TypeOK'
  BY <1>23 DEF HandlerSettles, Answer, keyVars, TypeOK
<1>24. ASSUME NEW e \in Evidence \cup {NoEvidence}, WorldChanges(e)
      PROVE  TypeOK'
  BY <1>24 DEF WorldChanges, localVars, keyVars, sinkVars, TypeOK
<1>25. ASSUME NEW e \in Evidence, EvidenceExpires(e)
      PROVE  TypeOK'
  BY <1>25 DEF EvidenceExpires, localVars, keyVars, sinkVars, TypeOK
<1>26. ASSUME KeysUnusable
      PROVE  TypeOK'
  BY <1>26 DEF KeysUnusable, localVars, sinkVars, TypeOK
<1>27. ASSUME NEW changed \in BOOLEAN, KeysUsable(changed)
      PROVE  TypeOK'
  BY <1>27, GateAssumption DEF KeysUsable, localVars, sinkVars, TypeOK
<1>28. ASSUME Crash
      PROVE  TypeOK'
  BY <1>28 DEF Crash, keyVars, Active, TypeOK
<1>29. ASSUME UNCHANGED vars
      PROVE  TypeOK'
  BY <1>29 DEF vars, localVars, keyVars, sinkVars, TypeOK
<1>30. QED
  BY <1>1, <1>2, <1>3, <1>4, <1>5, <1>6, <1>7, <1>8, <1>9, <1>10, <1>11,
    <1>12, <1>13, <1>14, <1>15, <1>16, <1>17, <1>18, <1>19, <1>20, <1>21,
    <1>22, <1>23, <1>24, <1>25, <1>26, <1>27, <1>28, <1>29 DEF Next, Segment,
    Dependency, Environment

\* Every variable of the gate always has its type.
THEOREM TypeCorrect == Spec => []TypeOK
<1>1. Init => TypeOK
  BY GateAssumption DEF Init, TypeOK, Active, Decisions, NoSession
<1>2. TypeOK /\ [Next]_vars => TypeOK'
  BY TypeStep
<1>3. QED
  BY <1>1, <1>2, PTL DEF Spec

-----------------------------------------------------------------------------
(***************************************************************************)
(* The inductive invariant.  What an attempt knows at each await, what its *)
(* claims rest on, and what its receipt says.                              *)
(***************************************************************************)

\* What has happened when the attempt is suspended at pc[a].
Progress(a) ==
  /\ started[a] <=> handler[a] # "none"
  /\ started[a] => retained[a]
  /\ pc[a] \in BeforeDispatch \cup {"ready"} => ~started[a]
  /\ pc[a] = "invoke" => started[a]
  /\ pc[a] \in Stages \cup {"ready"} => receipt[a] = NoReceipt
  /\ pc[a] \in {"receipt", "done"} => receipt[a] # NoReceipt
  /\ pc[a] \in {"ready", "evidence", "retain"} => ~retained[a]
  /\ pc[a] \in {"revalidate", "precondition", "invoke", "receipt"} => retained[a]
  /\ pc[a] = "retain" \/ retained[a] =>
       decision[a] = "ALLOWED" /\ evidence[a] \in Permitted

\* What is on disk when the attempt acts on it or claims it.
Durability(a) ==
  /\ pc[a] = "retain" /\ call[a] = "answered" => authFile[a]
  /\ retained[a] => authFile[a]
  /\ "receipt" \in writing[a] => retained[a] /\ receipt[a] # NoReceipt
  /\ receiptFile[a] # NoReceipt => receiptFile[a] = receipt[a] /\ retained[a]
  /\ pc[a] = "receipt" /\ call[a] = "answered" => receiptFile[a] # NoReceipt
  /\ receiptRetained[a] => receiptFile[a] # NoReceipt

\* The promise of the handler settles with the handler, and a receipt agrees
\* with both.
Truth(a) ==
  /\ pc[a] = "invoke" /\ call[a] = "answered" =>
       handler[a] \in {"succeeded", "reported_failure"}
  /\ receipt[a] # NoReceipt =>
       /\ receipt[a].authorized <=> retained[a]
       /\ receipt[a].eligible <=> started[a]
       /\ (receipt[a].outcome = "not_started") <=> ~started[a]
       /\ receipt[a].outcome = "reported_success" => handler[a] = "succeeded"
       /\ receipt[a].outcome = "reported_failure" =>
            handler[a] = "reported_failure"
       /\ receipt[a].reason = "CANCELLED_AFTER_DISPATCH" => started[a]
       /\ receipt[a].reason = "CANCELLED_BEFORE_DISPATCH" => ~started[a]

\* Since when the bound evidence is known to be current.
Freshness(a) ==
  /\ retained[a] => world \in seen[a]
  /\ pc[a] = "revalidate" /\ call[a] = "answered" => reply[a] \in seen[a]
  /\ pc[a] = "precondition" => evidence[a] \in seen[a]

Sound(a) == Progress(a) /\ Durability(a) /\ Truth(a) /\ Freshness(a)

Inv == \A a \in Attempts : Sound(a)

\* A receipt is never taken for its absence.
LEMMA Receipted ==
  ASSUME NEW x \in BOOLEAN, NEW y \in Decisions, NEW z \in BOOLEAN,
         NEW o \in Outcomes, NEW w \in Reasons
  PROVE  [authorized |-> x, decision |-> y, eligible |-> z, outcome |-> o,
          reason |-> w] # NoReceipt
BY GateAssumption DEF Receipts

\* How an attempt stops before dispatch.
LEMMA StopEffect ==
  ASSUME TypeOK, NEW a \in Attempts, NEW why \in EarlyReasons, Stop(a, why),
         retained'[a] \in BOOLEAN, decision'[a] \in Decisions,
         started'[a] \in BOOLEAN
  PROVE  /\ receipt'[a] # NoReceipt
         /\ receipt'[a].authorized = retained'[a]
         /\ receipt'[a].eligible = started'[a]
         /\ receipt'[a].outcome = "not_started"
         /\ receipt'[a].reason # "CANCELLED_AFTER_DISPATCH"
         /\ \A b \in Attempts \ {a} : receipt'[b] = receipt[b]
         /\ pc' = [pc EXCEPT ![a] = IF retained'[a] THEN "receipt" ELSE "done"]
         /\ call' = [call EXCEPT ![a] = IF retained'[a] THEN "pending"
                                                        ELSE "none"]
         /\ writing' = IF retained'[a]
                       THEN [writing EXCEPT ![a] = @ \cup {"receipt"}]
                       ELSE writing
<1> DEFINE reason == IF aborted[a] THEN "CANCELLED_BEFORE_DISPATCH" ELSE why
           given  == [authorized |-> retained'[a], decision |-> decision'[a],
                      eligible |-> started'[a], outcome |-> "not_started",
                      reason |-> reason]
<1>1. /\ reason \in Reasons /\ "not_started" \in Outcomes
      /\ reason # "CANCELLED_AFTER_DISPATCH"
  BY DEF EarlyReasons, Reasons, Outcomes
<1>2. given # NoReceipt
  BY <1>1, Receipted
<1>3. receipt' = [receipt EXCEPT ![a] = given]
  BY DEF Stop, Finish
<1>4. receipt'[a] = given /\ \A b \in Attempts \ {a} : receipt'[b] = receipt[b]
  BY <1>3 DEF TypeOK
<1>5. /\ pc' = [pc EXCEPT ![a] = IF retained'[a] THEN "receipt" ELSE "done"]
      /\ call' = [call EXCEPT ![a] = IF retained'[a] THEN "pending"
                                                     ELSE "none"]
      /\ writing' = IF retained'[a]
                    THEN [writing EXCEPT ![a] = @ \cup {"receipt"}]
                    ELSE writing
  BY DEF Stop, Finish, RetainsReceipt
<1>6. QED
  BY <1>1, <1>2, <1>4, <1>5

\* Stopping before dispatch keeps every attempt sound, if the segment that
\* stops leaves the other locals alone.
LEMMA StopKeepsSound ==
  ASSUME TypeOK, TypeOK', Inv, NEW a \in Attempts, NEW why \in EarlyReasons,
         Stop(a, why), Elsewhere, pc[a] \in BeforeDispatch \cup {"ready"},
         UNCHANGED <<evidence, started, retained, receiptRetained, handler,
                     seen>>,
         retained[a] => decision' = decision,
         \A c \in Attempts \ {a} : decision'[c] = decision[c],
         NEW b \in Attempts
  PROVE  Sound(b)'
<1>1. /\ retained'[a] \in BOOLEAN /\ started'[a] \in BOOLEAN
      /\ decision'[a] \in Decisions
  BY DEF TypeOK
<1>2. /\ receipt'[a] # NoReceipt
      /\ receipt'[a].authorized = retained[a]
      /\ receipt'[a].eligible = started[a]
      /\ receipt'[a].outcome = "not_started"
      /\ receipt'[a].reason # "CANCELLED_AFTER_DISPATCH"
      /\ \A c \in Attempts \ {a} : receipt'[c] = receipt[c]
      /\ pc' = [pc EXCEPT ![a] = IF retained[a] THEN "receipt" ELSE "done"]
      /\ call' = [call EXCEPT ![a] = IF retained[a] THEN "pending"
                                                    ELSE "none"]
      /\ writing' = IF retained[a]
                    THEN [writing EXCEPT ![a] = @ \cup {"receipt"}]
                    ELSE writing
  BY <1>1, StopEffect
<1>3. /\ ~started[a] /\ receipt[a] = NoReceipt /\ Sound(b) /\ Sound(a)
  BY DEF Inv, Sound, Progress, BeforeDispatch
<1>4. UNCHANGED <<world, authFile, receiptFile>>
  BY DEF Elsewhere
<1>5. CASE b = a
  <2>1. Progress(a)'
    BY <1>2, <1>3 DEF Sound, Progress, BeforeDispatch, Stages, TypeOK
  <2>2. Durability(a)'
    BY <1>2, <1>3, <1>4 DEF Sound, Durability, TypeOK
  <2>3. Truth(a)' /\ Freshness(a)'
    BY <1>2, <1>3, <1>4 DEF Sound, Truth, Freshness, TypeOK
  <2>4. QED
    BY <1>5, <2>1, <2>2, <2>3 DEF Sound
<1>6. CASE b # a
  <2>1. /\ receipt'[b] = receipt[b] /\ pc'[b] = pc[b] /\ call'[b] = call[b]
        /\ writing'[b] = writing[b] /\ decision'[b] = decision[b]
    BY <1>2, <1>6 DEF TypeOK
  <2>2. Progress(b)' /\ Durability(b)'
    BY <1>3, <1>4, <2>1 DEF Sound, Progress, Durability
  <2>3. Truth(b)' /\ Freshness(b)'
    BY <1>3, <1>4, <2>1 DEF Sound, Truth, Freshness, Elsewhere
  <2>4. QED
    BY <2>2, <2>3 DEF Sound
<1>7. QED
  BY <1>5, <1>6

\* Every step preserves Inv.
LEMMA InvStep == TypeOK /\ Inv /\ [Next]_vars => Inv'
<1> SUFFICES ASSUME TypeOK, TypeOK', Inv, [Next]_vars, NEW b \in Attempts
             PROVE  Sound(b)'
  BY TypeStep DEF Inv
<1>1. ASSUME NEW a \in Attempts, NEW wellFormed \in BOOLEAN,
             Begin(a, wellFormed)
      PROVE  Sound(b)'
  <2>1. CASE aborted[a] \/ ~wellFormed
    <3>1. \E why \in EarlyReasons : Stop(a, why)
      BY <1>1, <2>1, StageReasons DEF Begin, EnterStage, BeforeDispatch,
        Stages, Reasons, EarlyReasons
    <3>2. UNCHANGED decision /\ Elsewhere
      BY <1>1 DEF Begin, LocalsKept
    <3>3. QED
      BY <1>1, <3>1, <3>2, StopKeepsSound DEF Begin, LocalsKept
  <2>2. CASE ~aborted[a] /\ wellFormed
    BY <1>1, <2>2 DEF Begin, LocalsKept, EnterStage, Elsewhere, TypeOK, Inv,
      Sound, Progress, Durability, Truth, Freshness, BeforeDispatch, Stages
  <2>3. QED
    BY <2>1, <2>2
<1>2. ASSUME NEW a \in Attempts, StageFails(a) \/ StageInterrupted(a)
      PROVE  Sound(b)'
  <2>1. Stop(a, StageReason(pc[a])) /\ pc[a] \in BeforeDispatch
    BY <1>2 DEF StageFails, StageInterrupted
  <2>2. StageReason(pc[a]) \in EarlyReasons
    BY <2>1, StageReasons
  <2>3. QED
    BY <1>2, <2>1, <2>2, StopKeepsSound DEF StageFails, StageInterrupted,
      LocalsKept
<1>3. ASSUME NEW a \in Attempts, EvaluationUnavailable(a)
      PROVE  Sound(b)'
  <2>1. "EVALUATION_UNAVAILABLE" \in EarlyReasons
    BY DEF EarlyReasons, Reasons
  <2>2. QED
    BY <1>3, <2>1, StopKeepsSound DEF EvaluationUnavailable, LocalsKept,
      BeforeDispatch, Stages
<1>4. ASSUME NEW a \in Attempts, Deny(a) \/ SigningUnavailable(a)
      PROVE  Sound(b)'
  <2>1. \E why \in EarlyReasons : Stop(a, why)
    BY <1>4 DEF Deny, SigningUnavailable, EarlyReasons, Reasons
  <2>2. /\ pc[a] = "evidence" /\ ~retained[a]
        /\ \A c \in Attempts \ {a} : decision'[c] = decision[c]
    BY <1>4 DEF Deny, SigningUnavailable, Inv, Sound, Progress, TypeOK
  <2>3. /\ UNCHANGED <<evidence, started, retained, receiptRetained, handler,
                       seen>>
        /\ Elsewhere
    BY <1>4 DEF Deny, SigningUnavailable
  <2>4. QED
    BY <2>1, <2>2, <2>3, StopKeepsSound DEF BeforeDispatch, Stages
<1>5. ASSUME NEW a \in Attempts, Authorize(a)
      PROVE  Sound(b)'
  <2>1. CASE aborted[a]
    <3>1. Stop(a, StageReason("retain")) /\ StageReason("retain") \in EarlyReasons
      BY <1>5, <2>1, StageReasons DEF Authorize, EnterStage, BeforeDispatch,
        Stages
    <3>2. /\ retained'[a] \in BOOLEAN /\ started'[a] \in BOOLEAN
          /\ decision'[a] \in Decisions
      BY <1>5 DEF Authorize, TypeOK, Decisions
    <3>3. QED
      BY <1>5, <2>1, <3>1, <3>2, StopEffect DEF Authorize, Elsewhere, TypeOK,
        Inv, Sound, Progress, Durability, Truth, Freshness, BeforeDispatch,
        Stages
  <2>2. CASE ~aborted[a]
    BY <1>5, <2>2 DEF Authorize, EnterStage, Elsewhere, keyVars, TypeOK, Inv,
      Sound, Progress, Durability, Truth, Freshness, BeforeDispatch, Stages
  <2>3. QED
    BY <2>1, <2>2
<1>6. ASSUME NEW a \in Attempts, AuthorizationRetained(a)
      PROVE  Sound(b)'
  <2>1. CASE aborted[a]
    <3>1. /\ Stop(a, StageReason("revalidate"))
          /\ StageReason("revalidate") \in EarlyReasons
      BY <1>6, <2>1, StageReasons DEF AuthorizationRetained, EnterStage,
        BeforeDispatch, Stages
    <3>2. /\ retained'[a] \in BOOLEAN /\ started'[a] \in BOOLEAN
          /\ decision'[a] \in Decisions
      BY <1>6 DEF AuthorizationRetained, TypeOK
    <3>3. /\ receipt'[a] # NoReceipt
          /\ receipt'[a].authorized = TRUE
          /\ receipt'[a].eligible = started[a]
          /\ receipt'[a].outcome = "not_started"
          /\ receipt'[a].reason # "CANCELLED_AFTER_DISPATCH"
          /\ \A c \in Attempts \ {a} : receipt'[c] = receipt[c]
          /\ pc' = [pc EXCEPT ![a] = "receipt"]
          /\ call' = [call EXCEPT ![a] = "pending"]
          /\ writing' = [writing EXCEPT ![a] = @ \cup {"receipt"}]
      <4>1. retained'[a] = TRUE /\ started'[a] = started[a]
        BY <1>6 DEF AuthorizationRetained, TypeOK
      <4>2. QED
        BY <3>1, <3>2, <4>1, StopEffect
    <3>4. Progress(b)'
      BY <1>6, <3>3 DEF AuthorizationRetained, Elsewhere, TypeOK, Inv, Sound,
        Progress, BeforeDispatch, Stages
    <3>5. Durability(b)'
      BY <1>6, <3>3 DEF AuthorizationRetained, Acknowledged, Elsewhere, TypeOK,
        Inv, Sound, Progress, Durability, BeforeDispatch, Stages
    <3>6. Truth(b)'
      BY <1>6, <3>3 DEF AuthorizationRetained, Elsewhere, TypeOK, Inv, Sound,
        Progress, Truth, BeforeDispatch, Stages
    <3>7. Freshness(b)'
      BY <1>6, <3>3 DEF AuthorizationRetained, Elsewhere, TypeOK, Inv, Sound,
        Freshness
    <3>8. QED
      BY <3>4, <3>5, <3>6, <3>7 DEF Sound
  <2>2. CASE ~aborted[a]
    BY <1>6, <2>2 DEF AuthorizationRetained, Acknowledged, EnterStage,
      Elsewhere, TypeOK, Inv, Sound, Progress, Durability, Truth, Freshness,
      BeforeDispatch, Stages
  <2>3. QED
    BY <2>1, <2>2
<1>7. ASSUME NEW a \in Attempts, Revalidated(a)
      PROVE  Sound(b)'
  <2>1. CASE aborted[a] \/ ~SameEvidence(a)
    <3>1. \E why \in EarlyReasons : Stop(a, why)
      BY <1>7, <2>1, StageReasons DEF Revalidated, EnterStage, BeforeDispatch,
        Stages, Reasons, EarlyReasons
    <3>2. QED
      BY <1>7, <3>1, StopKeepsSound DEF Revalidated, LocalsKept,
        BeforeDispatch, Stages
  <2>2. CASE ~aborted[a] /\ SameEvidence(a)
    BY <1>7, <2>2 DEF Revalidated, LocalsKept, SameEvidence, EnterStage,
      Elsewhere, TypeOK, Inv, Sound, Progress, Durability, Truth, Freshness,
      BeforeDispatch, Stages
  <2>3. QED
    BY <2>1, <2>2
<1>8. ASSUME NEW a \in Attempts, Dispatch(a)
       PROVE  Sound(b)'
  BY <1>8 DEF Dispatch, MayDispatch, Elsewhere, EvidenceCurrent, keyVars,
    TypeOK, Inv, Sound, Progress, Durability, Truth, Freshness, BeforeDispatch,
    Stages
<1>9. ASSUME NEW a \in Attempts, RefuseDispatch(a)
       PROVE  Sound(b)'
  <2>1. \E why \in EarlyReasons : Stop(a, why)
    BY <1>9 DEF RefuseDispatch, EarlyReasons, Reasons
  <2>2. QED
    BY <1>9, <2>1, StopKeepsSound DEF RefuseDispatch, LocalsKept,
      BeforeDispatch, Stages
<1>10. ASSUME NEW a \in Attempts, Complete(a)
       PROVE  Sound(b)'
  <2>1. CASE handler[a] = "succeeded"
    BY <1>10, <2>1, Receipted DEF Complete, LocalsKept, Finish, Elsewhere,
      RetainsReceipt, Reasons, Outcomes, TypeOK, Inv, Sound, Progress,
      Durability, Truth, Freshness, BeforeDispatch, Stages
  <2>2. CASE handler[a] # "succeeded"
    BY <1>10, <2>2, Receipted DEF Complete, LocalsKept, Finish, Elsewhere,
      RetainsReceipt, Reasons, Outcomes, TypeOK, Inv, Sound, Progress,
      Durability, Truth, Freshness, BeforeDispatch, Stages
  <2>3. QED
    BY <2>1, <2>2
<1>11. ASSUME NEW a \in Attempts, InvokeUnresolved(a)
       PROVE  Sound(b)'
  BY <1>11, Receipted DEF InvokeUnresolved, LocalsKept, Finish, Elsewhere,
    RetainsReceipt, keyVars, Reasons, Outcomes, Decisions, TypeOK, Inv, Sound,
    Progress, Durability, Truth, Freshness, BeforeDispatch, Stages
<1>12. ASSUME NEW a \in Attempts, ReceiptSettled(a)
       PROVE  Sound(b)'
  BY <1>12 DEF ReceiptSettled, Return, Elsewhere, keyVars, TypeOK, Inv, Sound,
    Progress, Durability, Truth, Freshness, BeforeDispatch, Stages
<1>13. ASSUME NEW a \in Attempts, ReceiptTimeout(a)
       PROVE  Sound(b)'
  BY <1>13 DEF ReceiptTimeout, Return, Elsewhere, keyVars, TypeOK, Inv, Sound,
    Progress, Durability, Truth, Freshness, BeforeDispatch, Stages
<1>14. ASSUME NEW a \in Attempts, Cancel(a)
       PROVE  Sound(b)'
  BY <1>14 DEF Cancel, Abort, keyVars, sinkVars, TypeOK, Inv, Sound, Progress,
    Durability, Truth, Freshness, BeforeDispatch, Stages
<1>15. ASSUME NEW a \in Attempts, Timeout(a)
       PROVE  Sound(b)'
  BY <1>15 DEF Timeout, Abort, keyVars, sinkVars, TypeOK, Inv, Sound, Progress,
    Durability, Truth, Freshness, BeforeDispatch, Stages
<1>16. ASSUME NEW a \in Attempts, EvidenceAnswers(a)
       PROVE  Sound(b)'
  BY <1>16 DEF EvidenceAnswers, CurrentEvidence, Answer, keyVars, TypeOK,
    Inv, Sound, Progress, Durability, Truth, Freshness, BeforeDispatch, Stages
<1>17. ASSUME NEW a \in Attempts, EvidenceRejects(a)
       PROVE  Sound(b)'
  BY <1>17 DEF EvidenceRejects, Answer, keyVars, TypeOK, Inv, Sound, Progress,
    Durability, Truth, Freshness, BeforeDispatch, Stages
<1>18. ASSUME NEW a \in Attempts, NEW holds \in BOOLEAN,
              PreconditionAnswers(a, holds)
       PROVE  Sound(b)'
  BY <1>18 DEF PreconditionAnswers, Answer, keyVars, TypeOK, Inv, Sound,
    Progress, Durability, Truth, Freshness, BeforeDispatch, Stages
<1>19. ASSUME NEW a \in Attempts, NEW record \in {"authorization", "receipt"},
              SinkStores(a, record)
       PROVE  Sound(b)'
  BY <1>19 DEF SinkStores, localVars, keyVars, TypeOK, Inv, Sound, Progress,
    Durability, Truth, Freshness, BeforeDispatch, Stages
<1>20. ASSUME NEW a \in Attempts, NEW record \in {"authorization", "receipt"},
              NEW acknowledges \in BOOLEAN,
              SinkSettles(a, record, acknowledges)
       PROVE  Sound(b)'
  BY <1>20 DEF SinkSettles, Stored, Answer, Awaits, keyVars, TypeOK, Sound,
    Inv, Progress, Durability, Truth, Freshness, BeforeDispatch, Stages
<1>21. ASSUME NEW a \in Attempts,
              NEW result \in {"succeeded", "reported_failure", "threw"},
              HandlerSettles(a, result)
       PROVE  Sound(b)'
  BY <1>21 DEF HandlerSettles, Answer, keyVars, TypeOK, Inv, Sound, Progress,
    Durability, Truth, Freshness, BeforeDispatch, Stages
<1>22. ASSUME NEW e \in Evidence \cup {NoEvidence}, WorldChanges(e)
       PROVE  Sound(b)'
  BY <1>22 DEF WorldChanges, localVars, sinkVars, TypeOK, Inv, Sound, Progress,
    Durability, Truth, Freshness, BeforeDispatch, Stages
<1>23. ASSUME UNCHANGED <<localVars, sinkVars, handler, world, seen>>
       PROVE  Sound(b)'
  BY <1>23 DEF localVars, sinkVars, Inv, Sound, Progress, Durability, Truth,
    Freshness
<1>24. ASSUME Crash
       PROVE  Sound(b)'
  BY <1>24 DEF Crash, TypeOK, Inv, Sound, Progress, Durability, Truth,
    Freshness, Active, BeforeDispatch, Stages
<1>25. QED
  BY <1>1, <1>2, <1>3, <1>4, <1>5, <1>6, <1>7, <1>8, <1>9,
    <1>10, <1>11, <1>12, <1>13, <1>14, <1>15, <1>16, <1>17, <1>18, <1>19,
    <1>20, <1>21, <1>22, <1>23, <1>24 DEF Next, Segment, Dependency,
    Environment, EvidenceExpires, KeysUnusable, KeysUsable, vars

\* Inv holds throughout.
LEMMA Invariance == Spec => []Inv
<1>1. ASSUME Init
      PROVE  Inv
  <2> SUFFICES ASSUME NEW a \in Attempts
               PROVE  Sound(a)
    BY DEF Inv
  <2>1. /\ pc[a] = "ready" /\ handler[a] = "none" /\ ~started[a]
        /\ ~retained[a] /\ ~receiptRetained[a] /\ receipt[a] = NoReceipt
        /\ receiptFile[a] = NoReceipt /\ writing[a] = {}
    BY <1>1 DEF Init
  <2>2. Progress(a)
    BY <2>1 DEF Progress
  <2>3. Durability(a) /\ Truth(a) /\ Freshness(a)
    BY <2>1 DEF Durability, Truth, Freshness
  <2>4. QED
    BY <2>2, <2>3 DEF Sound
<1>2. TypeOK /\ Inv /\ [Next]_vars => Inv'
  BY InvStep
<1>3. QED
  BY <1>1, <1>2, TypeCorrect, PTL DEF Spec

-----------------------------------------------------------------------------
(***************************************************************************)
(* The safety properties of the gate                                       *)
(***************************************************************************)

\* No handler is called without a durable authorization of permitted evidence.
THEOREM DispatchRecorded == Spec => []DispatchHasRecord
<1>1. TypeOK /\ Inv => DispatchHasRecord
  BY DEF Inv, Sound, Progress, Durability, DispatchHasRecord
<1>2. QED
  BY <1>1, TypeCorrect, Invariance, PTL

\* What a receipt says of the handler stays true.
THEOREM ReceiptsTruthful == Spec => []ReceiptTruthful
<1>1. TypeOK /\ Inv => ReceiptTruthful
  BY DEF Inv, Sound, Progress, Truth, ReceiptTruthful
<1>2. QED
  BY <1>1, TypeCorrect, Invariance, PTL

\* A receipt on disk is the caller's and lies beside its authorization.
THEOREM ReceiptsFollow == Spec => []ReceiptFollowsAuthorization
<1>1. TypeOK /\ Inv => ReceiptFollowsAuthorization
  BY DEF Inv, Sound, Durability, ReceiptFollowsAuthorization
<1>2. QED
  BY <1>1, TypeCorrect, Invariance, PTL

\* The result claims no record that is not on disk.
THEOREM ClaimsBacked == Spec => []ClaimsAreBacked
<1>1. TypeOK /\ Inv => ClaimsAreBacked
  BY DEF Inv, Sound, Durability, Truth, ClaimsAreBacked
<1>2. QED
  BY <1>1, TypeCorrect, Invariance, PTL

\* Only Dispatch starts an attempt or its handler.
LEMMA OnlyDispatchStarts ==
  ASSUME TypeOK, [Next]_vars, NEW a \in Attempts, ~Dispatch(a)
  PROVE  /\ started'[a] = started[a]
         /\ handler'[a] = "running" => handler[a] = "running"
<1> DEFINE Kept == UNCHANGED <<started, handler>>
<1>1. ASSUME NEW b \in Attempts, NEW wellFormed \in BOOLEAN,
             Begin(b, wellFormed)
      PROVE  Kept
  BY <1>1 DEF Begin, LocalsKept
<1>2. ASSUME NEW b \in Attempts, Segment(b), ~Dispatch(b)
      PROVE  Kept
  BY <1>2 DEF Segment, StageFails, StageInterrupted, EvaluationUnavailable,
    Deny, SigningUnavailable, Authorize, AuthorizationRetained, Revalidated,
    RefuseDispatch, Complete, InvokeUnresolved, ReceiptSettled, Return,
    LocalsKept
<1>3. ASSUME NEW b \in Attempts, Dispatch(b)
      PROVE  started'[a] = started[a] /\ handler'[a] = handler[a]
  BY <1>3 DEF Dispatch, TypeOK
<1>4. ASSUME NEW b \in Attempts,
             ReceiptTimeout(b) \/ Cancel(b) \/ Timeout(b)
      PROVE  Kept
  BY <1>4 DEF ReceiptTimeout, Return, Cancel, Timeout, Abort
<1>5. ASSUME NEW b \in Attempts, Dependency(b)
      PROVE  /\ started' = started
             /\ handler'[a] = "running" => handler[a] = "running"
  BY <1>5 DEF Dependency, EvidenceAnswers, EvidenceRejects,
    PreconditionAnswers, SinkStores, SinkSettles, HandlerSettles, Answer,
    localVars, TypeOK
<1>6. ASSUME Environment
      PROVE  /\ started' = started
             /\ handler'[a] = "running" => handler[a] = "running"
  BY <1>6 DEF Environment, WorldChanges, EvidenceExpires, KeysUnusable,
    KeysUsable, Crash, localVars, TypeOK
<1>7. CASE UNCHANGED vars
  BY <1>7 DEF vars, localVars
<1>8. QED
  BY <1>1, <1>2, <1>3, <1>4, <1>5, <1>6, <1>7 DEF Next

\* The handler is called on fresh evidence and live keys.
THEOREM DispatchFresh == Spec => DispatchIsFresh
<1>1. ASSUME TypeOK, Inv, [Next]_vars, NEW a \in Attempts,
             ~started[a], started'[a]
      PROVE  /\ evidence[a] \in seen[a] \ expired
             /\ keysUsable /\ session[a] = epoch
             /\ ~aborted[a]
  <2>1. Dispatch(a)
    BY <1>1, OnlyDispatchStarts
  <2>2. QED
    BY <1>1, <2>1 DEF Dispatch, MayDispatch, EvidenceCurrent, KeysCurrent, Inv,
      Sound, Freshness
<1>2. TypeOK /\ Inv /\ [Next]_vars =>
        [\A a \in Attempts :
           ~started[a] /\ started'[a] =>
             /\ evidence[a] \in seen[a] \ expired
             /\ keysUsable /\ session[a] = epoch
             /\ ~aborted[a]]_vars
  BY <1>1
<1>3. QED
  BY <1>2, TypeCorrect, Invariance, PTL DEF Spec, DispatchIsFresh

\* The handler of an attempt is called at most once, before its verdict.
THEOREM DispatchedOnce == Spec => AtMostOneDispatch
<1>1. ASSUME TypeOK, Inv, [Next]_vars, NEW a \in Attempts,
             handler[a] # "running", handler'[a] = "running"
      PROVE  handler[a] = "none" /\ receipt[a] = NoReceipt
  <2>1. Dispatch(a)
    BY <1>1, OnlyDispatchStarts
  <2>2. QED
    BY <1>1, <2>1 DEF Dispatch, Inv, Sound, Progress, BeforeDispatch, Stages
<1>2. TypeOK /\ Inv /\ [Next]_vars =>
        [\A a \in Attempts :
           handler[a] # "running" /\ handler'[a] = "running" =>
             handler[a] = "none" /\ receipt[a] = NoReceipt]_vars
  BY <1>1
<1>3. QED
  BY <1>2, TypeCorrect, Invariance, PTL DEF Spec, AtMostOneDispatch

-----------------------------------------------------------------------------
(***************************************************************************)
(* Refinement                                                              *)
(*                                                                         *)
(* A segment that ends an attempt is the abstract step Conclude; Dispatch  *)
(* is TakeEffect; HandlerSettles is EndEffect; SinkStores is Record or     *)
(* Publish; Crash is Crash.  Every other step changes no abstract variable. *)
(***************************************************************************)

\* What a step may do without being seen: it neither ends an attempt nor
\* touches a file or a handler.
Unseen ==
  /\ UNCHANGED <<receipt, handler, authFile, receiptFile>>
  /\ \A a \in Attempts : pc'[a] = "lost" <=> pc[a] = "lost"

\* Such a step is a stutter of the boundary.
LEMMA UnseenStutters == Unseen => UNCHANGED Boundary!vars
BY DEF Unseen, Boundary!vars, Verdict

\* Whatever ends an attempt is a verdict that its effect permits.
LEMMA FinishConcludes ==
  ASSUME TypeOK, NEW a \in Attempts, NEW outcome \in Outcomes,
         NEW why \in Reasons, Finish(a, outcome, why),
         retained'[a] \in BOOLEAN, decision'[a] \in Decisions,
         started'[a] \in BOOLEAN,
         receipt[a] = NoReceipt, pc[a] # "lost",
         UNCHANGED <<handler, authFile, receiptFile>>,
         outcome \in Boundary!Verdicts(handler[a])
  PROVE  Boundary!Next
<1> DEFINE given == [authorized |-> retained'[a], decision |-> decision'[a],
                     eligible |-> started'[a], outcome |-> outcome,
                     reason |-> why]
<1>1. given # NoReceipt
  BY Receipted
<1>2. receipt' = [receipt EXCEPT ![a] = given]
  BY DEF Finish
<1>3. Verdict(a) = "open"
  BY DEF Verdict
<1>4. Verdict(a)' = outcome
  BY <1>1, <1>2 DEF Verdict, TypeOK
<1>5. \A b \in Attempts \ {a} : Verdict(b)' = Verdict(b)
  BY <1>2 DEF Verdict, TypeOK, Finish
<1>6. [b \in Attempts |-> Verdict(b)]' =
        [[b \in Attempts |-> Verdict(b)] EXCEPT ![a] = outcome]
  BY <1>4, <1>5
<1>7. Boundary!Conclude(a, outcome)
  BY <1>3, <1>6 DEF Boundary!Conclude
<1>8. QED
  BY <1>7 DEF Boundary!Next

\* An attempt that stops before dispatch was never seen to take effect.
LEMMA StopConcludes ==
  ASSUME TypeOK, Inv, NEW a \in Attempts, NEW why \in Reasons, Stop(a, why),
         pc[a] \in BeforeDispatch \cup {"ready"},
         retained'[a] \in BOOLEAN, decision'[a] \in Decisions,
         started'[a] \in BOOLEAN,
         UNCHANGED <<handler, authFile, receiptFile>>
  PROVE  Boundary!Next
<1> DEFINE reason == IF aborted[a] THEN "CANCELLED_BEFORE_DISPATCH" ELSE why
<1>1. receipt[a] = NoReceipt /\ handler[a] = "none" /\ pc[a] # "lost"
  BY DEF Inv, Sound, Progress, BeforeDispatch, Stages
<1>2. "not_started" \in Outcomes /\ reason \in Reasons
  BY DEF Outcomes, Reasons
<1>3. "not_started" \in Boundary!Verdicts(handler[a])
  BY <1>1 DEF Boundary!Verdicts
<1>4. Finish(a, "not_started", reason)
  BY DEF Stop
<1>5. QED
  BY <1>1, <1>2, <1>3, <1>4, FinishConcludes

\* A segment that enters the next stage is not seen, unless it stops there.
LEMMA EnterStageImplements ==
  ASSUME TypeOK, Inv, NEW a \in Attempts, NEW stage \in BeforeDispatch,
         EnterStage(a, stage),
         pc[a] \in BeforeDispatch \cup {"ready"},
         retained'[a] \in BOOLEAN, decision'[a] \in Decisions,
         started'[a] \in BOOLEAN,
         UNCHANGED <<handler, authFile, receiptFile>>
  PROVE  Boundary!Next \/ Unseen
<1>1. CASE aborted[a]
  BY <1>1, StageReasons, StopConcludes DEF EnterStage, EarlyReasons
<1>2. CASE ~aborted[a]
  BY <1>2 DEF EnterStage, Unseen, TypeOK, BeforeDispatch, Stages
<1>3. QED
  BY <1>1, <1>2

\* Every segment of execute(), and Begin, keeps the locals typed and touches
\* neither files nor, Dispatch apart, the handler.
LEMMA SegmentFrame ==
  ASSUME TypeOK, TypeOK', NEW a \in Attempts,
         Segment(a) \/ ReceiptTimeout(a)
           \/ \E wellFormed \in BOOLEAN : Begin(a, wellFormed)
  PROVE  /\ retained'[a] \in BOOLEAN /\ decision'[a] \in Decisions
         /\ started'[a] \in BOOLEAN
         /\ UNCHANGED <<authFile, receiptFile>>
         /\ Dispatch(a) \/ UNCHANGED handler
<1>1. /\ retained'[a] \in BOOLEAN /\ decision'[a] \in Decisions
      /\ started'[a] \in BOOLEAN
  BY DEF TypeOK
<1>2. /\ UNCHANGED <<authFile, receiptFile>>
      /\ Dispatch(a) \/ UNCHANGED handler
  BY DEF Segment, ReceiptTimeout, Begin, StageFails, StageInterrupted,
    EvaluationUnavailable, Deny, SigningUnavailable, Authorize,
    AuthorizationRetained, Revalidated, Dispatch, RefuseDispatch, Complete,
    InvokeUnresolved, ReceiptSettled, Return, LocalsKept, Elsewhere
<1>3. QED
  BY <1>1, <1>2

\* Every step of the gate is a step of the boundary or a stutter.
LEMMA StepImplements ==
  TypeOK /\ Inv /\ [Next]_vars => [Boundary!Next]_(Boundary!vars)
<1> SUFFICES ASSUME TypeOK, TypeOK', Inv, [Next]_vars
             PROVE  Boundary!Next \/ Unseen \/ UNCHANGED Boundary!vars
  BY TypeStep, UnseenStutters
<1> USE SegmentFrame DEF Segment
<1>1. ASSUME NEW a \in Attempts, NEW wellFormed \in BOOLEAN,
             Begin(a, wellFormed)
      PROVE  Boundary!Next \/ Unseen
  BY <1>1, EnterStageImplements, StopConcludes DEF Begin, LocalsKept,
    BeforeDispatch, Stages, Reasons
<1>2. ASSUME NEW a \in Attempts, StageFails(a) \/ StageInterrupted(a)
      PROVE  Boundary!Next
  BY <1>2, StageReasons, StopConcludes DEF StageFails, StageInterrupted,
    LocalsKept, EarlyReasons
<1>3. ASSUME NEW a \in Attempts,
             \/ EvaluationUnavailable(a) \/ Deny(a) \/ SigningUnavailable(a)
             \/ RefuseDispatch(a)
      PROVE  Boundary!Next
  BY <1>3, StopConcludes DEF EvaluationUnavailable, Deny, SigningUnavailable,
    RefuseDispatch, LocalsKept, BeforeDispatch, Stages, Reasons
<1>4. ASSUME NEW a \in Attempts, Authorize(a)
      PROVE  Boundary!Next \/ Unseen
  BY <1>4, EnterStageImplements DEF Authorize, BeforeDispatch, Stages
<1>5. ASSUME NEW a \in Attempts, AuthorizationRetained(a)
      PROVE  Boundary!Next \/ Unseen
  BY <1>5, EnterStageImplements DEF AuthorizationRetained, BeforeDispatch,
    Stages
<1>6. ASSUME NEW a \in Attempts, Revalidated(a)
      PROVE  Boundary!Next \/ Unseen
  BY <1>6, EnterStageImplements, StopConcludes DEF Revalidated, LocalsKept,
    BeforeDispatch, Stages, Reasons
<1>7. ASSUME NEW a \in Attempts, Dispatch(a)
      PROVE  Boundary!Next
  <2>1. Boundary!TakeEffect(a)
    BY <1>7 DEF Dispatch, Elsewhere, Boundary!TakeEffect, Verdict, TypeOK, Inv,
      Sound, Progress, Durability, BeforeDispatch, Stages
  <2>2. QED
    BY <2>1 DEF Boundary!Next
<1>8. ASSUME NEW a \in Attempts, Complete(a)
      PROVE  Boundary!Next
  <2>1. handler[a] \in {"succeeded", "reported_failure"}
    BY <1>8 DEF Complete, Inv, Sound, Truth
  <2>2. receipt[a] = NoReceipt /\ pc[a] # "lost"
    BY <1>8 DEF Complete, Inv, Sound, Progress, Stages
  <2>3. CASE handler[a] = "succeeded"
    BY <1>8, <2>2, <2>3, FinishConcludes DEF Complete, LocalsKept,
      Boundary!Verdicts, Outcomes, Reasons
  <2>4. CASE handler[a] = "reported_failure"
    BY <1>8, <2>2, <2>4, FinishConcludes DEF Complete, LocalsKept,
      Boundary!Verdicts, Outcomes, Reasons
  <2>5. QED
    BY <2>1, <2>3, <2>4
<1>9. ASSUME NEW a \in Attempts, InvokeUnresolved(a)
      PROVE  Boundary!Next
  <2>1. receipt[a] = NoReceipt /\ pc[a] # "lost" /\ handler[a] # "none"
    BY <1>9 DEF InvokeUnresolved, Inv, Sound, Progress, Stages
  <2>2. QED
    BY <1>9, <2>1, FinishConcludes DEF InvokeUnresolved, LocalsKept,
      Boundary!Verdicts, Outcomes, Reasons
<1>10. ASSUME NEW a \in Attempts, ReceiptSettled(a) \/ ReceiptTimeout(a)
       PROVE  Unseen
  BY <1>10 DEF ReceiptSettled, ReceiptTimeout, Return, Elsewhere, Unseen,
    TypeOK
<1>11. ASSUME NEW a \in Attempts, Cancel(a) \/ Timeout(a)
       PROVE  Unseen
  BY <1>11 DEF Cancel, Timeout, Abort, sinkVars, Unseen
<1>12. ASSUME NEW a \in Attempts,
              \/ EvidenceAnswers(a) \/ EvidenceRejects(a)
              \/ \E holds \in BOOLEAN : PreconditionAnswers(a, holds)
       PROVE  Unseen
  BY <1>12 DEF EvidenceAnswers, EvidenceRejects, PreconditionAnswers, Answer,
    Unseen
<1>13. ASSUME NEW a \in Attempts, SinkStores(a, "authorization")
       PROVE  Boundary!Next
  <2>1. Boundary!Record(a)
    BY <1>13 DEF SinkStores, localVars, Boundary!Record, Verdict, TypeOK
  <2>2. QED
    BY <2>1 DEF Boundary!Next
<1>14. ASSUME NEW a \in Attempts, SinkStores(a, "receipt")
       PROVE  Boundary!Next
  <2>1. receipt[a] # NoReceipt /\ authFile[a] /\ receipt[a] \in Receipts
    BY <1>14 DEF SinkStores, TypeOK, Inv, Sound, Durability
  <2>2. Boundary!Publish(a)
    BY <1>14, <2>1 DEF SinkStores, localVars, Boundary!Publish, Verdict,
      Receipts, Outcomes, TypeOK
  <2>3. QED
    BY <2>2 DEF Boundary!Next
<1>15. ASSUME NEW a \in Attempts, NEW record \in {"authorization", "receipt"},
              NEW acknowledges \in BOOLEAN,
              SinkSettles(a, record, acknowledges)
       PROVE  Unseen
  BY <1>15 DEF SinkSettles, Answer, Unseen
<1>16. ASSUME NEW a \in Attempts,
              NEW result \in {"succeeded", "reported_failure", "threw"},
              HandlerSettles(a, result)
       PROVE  Boundary!Next
  <2>1. Boundary!EndEffect(a, result)
    BY <1>16 DEF HandlerSettles, Answer, Boundary!EndEffect, Verdict
  <2>2. QED
    BY <2>1 DEF Boundary!Next, Boundary!Results
<1>17. ASSUME Crash
       PROVE  Boundary!Next
  <2> DEFINE serving == {a \in Attempts : pc[a] \in Active
                                          /\ receipt[a] = NoReceipt}
  <2>1. Boundary!Crash(serving)
    BY <1>17 DEF Crash, Boundary!Crash, Verdict, TypeOK, Active, Stages
  <2>2. QED
    BY <2>1 DEF Boundary!Next
<1>18. CASE UNCHANGED <<localVars, sinkVars, handler>>
  BY <1>18 DEF localVars, sinkVars, Unseen
<1>19. QED
  BY <1>1, <1>2, <1>3, <1>4, <1>5, <1>6, <1>7, <1>8, <1>9, <1>10, <1>11,
    <1>12, <1>13, <1>14, <1>15, <1>16, <1>17, <1>18 DEF Next, Dependency,
    Environment, WorldChanges, EvidenceExpires, KeysUnusable, KeysUsable, vars

\* The gate, with its dependencies and its process, implements the boundary.
THEOREM GateImplementsBoundary == Spec => ImplementsBoundary
<1>1. Init => Boundary!Init
  BY DEF Init, Boundary!Init, Verdict
<1>2. TypeOK /\ Inv /\ [Next]_vars => [Boundary!Next]_(Boundary!vars)
  BY StepImplements
<1>3. QED
  BY <1>1, <1>2, TypeCorrect, Invariance, PTL
  DEF Spec, ImplementsBoundary, Boundary!Spec

=============================================================================
