---------------------------- MODULE ExecutionGate ----------------------------
(***************************************************************************)
(* The mandatory-proof execution gate of sdk/node/execution.js, as run by  *)
(* one Node process for a set of concurrent attempts.                      *)
(*                                                                         *)
(* execute() is an async function: it runs without interruption between    *)
(* two awaits.  Each action below is one such uninterrupted segment, from  *)
(* the settlement of the awaited call to the next await.  Between two      *)
(* segments anything else may happen: the segments of other attempts, the  *)
(* evidence provider, the proof sink, the key store, the governed handler, *)
(* the caller's abort signal, the timers, and a crash of the process.      *)
(*                                                                         *)
(* stage(name, call) awaits guardedCall(call, signal), which an abort      *)
(* settles early.  An abort does not stop the call itself: an abandoned    *)
(* file write may still land and an abandoned handler keeps running.       *)
(***************************************************************************)
EXTENDS Integers

CONSTANTS
  Attempts,     \* attempt identifiers: one per call of execute(), never reused
  Evidence,     \* evidence the provider can report (mask and references)
  Permitted,    \* the evidence under which the policy decides ALLOWED
  NoEvidence,   \* the operator state holds no valid evidence
  NoReceipt,    \* there is no receipt (yet)
  MaxEpoch      \* bound on the number of changes of the signing keys

VARIABLES
  (*************************************************************************)
  (* Local variables of execute(), per attempt                             *)
  (*************************************************************************)
  pc,              \* the await at which the attempt is suspended
  aborted,         \* controller.signal.aborted
  call,            \* the promise of the call the attempt awaits
  reply,           \* what the evidence provider answered the last time
  evidence,        \* the evidence the authorization binds
  session,         \* the key epoch captured in keySession, or NoSession
  decision,        \* decision of the governor, or "null"
  started,         \* started (and eligible, which is set together with it)
  retained,        \* retainedAuthorization
  receipt,         \* the receipt, or NoReceipt while there is none
  receiptRetained, \* retainedReceipt
  (*************************************************************************)
  (* The world the gate depends on                                         *)
  (*************************************************************************)
  world,           \* the evidence in the operator's state
  expired,         \* evidence one of whose references is past its expiry
  epoch,           \* key epoch: one more after each rotation or revocation
  keysUsable,      \* the key store is open, not busy, not faulted, in date
  writing,         \* sink calls that run for an attempt, abandoned ones too
  authFile,        \* the authorization record is durable on disk
  receiptFile,     \* the receipt durable on disk, or NoReceipt
  handler,         \* the governed handler of the attempt
  (*************************************************************************)
  (* History                                                               *)
  (*************************************************************************)
  seen             \* evidence that was current since the authorization was
                   \* acknowledged

localVars == <<pc, aborted, call, reply, evidence, session, decision,
               started, retained, receipt, receiptRetained>>
keyVars   == <<epoch, keysUsable>>
sinkVars  == <<writing, authFile, receiptFile>>
vars == <<localVars, world, expired, keyVars, sinkVars, handler, seen>>

-----------------------------------------------------------------------------
(***************************************************************************)
(* Values                                                                  *)
(***************************************************************************)
NoSession == -1

\* The awaits whose failure enters the catch block of execute().
Stages == {"evidence", "retain", "revalidate", "precondition", "invoke"}

\* The stages in which an abort or an error leaves the handler uncalled.
BeforeDispatch == Stages \ {"invoke"}

\* The attempt has begun and its caller still waits.
Active == Stages \cup {"receipt"}

Reasons ==
  {"INVALID_ACTION", "EVIDENCE_UNAVAILABLE", "EVALUATION_UNAVAILABLE",
   "POLICY_DENIED", "SIGNING_UNAVAILABLE", "RETENTION_UNAVAILABLE",
   "EVIDENCE_CHANGED", "PRECONDITION_FAILED", "KEYS_CHANGED",
   "RESULT_UNAVAILABLE", "CANCELLED_BEFORE_DISPATCH",
   "CANCELLED_AFTER_DISPATCH", "HANDLER_REPORTED_FAILURE", "COMPLETED"}

Outcomes == {"not_started", "reported_success", "reported_failure", "unknown"}

Decisions == {"null", "ALLOWED", "DENIED"}

Receipts == [authorized : BOOLEAN, decision : Decisions, eligible : BOOLEAN,
             outcome : Outcomes, reason : Reasons]

ASSUME GateAssumption ==
  /\ Permitted \subseteq Evidence
  /\ NoEvidence \notin Evidence
  /\ NoReceipt \notin Receipts
  /\ MaxEpoch \in Nat

TypeOK ==
  /\ pc \in [Attempts -> Active \cup {"ready", "done", "lost"}]
  /\ aborted \in [Attempts -> BOOLEAN]
  /\ call \in [Attempts -> {"none", "pending", "answered", "rejected"}]
  /\ reply \in [Attempts -> Evidence \cup {NoEvidence}]
  /\ evidence \in [Attempts -> Evidence \cup {NoEvidence}]
  /\ session \in [Attempts -> Nat \cup {NoSession}]
  /\ decision \in [Attempts -> Decisions]
  /\ started \in [Attempts -> BOOLEAN]
  /\ retained \in [Attempts -> BOOLEAN]
  /\ receipt \in [Attempts -> Receipts \cup {NoReceipt}]
  /\ receiptRetained \in [Attempts -> BOOLEAN]
  /\ world \in Evidence \cup {NoEvidence}
  /\ expired \in SUBSET Evidence
  /\ epoch \in 0..MaxEpoch
  /\ keysUsable \in BOOLEAN
  /\ writing \in [Attempts -> SUBSET {"authorization", "receipt"}]
  /\ authFile \in [Attempts -> BOOLEAN]
  /\ receiptFile \in [Attempts -> Receipts \cup {NoReceipt}]
  /\ handler \in [Attempts -> {"none", "running", "succeeded",
                               "reported_failure", "threw", "killed"}]
  /\ seen \in [Attempts -> SUBSET (Evidence \cup {NoEvidence})]

Init ==
  /\ pc = [a \in Attempts |-> "ready"]
  /\ aborted = [a \in Attempts |-> FALSE]
  /\ call = [a \in Attempts |-> "none"]
  /\ reply = [a \in Attempts |-> NoEvidence]
  /\ evidence = [a \in Attempts |-> NoEvidence]
  /\ session = [a \in Attempts |-> NoSession]
  /\ decision = [a \in Attempts |-> "null"]
  /\ started = [a \in Attempts |-> FALSE]
  /\ retained = [a \in Attempts |-> FALSE]
  /\ receipt = [a \in Attempts |-> NoReceipt]
  /\ receiptRetained = [a \in Attempts |-> FALSE]
  /\ world \in Evidence \cup {NoEvidence}
  /\ expired = {}
  /\ epoch = 0
  /\ keysUsable = TRUE
  /\ writing = [a \in Attempts |-> {}]
  /\ authFile = [a \in Attempts |-> FALSE]
  /\ receiptFile = [a \in Attempts |-> NoReceipt]
  /\ handler = [a \in Attempts |-> "none"]
  /\ seen = [a \in Attempts |-> {}]

-----------------------------------------------------------------------------
\* Mutant: every attempt retains a receipt.
RetainsAnyReceipt(a) == TRUE

\* Only a retained authorization gets a receipt on disk.
RetainsReceipt(a) == retained'[a]

(***************************************************************************)
(* The end of an attempt: catch, finally and the receipt.                  *)
(* The locals are read as the segment leaves them, hence the primes.       *)
(***************************************************************************)
Finish(a, outcome, why) ==
  /\ receipt' = [receipt EXCEPT ![a] =
       [authorized |-> retained'[a], decision |-> decision'[a],
        eligible |-> started'[a], outcome |-> outcome, reason |-> why]]
  /\ IF RetainsReceipt(a)
       THEN /\ pc' = [pc EXCEPT ![a] = "receipt"]
            /\ call' = [call EXCEPT ![a] = "pending"]
            /\ writing' = [writing EXCEPT ![a] = @ \cup {"receipt"}]
       ELSE /\ pc' = [pc EXCEPT ![a] = "done"]
            /\ call' = [call EXCEPT ![a] = "none"]
            /\ UNCHANGED writing

\* An error thrown before dispatch.
Stop(a, why) ==
  Finish(a, "not_started",
         IF aborted[a] THEN "CANCELLED_BEFORE_DISPATCH" ELSE why)

\* The reason an attempt reports when the call of a stage fails.
StageReason(stage) ==
  CASE stage = "evidence"     -> "EVIDENCE_UNAVAILABLE"
    [] stage = "retain"       -> "RETENTION_UNAVAILABLE"
    [] stage = "revalidate"   -> "EVIDENCE_CHANGED"
    [] stage = "precondition" -> "PRECONDITION_FAILED"

\* guardedCall refuses to make the call of a stage once the signal is aborted.
EnterStage(a, stage) ==
  IF aborted[a]
  THEN Stop(a, StageReason(stage))
  ELSE /\ pc' = [pc EXCEPT ![a] = stage]
       /\ call' = [call EXCEPT ![a] = "pending"]
       /\ writing' = IF stage = "retain"
                     THEN [writing EXCEPT ![a] = @ \cup {"authorization"}]
                     ELSE writing
       /\ UNCHANGED receipt

\* What most segments keep of the locals.
LocalsKept == UNCHANGED <<evidence, session, decision, started, retained,
                          receiptRetained, handler, seen>>

\* What no segment of execute() changes.
Elsewhere == UNCHANGED <<aborted, reply, world, expired, keyVars, authFile,
                         receiptFile>>

-----------------------------------------------------------------------------
(***************************************************************************)
(* The segments of execute()                                               *)
(***************************************************************************)
Begin(a, wellFormed) ==
  /\ pc[a] = "ready"
  /\ LocalsKept
  /\ IF wellFormed THEN EnterStage(a, "evidence") ELSE Stop(a, "INVALID_ACTION")
  /\ Elsewhere

\* A dependency threw, or answered with something the gate does not accept.
StageFails(a) ==
  /\ pc[a] \in BeforeDispatch
  /\ call[a] = "rejected"
  /\ LocalsKept
  /\ Stop(a, StageReason(pc[a]))
  /\ Elsewhere

\* The abort listener of guardedCall rejects the awaited promise; the call
\* itself goes on.
StageInterrupted(a) ==
  /\ pc[a] \in BeforeDispatch
  /\ aborted[a]
  /\ LocalsKept
  /\ Stop(a, StageReason(pc[a]))
  /\ Elsewhere

\* The governor throws or returns no decision.
EvaluationUnavailable(a) ==
  /\ pc[a] = "evidence" /\ call[a] = "answered"
  /\ LocalsKept
  /\ Stop(a, "EVALUATION_UNAVAILABLE")
  /\ Elsewhere

Deny(a) ==
  /\ pc[a] = "evidence" /\ call[a] = "answered"
  /\ reply[a] \notin Permitted
  /\ decision' = [decision EXCEPT ![a] = "DENIED"]
  /\ UNCHANGED <<evidence, session, started, retained, receiptRetained,
                 handler, seen>>
  /\ Stop(a, "POLICY_DENIED")
  /\ Elsewhere

\* capture() threw, the proof could not be signed, or it does not verify.
SigningUnavailable(a) ==
  /\ pc[a] = "evidence" /\ call[a] = "answered"
  /\ reply[a] \in Permitted
  /\ decision' = [decision EXCEPT ![a] = "ALLOWED"]
  /\ UNCHANGED <<evidence, session, started, retained, receiptRetained,
                 handler, seen>>
  /\ Stop(a, "SIGNING_UNAVAILABLE")
  /\ Elsewhere

\* The keys are captured, the policy allows, and the signed proof that binds
\* the evidence verifies; the sink is asked to retain it.
Authorize(a) ==
  /\ pc[a] = "evidence" /\ call[a] = "answered"
  /\ reply[a] \in Permitted
  /\ keysUsable
  /\ decision' = [decision EXCEPT ![a] = "ALLOWED"]
  /\ evidence' = [evidence EXCEPT ![a] = reply[a]]
  /\ session' = [session EXCEPT ![a] = epoch]
  /\ UNCHANGED <<started, retained, receiptRetained, handler, seen>>
  /\ EnterStage(a, "retain")
  /\ Elsewhere

\* Mutant: the acknowledgment of the sink is not awaited.
NotRefused(a) == call[a] # "rejected"

Acknowledged(a) == call[a] = "answered"

\* The sink acknowledged the authorization; the evidence is resolved again.
AuthorizationRetained(a) ==
  /\ pc[a] = "retain" /\ Acknowledged(a)
  /\ retained' = [retained EXCEPT ![a] = TRUE]
  /\ seen' = [seen EXCEPT ![a] = {world}]
  /\ UNCHANGED <<evidence, session, decision, started, receiptRetained,
                 handler>>
  /\ EnterStage(a, "revalidate")
  /\ Elsewhere

\* Mutant: the evidence is not resolved again.
RevalidationIgnored(a) == TRUE

\* The digests of the two answers of the evidence provider agree.
SameEvidence(a) == reply[a] = evidence[a]

Revalidated(a) ==
  /\ pc[a] = "revalidate" /\ call[a] = "answered"
  /\ LocalsKept
  /\ IF SameEvidence(a) THEN EnterStage(a, "precondition")
                        ELSE Stop(a, "EVIDENCE_CHANGED")
  /\ Elsewhere

\* evidenceProvider.assertCurrent: the references have not expired.
EvidenceCurrent(a) == evidence[a] \notin expired

\* keySession.assertCurrent: the captured key state is still the live one.
KeysCurrent(a) == keysUsable /\ session[a] = epoch

\* No await lies between the three checks and the call of the handler.
MayDispatch(a) == ~aborted[a] /\ EvidenceCurrent(a) /\ KeysCurrent(a)

Dispatch(a) ==
  /\ pc[a] = "precondition" /\ call[a] = "answered"
  /\ MayDispatch(a)
  /\ started' = [started EXCEPT ![a] = TRUE]
  /\ handler' = [handler EXCEPT ![a] = "running"]
  /\ pc' = [pc EXCEPT ![a] = "invoke"]
  /\ call' = [call EXCEPT ![a] = "pending"]
  /\ UNCHANGED <<evidence, session, decision, retained, receipt,
                 receiptRetained, writing, seen>>
  /\ Elsewhere

RefuseDispatch(a) ==
  /\ pc[a] = "precondition" /\ call[a] = "answered"
  /\ ~MayDispatch(a)
  /\ LocalsKept
  /\ Stop(a, IF EvidenceCurrent(a) THEN "KEYS_CHANGED" ELSE "EVIDENCE_CHANGED")
  /\ Elsewhere

Complete(a) ==
  /\ pc[a] = "invoke" /\ call[a] = "answered"
  /\ LocalsKept
  /\ IF handler[a] = "succeeded"
       THEN Finish(a, "reported_success", "COMPLETED")
       ELSE Finish(a, "reported_failure", "HANDLER_REPORTED_FAILURE")
  /\ Elsewhere

\* Mutant: an invocation without a result is tried again.
InvokeRetried(a) ==
  /\ pc[a] = "invoke"
  /\ call[a] = "rejected"
  /\ pc' = [pc EXCEPT ![a] = "precondition"]
  /\ call' = [call EXCEPT ![a] = "answered"]
  /\ UNCHANGED <<evidence, session, decision, started, retained, receipt,
                 receiptRetained, writing, handler, seen>>
  /\ Elsewhere

\* The handler threw, or the caller stopped waiting for it.
InvokeUnresolved(a) ==
  /\ pc[a] = "invoke"
  /\ call[a] = "rejected" \/ aborted[a]
  /\ LocalsKept
  /\ Finish(a, "unknown", IF aborted[a] THEN "CANCELLED_AFTER_DISPATCH"
                                        ELSE "RESULT_UNAVAILABLE")
  /\ Elsewhere

\* execute() returns its result: the acknowledgment of the receipt matches,
\* or it does not, or the receipt timer fires first.
Return(a, acknowledged) ==
  /\ pc' = [pc EXCEPT ![a] = "done"]
  /\ call' = [call EXCEPT ![a] = "none"]
  /\ receiptRetained' = [receiptRetained EXCEPT ![a] = acknowledged]
  /\ UNCHANGED <<evidence, session, decision, started, retained, receipt,
                 writing, handler, seen>>
  /\ Elsewhere

\* Mutant: the acknowledgment is not compared.
ReceiptAssumed(a) ==
  /\ pc[a] = "receipt" /\ call[a] \in {"answered", "rejected"}
  /\ Return(a, TRUE)

ReceiptSettled(a) ==
  /\ pc[a] = "receipt" /\ call[a] \in {"answered", "rejected"}
  /\ Return(a, call[a] = "answered")

\* Mutant: the receipt is awaited without a timer.
ReceiptAwaited(a) ==
  /\ pc[a] = "receipt" /\ call[a] = "answered"
  /\ Return(a, TRUE)

ReceiptTimeout(a) ==
  /\ pc[a] = "receipt" /\ call[a] = "pending"
  /\ Return(a, FALSE)

-----------------------------------------------------------------------------
(***************************************************************************)
(* Abort: the caller's signal and the attempt's own timer.  Both act until *)
(* the finally block removes the listener and clears the timer.            *)
(***************************************************************************)
Abort(a) ==
  /\ aborted' = [aborted EXCEPT ![a] = TRUE]
  /\ UNCHANGED <<pc, call, reply, evidence, session, decision, started,
                 retained, receipt, receiptRetained, world, expired, keyVars,
                 sinkVars, handler, seen>>

Cancel(a) == pc[a] \in Stages \cup {"ready"} /\ ~aborted[a] /\ Abort(a)

Timeout(a) == pc[a] \in Stages /\ ~aborted[a] /\ Abort(a)

(***************************************************************************)
(* The dependencies.  A call the gate has abandoned changes no promise, but *)
(* a sink call and a handler go on and have their effects.                  *)
(***************************************************************************)
Answer(a, status) ==
  /\ call' = [call EXCEPT ![a] = status]
  /\ UNCHANGED <<pc, aborted, evidence, session, decision, started, retained,
                 receipt, receiptRetained, world, expired, keyVars, authFile,
                 receiptFile, seen>>

\* What resolve() makes of the operator's state.
CurrentEvidence == IF world \in expired THEN NoEvidence ELSE world

EvidenceAnswers(a) ==
  /\ pc[a] \in {"evidence", "revalidate"} /\ call[a] = "pending"
  /\ CurrentEvidence # NoEvidence
  /\ reply' = [reply EXCEPT ![a] = CurrentEvidence]
  /\ Answer(a, "answered")
  /\ UNCHANGED <<writing, handler>>

EvidenceRejects(a) ==
  /\ pc[a] \in {"evidence", "revalidate"} /\ call[a] = "pending"
  /\ Answer(a, "rejected")
  /\ UNCHANGED <<reply, writing, handler>>

PreconditionAnswers(a, holds) ==
  /\ pc[a] = "precondition" /\ call[a] = "pending"
  /\ Answer(a, IF holds THEN "answered" ELSE "rejected")
  /\ UNCHANGED <<reply, writing, handler>>

\* The record and its directory entries are synced.
SinkStores(a, record) ==
  /\ record \in writing[a]
  /\ \/ /\ record = "authorization"
        /\ authFile' = [authFile EXCEPT ![a] = TRUE]
        /\ UNCHANGED receiptFile
     \/ /\ record = "receipt"
        /\ receiptFile' = [receiptFile EXCEPT ![a] = receipt[a]]
        /\ UNCHANGED authFile
  /\ UNCHANGED <<localVars, world, expired, keyVars, writing, handler, seen>>

Stored(a, record) ==
  IF record = "authorization" THEN authFile[a] ELSE receiptFile[a] # NoReceipt

\* The await of the attempt that a sink call settles, if it still waits.
Awaits(a, record) ==
  call[a] = "pending"
    /\ pc[a] = (IF record = "authorization" THEN "retain" ELSE "receipt")

\* A sink call ends; it acknowledges only what it stored, and may fail
\* whether or not it stored it.
SinkSettles(a, record, acknowledges) ==
  /\ record \in writing[a]
  /\ acknowledges => Stored(a, record)
  /\ writing' = [writing EXCEPT ![a] = @ \ {record}]
  /\ Answer(a, IF ~Awaits(a, record) THEN call[a]
               ELSE IF acknowledges THEN "answered" ELSE "rejected")
  /\ UNCHANGED <<reply, handler>>

HandlerSettles(a, result) ==
  /\ handler[a] = "running"
  /\ handler' = [handler EXCEPT ![a] = result]
  /\ Answer(a, IF pc[a] # "invoke" \/ call[a] # "pending" THEN call[a]
               ELSE IF result = "threw" THEN "rejected" ELSE "answered")
  /\ UNCHANGED <<reply, writing>>

-----------------------------------------------------------------------------
(***************************************************************************)
(* The world: the operator's state, the clock, the key store, the process. *)
(***************************************************************************)
WorldChanges(e) ==
  /\ e # world
  /\ world' = e
  /\ seen' = [a \in Attempts |-> IF retained[a] THEN seen[a] \cup {e}
                                               ELSE seen[a]]
  /\ UNCHANGED <<localVars, expired, keyVars, sinkVars, handler>>

EvidenceExpires(e) ==
  /\ e \notin expired
  /\ expired' = expired \cup {e}
  /\ UNCHANGED <<localVars, world, keyVars, sinkVars, handler, seen>>

\* A rotation or revocation begins, the store is closed or faults, or the
\* lifetime of the active key ends.
KeysUnusable ==
  /\ keysUsable
  /\ keysUsable' = FALSE
  /\ UNCHANGED <<localVars, world, expired, epoch, sinkVars, handler, seen>>

\* The store is usable again, with new keys or, after a rejected change, the
\* same ones.
KeysUsable(changed) ==
  /\ ~keysUsable
  /\ keysUsable' = TRUE
  /\ IF changed THEN epoch < MaxEpoch /\ epoch' = epoch + 1
                ELSE UNCHANGED epoch
  /\ UNCHANGED <<localVars, world, expired, sinkVars, handler, seen>>

\* The process dies with every attempt in it; files and external effects stay.
Crash ==
  /\ pc' = [a \in Attempts |-> IF pc[a] \in Active THEN "lost" ELSE pc[a]]
  /\ call' = [a \in Attempts |-> "none"]
  /\ writing' = [a \in Attempts |-> {}]
  /\ handler' = [a \in Attempts |->
                   IF handler[a] = "running" THEN "killed" ELSE handler[a]]
  /\ UNCHANGED <<aborted, reply, evidence, session, decision, started,
                 retained, receipt, receiptRetained, world, expired, keyVars,
                 authFile, receiptFile, seen>>

-----------------------------------------------------------------------------
Segment(a) ==
  \/ StageFails(a) \/ StageInterrupted(a)
  \/ EvaluationUnavailable(a) \/ Deny(a) \/ SigningUnavailable(a)
  \/ Authorize(a) \/ AuthorizationRetained(a) \/ Revalidated(a)
  \/ Dispatch(a) \/ RefuseDispatch(a)
  \/ Complete(a) \/ InvokeUnresolved(a) \/ ReceiptSettled(a)

Dependency(a) ==
  \/ EvidenceAnswers(a) \/ EvidenceRejects(a)
  \/ \E holds \in BOOLEAN : PreconditionAnswers(a, holds)
  \/ \E record \in {"authorization", "receipt"} :
       \/ SinkStores(a, record)
       \/ \E acknowledges \in BOOLEAN : SinkSettles(a, record, acknowledges)
  \/ \E result \in {"succeeded", "reported_failure", "threw"} :
       HandlerSettles(a, result)

Environment ==
  \/ \E e \in Evidence \cup {NoEvidence} : WorldChanges(e)
  \/ \E e \in Evidence : EvidenceExpires(e)
  \/ KeysUnusable
  \/ \E changed \in BOOLEAN : KeysUsable(changed)
  \/ Crash

Next ==
  \/ \E a \in Attempts :
       \/ \E wellFormed \in BOOLEAN : Begin(a, wellFormed)
       \/ Segment(a) \/ ReceiptTimeout(a)
       \/ Cancel(a) \/ Timeout(a)
       \/ Dependency(a)
  \/ Environment

Spec == Init /\ [][Next]_vars

\* The event loop runs a segment whose promise has settled, and timers fire.
\* Nothing is assumed of the provider, the sink, the handler or the caller.
Fairness ==
  \A a \in Attempts : /\ WF_vars(Segment(a))
                      /\ WF_vars(Timeout(a))
                      /\ WF_vars(ReceiptTimeout(a))

FairSpec == Spec /\ Fairness

-----------------------------------------------------------------------------
(***************************************************************************)
(* Properties                                                              *)
(***************************************************************************)

\* A handler has been called only if the policy allowed the bound evidence and
\* the signed authorization is durable; it then stays on disk whatever comes
\* later, so an effect interrupted by a crash is always attributable
\* (execute(): retain_authorization is awaited and checked before invoke).
DispatchHasRecord ==
  \A a \in Attempts :
    started[a] => /\ authFile[a]
                  /\ decision[a] = "ALLOWED"
                  /\ evidence[a] \in Permitted

\* The call of the handler happens on evidence that was current at some moment
\* after the authorization was acknowledged and whose references have not
\* expired, with the very keys that signed still usable, and never for an
\* aborted attempt (execute(): revalidate_evidence and the checks in invoke).
DispatchIsFresh ==
  [][\A a \in Attempts :
       ~started[a] /\ started'[a] =>
         /\ evidence[a] \in seen[a] \ expired
         /\ keysUsable /\ session[a] = epoch
         /\ ~aborted[a]]_vars

\* The handler of an attempt is called at most once, and never after its
\* outcome has been decided (execute(): one invoke stage, no retry).
AtMostOneDispatch ==
  [][\A a \in Attempts :
       handler[a] # "running" /\ handler'[a] = "running" =>
         handler[a] = "none" /\ receipt[a] = NoReceipt]_vars

\* What a receipt says stays true for good: "not_started" if and only if the
\* handler was and will never be called, a reported outcome only if the
\* handler reported it, and CANCELLED_BEFORE_DISPATCH only without a dispatch
\* (execute(): catch block, outcome and receipt).
ReceiptTruthful ==
  \A a \in Attempts :
    receipt[a] # NoReceipt =>
      /\ (receipt[a].outcome = "not_started") <=> (handler[a] = "none")
      /\ receipt[a].eligible <=> started[a]
      /\ receipt[a].outcome = "reported_success" => handler[a] = "succeeded"
      /\ receipt[a].outcome = "reported_failure" =>
           handler[a] = "reported_failure"
      /\ receipt[a].reason = "CANCELLED_AFTER_DISPATCH" => started[a]
      /\ receipt[a].reason = "CANCELLED_BEFORE_DISPATCH" => ~started[a]

\* A receipt on disk is the one the caller was given, and never lacks its
\* authorization record (execute(): receipts only for retained authorizations).
ReceiptFollowsAuthorization ==
  \A a \in Attempts :
    receiptFile[a] # NoReceipt => receiptFile[a] = receipt[a] /\ authFile[a]

\* The result never claims a record that is not on disk, although an abandoned
\* write may put one there that the result does not claim (execute():
\* authorizationRetained, receiptRetained).
ClaimsAreBacked ==
  \A a \in Attempts :
    /\ retained[a] => authFile[a]
    /\ receiptRetained[a] => receiptFile[a] = receipt[a]
    /\ receipt[a] # NoReceipt => (receipt[a].authorized <=> retained[a])

\* Every call of execute() returns (or its process dies), even if the provider,
\* the sink, the precondition and the handler never answer (execute():
\* timeoutMs and the receipt timer).
EveryAttemptSettles ==
  \A a \in Attempts : pc[a] \in Active ~> pc[a] \in {"done", "lost"}

=============================================================================
