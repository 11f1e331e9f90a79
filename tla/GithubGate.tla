------------------------------ MODULE GithubGate ------------------------------
(***************************************************************************)
(* A job whose consequences stand behind GitHub Action gates               *)
(* (integrations/github-action/gate.mjs).  Each gate adjudicates a request, *)
(* leaves a signed proof in the workspace if it has a key, appends outputs *)
(* for the conditions of later steps and succeeds or fails.  The job       *)
(* around it is the documented one: gate, verification of the proof,       *)
(* consequence, and in the end retention of what is found at the path.     *)
(*                                                                         *)
(* Nothing else runs in the workspace meanwhile, but a gate can be killed  *)
(* at any point, and its writes can fail.                                  *)
(***************************************************************************)
EXTENDS ProofFormats

CONSTANTS
  Requests,    \* intents with their evidence
  Permitted,   \* those that the compiled policy allows
  Keys,        \* usable signing keys
  Signed,      \* bundles that earlier runs have signed
  Earlier,     \* what may be at the path when the job starts
  Gates        \* number of gates in the job

ASSUME GateAssumption ==
  /\ Permitted \subseteq Requests
  /\ Gates \in Nat \ {0}

\* The message of a bundle is what one of the signing functions makes of it.
Genuine(b) ==
  b.signature \in
    IF IsV2(b) THEN {Signature(b.key_id, Pae("v2", b.payload))}
    ELSE {Signature(b.key_id, NodeText(b.envelope)),
          Signature(b.key_id, PythonText(b.envelope))}

\* Signatures cannot be forged: those in the workspace are of earlier runs.  All
\* else in a file may be changed.
ASSUME SignatureAssumption ==
  /\ \A s \in Signed : Genuine(s)
  /\ \A b \in Earlier \ {Cut} :
       "signature" \in DOMAIN b => \E s \in Signed : s.signature = b.signature

\* The fields of an envelope are always the same.
ASSUME EnvelopeAssumption ==
  \A b \in Earlier \ {Cut} :
    "envelope" \in DOMAIN b =>
      LET e == b.envelope IN
      e.ascii \in BOOLEAN /\ e = Envelope(e.request, e.ascii, e.proposed, e)

VARIABLES
  parent,      \* what is at the proof path's directory
  target,      \* what is at the proof path itself
  file,        \* content of the regular file at the path
  linked,      \* content of the file that an alias leads to
  gate,        \* index of the current gate
  input,       \* its request and its key
  stage,       \* how far the job is; see Stages
  result,      \* the gate's decision and bundle
  outputs,     \* what the gate has appended to the outputs file
  failed,      \* whether a step of the job has failed
  ran,         \* history: gates whose consequence has run
  retained     \* what the job retains in the end

place == <<parent, target, file, linked>>
vars == <<parent, target, file, linked, gate, input, stage, result, outputs,
          failed, ran, retained>>

-----------------------------------------------------------------------------
Stages == {"start", "place", "open", "write", "output", "exit", "verify",
           "consequence", "next", "end"}

NoKey == "no key"
BadKey == "unusable key"

\* A request is either refused as invalid or adjudicated.
Inputs == [request : Requests, valid : BOOLEAN, key : Keys \cup {NoKey, BadKey}]

NoInput == [valid |-> FALSE, key |-> NoKey]

NoResult == [decision |-> "none", bundle |-> {}]

OutputNames == {"decision", "reason-code", "latency-us", "proof-path"}

Init ==
  /\ parent \in {"directory", "missing", "file", "link", "outside"}
  /\ target \in {"missing", "file", "shared", "link", "directory"}
  /\ parent \in {"missing", "file"} => target = "missing"
  /\ IF target = "file" THEN file \in Earlier ELSE file = Nothing
  /\ linked = Cut
  /\ gate = 1
  /\ input = NoInput
  /\ stage = "start"
  /\ result = NoResult
  /\ outputs = {}
  /\ failed = FALSE
  /\ ran = {}
  /\ retained = Nothing

-----------------------------------------------------------------------------
(***************************************************************************)
(* The gate                                                                *)
(***************************************************************************)
Stage(from, to) == stage = from /\ stage' = to

\* fail(), an exception, or a signal: what follows is what always runs.
Fail(from) == Stage(from, "verify") /\ failed' = TRUE

Decided(request) ==
  IF request \in Permitted
  THEN [decision |-> "ALLOWED", reason_code |-> "POLICY_SATISFIED"]
  ELSE [decision |-> "DENIED", reason_code |-> "E_EVIDENCE_MISSING"]

\* Mutant: two decisions of a job have one identity.
RecordOfJob(i, request) ==
  [request_id |-> 1, intent |-> {request},
   decision |-> Decided(request).decision,
   reason_code |-> Decided(request).reason_code,
   policy_digest |-> Digest(2, "default policy"),
   action |-> {}, action_digest |-> {}, evidence |-> {}]

\* The record that govern() signs for a request of this gate.
GateRecord(i, request) ==
  [request_id |-> i, intent |-> {request},
   decision |-> Decided(request).decision,
   reason_code |-> Decided(request).reason_code,
   policy_digest |-> Digest(2, "default policy"),
   action |-> {}, action_digest |-> {}, evidence |-> {}]

\* govern() decides even if it cannot sign.
Governed(i, in) ==
  [decision |-> Decided(in.request).decision,
   bundle |-> IF in.key \in Keys THEN SignV2(GateRecord(i, in.request), in.key)
                                 ELSE {}]

\* Mutant: a failure to sign is not a failure of the step.
AdjudicateUnsigned(in) ==
  /\ input' = in
  /\ IF ~in.valid
     THEN Fail("start") /\ UNCHANGED result
     ELSE /\ Stage("start", IF Governed(gate, in).bundle = {} THEN "output"
                                                              ELSE "place")
          /\ result' = Governed(gate, in)
          /\ UNCHANGED failed
  /\ outputs' = {}
  /\ UNCHANGED <<place, gate, ran, retained>>

Adjudicate(in) ==
  LET unsigned == in.key # NoKey /\ Governed(gate, in).bundle = {} IN
  /\ input' = in
  /\ IF ~in.valid \/ unsigned
     THEN Fail("start") /\ UNCHANGED result
     ELSE /\ Stage("start", IF in.key = NoKey THEN "output" ELSE "place")
          /\ result' = Governed(gate, in)
          /\ UNCHANGED failed
  /\ outputs' = {}
  /\ UNCHANGED <<place, gate, ran, retained>>

\* A missing directory is made before the file is looked at.
SafeParent ==
  /\ parent \in {"directory", "missing"}
  /\ parent' = "directory"

\* Mutant: a symbolic link is taken for the file it leads to (stat for lstat).
SafeTargetFollowed == target \in {"missing", "file", "link"}

SafeTarget == target \in {"missing", "file"}

\* writeProof as far as it only looks.
CheckPlace ==
  /\ \/ SafeParent /\ SafeTarget /\ Stage("place", "open") /\ UNCHANGED failed
     \/ SafeParent /\ ~SafeTarget /\ Fail("place")
     \/ parent \notin {"directory", "missing"} /\ Fail("place")
        /\ UNCHANGED parent
  /\ UNCHANGED <<target, file, linked, gate, input, result, outputs, ran,
                 retained>>

\* What is written goes elsewhere if the file has another name, or if the path
\* leads on by a symbolic link; the open follows one where the platform has no
\* O_NOFOLLOW, so that only the checks before it are in the way.
LeadsElsewhere == target \in {"shared", "link"} \/ parent # "directory"

WriteFile(content) ==
  IF LeadsElsewhere
  THEN linked' = content /\ UNCHANGED <<target, file>>
  ELSE file' = content /\ target' = "file" /\ UNCHANGED linked

\* Opening the file truncates it.
Open ==
  /\ Stage("open", "write")
  /\ WriteFile(Cut)
  /\ UNCHANGED <<parent, gate, input, result, outputs, failed, ran, retained>>

Write ==
  /\ Stage("write", "output")
  /\ \E b \in result.bundle : WriteFile(b)
  /\ UNCHANGED <<parent, gate, input, result, outputs, failed, ran, retained>>

\* Outputs are appended one by one, in the order of the code.
NextOutput(name) ==
  CASE name = "decision" -> outputs = {}
    [] name = "reason-code" -> outputs = {"decision"}
    [] name = "latency-us" -> outputs = {"decision", "reason-code"}
    [] name = "proof-path" ->
         /\ outputs = {"decision", "reason-code", "latency-us"}
         /\ input.key # NoKey

Append(name) ==
  /\ stage = "output" /\ NextOutput(name)
  /\ outputs' = outputs \cup {name}
  /\ UNCHANGED <<place, gate, input, stage, result, failed, ran, retained>>

OutputsDone == \A name \in OutputNames : ~NextOutput(name)

\* Mutant: the step succeeds whatever the decision.
ExitZero ==
  /\ OutputsDone
  /\ Stage("output", "verify")
  /\ UNCHANGED <<place, gate, input, result, outputs, failed, ran, retained>>

\* A denial is an exit code of its own after all outputs.
Exit ==
  /\ OutputsDone
  /\ Stage("output", "verify")
  /\ failed' = (failed \/ result.decision # "ALLOWED")
  /\ UNCHANGED <<place, gate, input, result, outputs, ran, retained>>

\* A write fails, or the process is killed.
Interrupt ==
  /\ \E s \in {"place", "open", "write", "output"} : Fail(s)
  /\ UNCHANGED <<place, gate, input, result, outputs, ran, retained>>

-----------------------------------------------------------------------------
(***************************************************************************)
(* The job around the gates                                                *)
(***************************************************************************)
AtPath == IF target \in {"shared", "link"} THEN linked ELSE file

\* `always()`, if there is a file; with the public key of some signer.
VerifyProof(key) ==
  /\ Stage("verify", "consequence")
  /\ AtPath # Nothing
  /\ failed' = (failed \/ ~NodeAccepts(AtPath, key))
  /\ UNCHANGED <<place, gate, input, result, outputs, ran, retained>>

SkipVerification ==
  /\ Stage("verify", "consequence")
  /\ UNCHANGED <<place, gate, input, result, outputs, failed, ran, retained>>

\* The normal condition, or a custom one that reads the decision output.
DecisionIsAllowed == "decision" \in outputs /\ result.decision = "ALLOWED"

Consequence ==
  /\ Stage("consequence", "next")
  /\ ~failed \/ DecisionIsAllowed
  /\ ran' = ran \cup {gate}
  /\ UNCHANGED <<place, gate, input, result, outputs, failed, retained>>

SkipConsequence ==
  /\ Stage("consequence", "next")
  /\ failed
  /\ UNCHANGED <<place, gate, input, result, outputs, failed, ran, retained>>

NextGate ==
  /\ Stage("next", "start")
  /\ ~failed /\ gate < Gates
  /\ gate' = gate + 1
  /\ input' = NoInput /\ result' = NoResult /\ outputs' = {}
  /\ UNCHANGED <<place, failed, ran, retained>>

\* `always()`: whatever is found at the path is uploaded.
Retain ==
  /\ Stage("next", "end")
  /\ failed \/ gate = Gates
  /\ retained' = AtPath
  /\ UNCHANGED <<place, gate, input, result, outputs, failed, ran>>

Next ==
  \/ \E in \in Inputs : Adjudicate(in)
  \/ CheckPlace \/ Open \/ Write
  \/ \E name \in OutputNames : Append(name)
  \/ Exit \/ Interrupt
  \/ \E key \in Keys : VerifyProof(key)
  \/ SkipVerification
  \/ Consequence \/ SkipConsequence
  \/ NextGate \/ Retain

Spec == Init /\ [][Next]_vars

-----------------------------------------------------------------------------
(***************************************************************************)
(* Properties                                                              *)
(***************************************************************************)
Places == {"directory", "missing", "file", "shared", "link", "outside"}

Bundles ==
  UNION {SignV2(GateRecord(i, request), key) :
           i \in 1..Gates, request \in Requests, key \in Keys}

Contents == Earlier \cup Bundles \cup {Nothing, Cut}

TypeOK ==
  /\ parent \in Places /\ target \in Places
  /\ file \in Contents /\ linked \in Contents /\ retained \in Contents
  /\ gate \in 1..Gates
  /\ input \in Inputs \cup {NoInput}
  /\ stage \in Stages
  /\ result.decision \in {"none", "ALLOWED", "DENIED"}
  /\ result.bundle \in SUBSET Bundles
  /\ outputs \subseteq OutputNames
  /\ failed \in BOOLEAN
  /\ ran \subseteq 1..Gates

\* The proof of the current gate's own decision.
OwnProof == SignV2(GateRecord(gate, input.request), input.key)

\* Once anything has been output of a gate that has a key, the complete proof of
\* its decision is in place: signing and path failures withhold the outputs,
\* and a failure at any later point leaves the proof (gate.mjs: the order of
\* writeProof, writeOutput and the exit).
OutputsFollowProof ==
  outputs # {} /\ input.key # NoKey =>
    input.key \in Keys /\ AtPath \in OwnProof

\* What a consequence runs on: a valid request that the policy permits, and the
\* complete proof of that, if proofs are asked for; under the normal condition
\* and under one that looks at the decision only, and whatever was found in
\* the workspace.
ConsequenceIsAuthorized ==
  [][ran' # ran =>
       /\ input.valid /\ input.request \in Permitted
       /\ input.key # NoKey => input.key \in Keys /\ AtPath \in OwnProof]_vars

\* Files that links in the workspace lead to are never written (writeProof).
LinkedFileUntouched == linked = Cut

\* What is retained after a gate that has a key has output its decision, denials
\* included, is accepted by both verifiers and says that decision, not one of
\* an earlier gate or an earlier run.
RetainedProvesDecision ==
  stage = "end" /\ outputs # {} /\ input.key # NoKey =>
    /\ NodeAccepts(retained, input.key) /\ PythonAccepts(retained, input.key)
    /\ retained.payload.record.request_id = gate
    /\ retained.payload.record.decision =
         IF input.request \in Permitted THEN "ALLOWED" ELSE "DENIED"

\* What a bundle authenticates.
Authenticated(b) ==
  IF IsV2(b) THEN b.payload ELSE [b.envelope EXCEPT !.proposed = {}]

\* A job goes on after verifying the file at the path only if the holder of that
\* key has signed what it says, whatever parts of other bundles, spellings or
\* remains of a write the file is made of (verify, verifyLegacy, verifyV2).
VerifiedIsSigned ==
  [][\A key \in Keys : VerifyProof(key) /\ ~failed' =>
       \E b \in Signed \cup Bundles :
         b.signature.by = key /\ IsV2(b) = IsV2(AtPath)
           /\ Authenticated(b) = Authenticated(AtPath)]_vars

\* Where the languages serialize differently; only in version 1.
LanguagesDiffer(b) ==
  /\ ~IsV2(b)
  /\ \/ b.kind = "null" \/ b.key_id = "not a text"
     \/ b.envelope.proposed # {} \/ ~b.envelope.ascii

\* Both verifiers accept the same files (verify.js, verify.py).
VerifiersAgree ==
  IsBundle(AtPath) /\ ~LanguagesDiffer(AtPath) =>
    \A key \in Keys : NodeAccepts(AtPath, key) <=> PythonAccepts(AtPath, key)

=============================================================================
