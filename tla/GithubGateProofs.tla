--------------------------- MODULE GithubGateProofs ---------------------------
(***************************************************************************)
(* Proofs about GithubGate for every number of gates, every set of keys    *)
(* and requests and whatever is found in the workspace.                    *)
(***************************************************************************)
EXTENDS GithubGate, TLAPS

USE GateAssumption

\* The one bundle that a usable key makes of a gate's decision.
ProofOf(i, request, key) ==
  LET payload == Payload(GateRecord(i, request), "plain") IN
  [kind |-> KindV2, payload_type |-> "v2", payload |-> payload,
   signature |-> Signature(key, Pae("v2", payload)), key_id |-> key,
   payload_hash |-> Pae("v2", payload)]

LEMMA RecordIsValid ==
  ASSUME NEW i, NEW request
  PROVE  ValidRecord(2, GateRecord(i, request))
<1> DEFINE r == GateRecord(i, request)
<1>1. DOMAIN r = RecordFields(2)
  BY DEF GateRecord, RecordFields, SharedFields
<1>2. r.decision = Decided(request).decision
      /\ r.reason_code = Decided(request).reason_code
  BY DEF GateRecord
<1>3. /\ r.decision \in {"ALLOWED", "DENIED"}
      /\ r.decision = "ALLOWED" <=> r.reason_code = "POLICY_SATISFIED"
  BY <1>2 DEF Decided
<1>4. r.intent # {} /\ r.policy_digest[1] = 2
  BY DEF GateRecord, Digest
<1>5. r.action_digest = {Digest(2, a) : a \in r.action}
  BY DEF GateRecord
<1> QED  BY <1>1, <1>3, <1>4, <1>5 DEF ValidRecord

LEMMA OneProof ==
  ASSUME NEW i, NEW request, NEW key
  PROVE  SignV2(GateRecord(i, request), key) = {ProofOf(i, request, key)}
BY RecordIsValid DEF SignV2, ProofOf

\* Both verifiers accept that bundle under its key.
LEMMA ProofVerifies ==
  ASSUME NEW i, NEW request, NEW key
  PROVE  LET b == ProofOf(i, request, key) IN
         /\ NodeAccepts(b, key) /\ PythonAccepts(b, key)
         /\ b.payload.record = GateRecord(i, request)
<1> DEFINE b == ProofOf(i, request, key)
           p == Payload(GateRecord(i, request), "plain")
<1>1. /\ DOMAIN b = BundleFields
      /\ b.kind = KindV2 /\ b.payload_type = "v2" /\ b.payload = p
      /\ b.signature = Signature(key, Pae("v2", p))
      /\ b.key_id = key /\ b.payload_hash = Pae("v2", p)
  BY DEF ProofOf, BundleFields
<1>2. b # Nothing /\ b # Cut
  <2>1. Nothing.kind = "no file" /\ Cut.kind = "cut off"
    BY DEF Nothing, Cut
  <2>2. b.kind # Nothing.kind /\ b.kind # Cut.kind
    BY <1>1, <2>1 DEF KindV2
  <2>3. b = Nothing => b.kind = Nothing.kind
    OBVIOUS
  <2>4. b = Cut => b.kind = Cut.kind
    OBVIOUS
  <2> HIDE DEF b
  <2> QED  BY <2>2, <2>3, <2>4
<1>3. p.record = GateRecord(i, request) /\ Parses(p)
  BY DEF Payload, Parses
<1>4. ValidRecord(2, p.record)
  BY <1>3, RecordIsValid
<1>5. VerifyV2(b, key) /\ PythonVerifyV2(b, key)
  BY <1>1, <1>3, <1>4 DEF VerifyV2, PythonVerifyV2, PreparedV2, IsSignature
<1>6. IsV2(b)
  BY <1>1 DEF IsV2
<1> QED  BY <1>1, <1>2, <1>3, <1>5, <1>6
         DEF NodeAccepts, PythonAccepts, NodeVerify, PythonVerify, IsBundle

LEMMA ProofsAreBundles ==
  ASSUME NEW i \in 1..Gates, NEW request \in Requests, NEW key \in Keys
  PROVE  ProofOf(i, request, key) \in Bundles
BY OneProof DEF Bundles

-----------------------------------------------------------------------------
\* The gate has adjudicated its input.
Adjudicated ==
  /\ input \in Inputs /\ input.valid
  /\ result = Governed(gate, input)
  /\ input.key # NoKey => input.key \in Keys

ProofInPlace ==
  /\ target = "file"
  /\ file = ProofOf(gate, input.request, input.key)

StageInv ==
  /\ stage \in {"place", "open", "write"} =>
       Adjudicated /\ outputs = {} /\ input.key # NoKey /\ ~failed
  /\ stage \in {"open", "write"} => parent = "directory"
  /\ stage = "open" => target \in {"missing", "file"}
  /\ stage = "write" => target = "file"
  /\ stage = "output" =>
       Adjudicated /\ ~failed /\ (input.key # NoKey => ProofInPlace)
  /\ stage = "start" => outputs = {} /\ ~failed
  /\ outputs # {} => Adjudicated /\ (input.key # NoKey => ProofInPlace)
  /\ stage \in {"verify", "consequence", "next"} /\ ~failed =>
       outputs # {} /\ result.decision = "ALLOWED"
  /\ stage = "end" => retained = AtPath

IInv == TypeOK /\ linked = Cut /\ StageInv

LEMMA GovernedType ==
  ASSUME NEW i \in 1..Gates, NEW in \in Inputs
  PROVE  /\ Governed(i, in).decision \in {"ALLOWED", "DENIED"}
         /\ Governed(i, in).bundle \in SUBSET Bundles
         /\ in.key \in Keys =>
              Governed(i, in).bundle = {ProofOf(i, in.request, in.key)}
         /\ in.key \notin Keys => Governed(i, in).bundle = {}
         /\ Governed(i, in).decision = "ALLOWED" => in.request \in Permitted
<1>1. in.request \in Requests
  BY DEF Inputs
<1> QED  BY <1>1, OneProof, ProofsAreBundles DEF Governed, Decided

LEMMA TypeStep == ASSUME IInv, [Next]_vars PROVE TypeOK'
<1> USE DEF IInv, TypeOK, Stages, place, vars, Stage, Fail, Places, Contents
<1>1. ASSUME NEW in \in Inputs, Adjudicate(in)  PROVE TypeOK'
  <2>1. input' \in Inputs /\ outputs' = {} /\ stage' \in Stages
        /\ failed' \in BOOLEAN
    BY <1>1 DEF Adjudicate
  <2>2. result' = result \/ result' = Governed(gate, in)
    BY <1>1 DEF Adjudicate
  <2>3. /\ result'.decision \in {"none", "ALLOWED", "DENIED"}
        /\ result'.bundle \in SUBSET Bundles
    BY <2>2, GovernedType
  <2>4. UNCHANGED <<place, gate, ran, retained>>
    BY <1>1 DEF Adjudicate
  <2> QED  BY <2>1, <2>3, <2>4
<1>2. CASE CheckPlace
  <2>1. parent' \in Places
    BY <1>2 DEF CheckPlace, SafeParent
  <2>2. stage' \in Stages
    BY <1>2 DEF CheckPlace
  <2>3. failed' \in BOOLEAN
    BY <1>2 DEF CheckPlace
  <2>4. UNCHANGED <<target, file, linked, gate, input, result, outputs, ran,
                    retained>>
    BY <1>2 DEF CheckPlace
  <2> QED  BY <2>1, <2>2, <2>3, <2>4
<1>3. CASE Open
  BY <1>3 DEF Open, WriteFile, LeadsElsewhere
<1>4. CASE Write
  BY <1>4 DEF Write, WriteFile, LeadsElsewhere
<1>5. ASSUME NEW name \in OutputNames, Append(name)  PROVE TypeOK'
  BY <1>5 DEF Append
<1>6. CASE Exit
  BY <1>6 DEF Exit
<1>7. CASE Interrupt
  BY <1>7 DEF Interrupt
<1>8. ASSUME NEW key \in Keys, VerifyProof(key)  PROVE TypeOK'
  BY <1>8 DEF VerifyProof
<1>9. CASE SkipVerification
  BY <1>9 DEF SkipVerification
<1>10. CASE Consequence
  BY <1>10 DEF Consequence
<1>11. CASE SkipConsequence
  BY <1>11 DEF SkipConsequence
<1>12. CASE NextGate
  BY <1>12 DEF NextGate, NoResult
<1>13. CASE Retain
  BY <1>13 DEF Retain, AtPath
<1>14. CASE UNCHANGED vars
  BY <1>14
<1> QED  BY <1>1, <1>2, <1>3, <1>4, <1>5, <1>6, <1>7, <1>8, <1>9, <1>10, <1>11,
            <1>12, <1>13, <1>14 DEF Next

LEMMA LinkedStep == ASSUME IInv, [Next]_vars PROVE linked' = linked
BY DEF IInv, StageInv, vars, place, Next, Adjudicate, CheckPlace, Open, Write,
       WriteFile, LeadsElsewhere, Append, Exit, Interrupt, VerifyProof, SkipVerification,
       Consequence, SkipConsequence, NextGate, Retain, Stage

LEMMA StageStep == ASSUME IInv, [Next]_vars PROVE StageInv'
<1> USE DEF IInv, StageInv, place, vars, Stage, Fail, Adjudicated, ProofInPlace
<1>1. ASSUME NEW in \in Inputs, Adjudicate(in)  PROVE StageInv'
  <2>1. gate \in 1..Gates
    BY DEF TypeOK
  <2> QED  BY <1>1, <2>1, GovernedType DEF Adjudicate
<1>2. CASE CheckPlace
  BY <1>2 DEF CheckPlace, SafeParent, SafeTarget
<1>3. CASE Open
  BY <1>3 DEF Open, WriteFile, LeadsElsewhere
<1>4. CASE Write
  <2>1. result.bundle = {ProofOf(gate, input.request, input.key)}
    BY <1>4, GovernedType DEF Write, TypeOK
  <2> QED  BY <1>4, <2>1 DEF Write, WriteFile, LeadsElsewhere
<1>5. ASSUME NEW name \in OutputNames, Append(name)  PROVE StageInv'
  BY <1>5 DEF Append
<1>6. CASE Exit
  <2>1. outputs # {}
    BY <1>6 DEF Exit, OutputsDone, NextOutput, OutputNames
  <2>2. failed' => ~(~failed')
    OBVIOUS
  <2> QED  BY <1>6, <2>1 DEF Exit, TypeOK
<1>7. CASE Interrupt
  BY <1>7 DEF Interrupt
<1>8. ASSUME NEW key \in Keys, VerifyProof(key)  PROVE StageInv'
  BY <1>8 DEF VerifyProof
<1>9. CASE SkipVerification
  BY <1>9 DEF SkipVerification
<1>10. CASE Consequence
  BY <1>10 DEF Consequence
<1>11. CASE SkipConsequence
  BY <1>11 DEF SkipConsequence
<1>12. CASE NextGate
  BY <1>12 DEF NextGate
<1>13. CASE Retain
  BY <1>13 DEF Retain, AtPath
<1>14. CASE UNCHANGED vars
  BY <1>14 DEF AtPath
<1> QED  BY <1>1, <1>2, <1>3, <1>4, <1>5, <1>6, <1>7, <1>8, <1>9, <1>10, <1>11,
            <1>12, <1>13, <1>14 DEF Next

LEMMA Inductive == Spec => []IInv
<1>1. Init => IInv
  <2> SUFFICES ASSUME Init PROVE IInv
    OBVIOUS
  <2>1. /\ parent \in Places /\ target \in Places /\ gate \in 1..Gates
        /\ stage \in Stages /\ outputs \subseteq OutputNames
        /\ failed \in BOOLEAN /\ ran \subseteq 1..Gates
        /\ input \in Inputs \cup {NoInput}
    <3>1. gate \in 1..Gates
      BY DEF Init
    <3>2. parent \in Places /\ target \in Places /\ stage \in Stages
      BY DEF Init, Places, Stages
    <3> QED  BY <3>1, <3>2 DEF Init
  <2>2. file \in Contents /\ linked \in Contents /\ retained \in Contents
    BY DEF Init, Contents
  <2>3. result.decision = "none" /\ result.bundle = {}
    BY DEF Init, NoResult
  <2>4. stage = "start" /\ outputs = {} /\ ~failed /\ linked = Cut
    BY DEF Init
  <2>5. StageInv
    BY <2>4 DEF StageInv
  <2> QED  BY <2>1, <2>2, <2>3, <2>4, <2>5 DEF IInv, TypeOK
<1>2. IInv /\ [Next]_vars => IInv'
  BY TypeStep, LinkedStep, StageStep DEF IInv
<1> QED  BY <1>1, <1>2, PTL DEF Spec

-----------------------------------------------------------------------------
\* Every variable keeps its type.
THEOREM TypeCorrect == Spec => []TypeOK
BY Inductive, PTL DEF IInv

\* LinkedFileUntouched for every instance: no file behind a link is written.
THEOREM LinkedUntouched == Spec => []LinkedFileUntouched
<1>1. IInv => LinkedFileUntouched
  BY DEF IInv, LinkedFileUntouched
<1> QED  BY <1>1, Inductive, PTL

\* OutputsFollowProof for every instance: a gate that has a key outputs nothing
\* before its complete proof is in place.
THEOREM OutputsFollow == Spec => []OutputsFollowProof
<1>1. IInv => OutputsFollowProof
  BY OneProof DEF IInv, StageInv, Adjudicated, ProofInPlace, OutputsFollowProof,
                  OwnProof, AtPath
<1> QED  BY <1>1, Inductive, PTL

\* ConsequenceIsAuthorized for every instance: a consequence runs on a valid,
\* permitted request, with its proof in place if proofs are asked for.
THEOREM Authorized == Spec => ConsequenceIsAuthorized
<1> DEFINE A == /\ input.valid /\ input.request \in Permitted
                /\ input.key # NoKey => input.key \in Keys /\ AtPath \in OwnProof
<1>1. ASSUME IInv, Consequence  PROVE A
  <2>1. outputs # {} /\ result.decision = "ALLOWED"
    BY <1>1 DEF IInv, StageInv, Consequence, Stage, DecisionIsAllowed
  <2>2. Adjudicated /\ (input.key # NoKey => ProofInPlace) /\ gate \in 1..Gates
    BY <1>1, <2>1 DEF IInv, StageInv, TypeOK
  <2>3. input.request \in Permitted
    BY <2>1, <2>2, GovernedType DEF Adjudicated
  <2> QED  BY <2>2, <2>3, OneProof DEF Adjudicated, ProofInPlace, OwnProof, AtPath
<1>2. ASSUME [Next]_vars, ran' # ran  PROVE Consequence
  BY <1>2 DEF Next, vars, place, Adjudicate, CheckPlace, Open, Write, Append, Exit,
              Interrupt, VerifyProof, SkipVerification, SkipConsequence,
              NextGate, Retain
<1>3. IInv /\ [Next]_vars => (ran' # ran => A)
  BY <1>1, <1>2
<1> QED  BY <1>3, Inductive, PTL DEF Spec, ConsequenceIsAuthorized

\* RetainedProvesDecision for every instance: what is retained after a gate has
\* output its decision proves that decision to both verifiers.
THEOREM RetainedProves == Spec => []RetainedProvesDecision
<1>1. ASSUME IInv, stage = "end", outputs # {}, input.key # NoKey
      PROVE  /\ NodeAccepts(retained, input.key) /\ PythonAccepts(retained, input.key)
             /\ retained.payload.record.request_id = gate
             /\ retained.payload.record.decision =
                  IF input.request \in Permitted THEN "ALLOWED" ELSE "DENIED"
  <2>1. retained = ProofOf(gate, input.request, input.key)
    BY <1>1 DEF IInv, StageInv, ProofInPlace, AtPath
  <2>2. retained.payload.record = GateRecord(gate, input.request)
    BY <2>1, ProofVerifies
  <2>3. /\ retained.payload.record.request_id = gate
        /\ retained.payload.record.decision = Decided(input.request).decision
    <3>1. /\ GateRecord(gate, input.request).request_id = gate
          /\ GateRecord(gate, input.request).decision =
               Decided(input.request).decision
      BY DEF GateRecord
    <3> QED  BY <2>2, <3>1
  <2>4. Decided(input.request).decision =
          IF input.request \in Permitted THEN "ALLOWED" ELSE "DENIED"
    BY DEF Decided
  <2>5. NodeAccepts(retained, input.key) /\ PythonAccepts(retained, input.key)
    BY <2>1, ProofVerifies
  <2> QED  BY <2>3, <2>4, <2>5
<1>2. IInv => RetainedProvesDecision
  BY <1>1 DEF RetainedProvesDecision
<1> QED  BY <1>2, Inductive, PTL

-----------------------------------------------------------------------------
(***************************************************************************)
(* What the verifiers accept                                               *)
(***************************************************************************)
\* What is at the path is of an earlier run or of this job.
LEMMA FoundAtPath ==
  ASSUME TypeOK
  PROVE  AtPath \in Earlier \cup Bundles \cup {Nothing, Cut}
BY DEF TypeOK, Contents, AtPath

\* Every bundle of the job is a version 2 bundle with its signer's signature.
LEMMA BundleOfJob ==
  ASSUME NEW b \in Bundles
  PROVE  IsV2(b) /\ b.signature = Signature(b.key_id, Pae("v2", b.payload))
<1>1. PICK i \in 1..Gates, request \in Requests, key \in Keys :
        b \in SignV2(GateRecord(i, request), key)
  BY DEF Bundles
<1>2. b = ProofOf(i, request, key)
  BY <1>1, OneProof
<1>3. ProofOf(i, request, key).kind = KindV2
  BY DEF ProofOf
<1>4. ProofOf(i, request, key).signature =
        Signature(ProofOf(i, request, key).key_id,
                  Pae("v2", ProofOf(i, request, key).payload))
  BY DEF ProofOf
<1> QED  BY <1>2, <1>3, <1>4 DEF IsV2

\* Signers and what they sign can be told from a signature; the messages of the
\* two versions are never the same.
LEMMA MessagesDiffer ==
  ASSUME NEW k, NEW l, NEW payload, NEW e
  PROVE  /\ Signature(k, NodeText(e)) # Signature(l, Pae("v2", payload))
         /\ Signature(k, PythonText(e)) # Signature(l, Pae("v2", payload))
<1>1. DOMAIN Pae("v2", payload) = {"type", "bytes"}
  BY DEF Pae
<1>2. DOMAIN NodeText(e) = {"escaped", "fields"}
      /\ DOMAIN PythonText(e) = {"escaped", "fields"}
  BY DEF NodeText, PythonText
<1>3. /\ Signature(k, NodeText(e)).of = NodeText(e)
      /\ Signature(k, PythonText(e)).of = PythonText(e)
      /\ Signature(l, Pae("v2", payload)).of = Pae("v2", payload)
  BY DEF Signature
<1> QED  BY <1>1, <1>2, <1>3

\* What is signed of an envelope determines its top-level fields.
LEMMA TextDetermines ==
  ASSUME NEW d, NEW e, NEW k, NEW l,
         \/ Signature(k, NodeText(d)) = Signature(l, NodeText(e))
         \/ Signature(k, PythonText(d)) = Signature(l, NodeText(e))
  PROVE  /\ k = l
         /\ [d EXCEPT !.proposed = {}] = [e EXCEPT !.proposed = {}]
<1> DEFINE cut(x) == [x EXCEPT !.proposed = {}]
<1>1. /\ Signature(k, NodeText(d)).by = k
      /\ Signature(k, PythonText(d)).by = k
      /\ Signature(l, NodeText(e)).by = l
      /\ Signature(k, NodeText(d)).of.fields = cut(d)
      /\ Signature(k, PythonText(d)).of.fields = d
      /\ Signature(l, NodeText(e)).of.fields = cut(e)
  BY DEF Signature, NodeText, PythonText
<1>2. k = l /\ (cut(d) = cut(e) \/ d = cut(e))
  BY <1>1
<1>3. cut(cut(e)) = cut(e)
  OBVIOUS
<1> QED  BY <1>2, <1>3

\* The signer of what verifies has signed what it authenticates.
LEMMA AcceptedIsSigned ==
  ASSUME NEW b \in Earlier \cup Bundles, NEW key, NodeAccepts(b, key)
  PROVE  \E s \in Signed \cup Bundles :
           /\ s.signature.by = key /\ IsV2(s) = IsV2(b)
           /\ Authenticated(s) = Authenticated(b)
<1>1. b # Cut /\ NodeVerify(b, key)
  BY DEF NodeAccepts, IsBundle
<1>2. CASE b \in Bundles
  <2>1. VerifyV2(b, key)
    BY <1>1, <1>2, BundleOfJob DEF NodeVerify
  <2>2. b.signature.by = key
    BY <2>1 DEF VerifyV2, IsSignature, Signature
  <2> QED  BY <1>2, <2>2
<1>3. CASE b \in Earlier
  <2>1. "signature" \in DOMAIN b
    BY <1>1 DEF NodeVerify, VerifyV2, BundleFields, NodeVerifyLegacy,
                SubsetIsSigned, LegacyFields
  <2>2. PICK s \in Signed : s.signature = b.signature
    BY <1>1, <1>3, <2>1, SignatureAssumption
  <2>3. Genuine(s)
    BY SignatureAssumption
  <2>4. CASE IsV2(b)
    <3>1. b.signature = Signature(key, Pae("v2", b.payload))
      BY <1>1, <2>4 DEF NodeVerify, VerifyV2, IsSignature
    <3>2. IsV2(s)
      BY <2>2, <2>3, <3>1, MessagesDiffer DEF Genuine
    <3>3. s.signature = Signature(s.key_id, Pae("v2", s.payload))
      BY <2>3, <3>2 DEF Genuine
    <3>4. s.signature.by = key /\ s.payload = b.payload
      BY <2>2, <3>1, <3>3 DEF Signature, Pae
    <3> QED  BY <2>4, <3>2, <3>4 DEF Authenticated
  <2>5. CASE ~IsV2(b)
    <3>1. b.signature = Signature(key, NodeText(b.envelope))
      BY <1>1, <2>5 DEF NodeVerify, NodeVerifyLegacy, SubsetIsSigned, IsSignature
    <3>2. ~IsV2(s)
      BY <2>2, <2>3, <3>1, MessagesDiffer DEF Genuine
    <3>3. \/ Signature(s.key_id, NodeText(s.envelope)) =
               Signature(key, NodeText(b.envelope))
          \/ Signature(s.key_id, PythonText(s.envelope)) =
               Signature(key, NodeText(b.envelope))
      BY <2>2, <2>3, <3>1, <3>2 DEF Genuine
    <3>4. [s.envelope EXCEPT !.proposed = {}] = [b.envelope EXCEPT !.proposed = {}]
      BY <3>3, TextDetermines
    <3>5. s.signature.by = key
      BY <2>2, <3>1 DEF Signature
    <3>6. IsV2(s) = IsV2(b)
      BY <2>5, <3>2 DEF IsV2
    <3>7. Authenticated(s) = Authenticated(b)
      BY <2>5, <3>2, <3>4 DEF Authenticated
    <3> QED  BY <3>5, <3>6, <3>7
  <2> QED  BY <2>4, <2>5
<1> QED  BY <1>2, <1>3

\* VerifiedIsSigned for every workspace: after a verification the job goes on
\* only with what the holder of the key has signed, however the file at the
\* path is made up.
THEOREM VerifiedSigned == Spec => VerifiedIsSigned
<1> DEFINE A == \A key \in Keys : VerifyProof(key) /\ ~failed' =>
                  \E b \in Signed \cup Bundles :
                    b.signature.by = key /\ IsV2(b) = IsV2(AtPath)
                      /\ Authenticated(b) = Authenticated(AtPath)
<1>1. IInv => A
  <2> SUFFICES ASSUME TypeOK, NEW key \in Keys, VerifyProof(key), ~failed'
               PROVE  \E b \in Signed \cup Bundles :
                        b.signature.by = key /\ IsV2(b) = IsV2(AtPath)
                          /\ Authenticated(b) = Authenticated(AtPath)
    BY DEF IInv
  <2>1. NodeAccepts(AtPath, key)
    BY DEF VerifyProof
  <2>2. AtPath \in Earlier \cup Bundles
    BY <2>1, FoundAtPath DEF NodeAccepts, IsBundle
  <2> QED  BY <2>1, <2>2, AcceptedIsSigned
<1>2. IInv /\ [Next]_vars => [A]_vars
  BY <1>1
<1> QED  BY <1>2, Inductive, PTL DEF Spec, VerifiedIsSigned

\* Without nested fields and within ASCII the two languages sign the same text.
LEMMA TextsAgree ==
  ASSUME NEW e, e.ascii, e.proposed = {},
         e = Envelope(e.request, e.ascii, e.proposed, e)
  PROVE  NodeText(e) = PythonText(e)
<1>1. [e EXCEPT !.proposed = {}] = e
  BY DEF Envelope
<1>2. (~e.ascii) = FALSE
  OBVIOUS
<1> QED  BY <1>1, <1>2 DEF NodeText, PythonText

\* VerifiersAgree for every workspace: Node and Python accept the same files,
\* but for those that their serializations tell apart.
THEOREM VerifiersAgreed == Spec => []VerifiersAgree
<1>1. IInv => VerifiersAgree
  <2> SUFFICES ASSUME TypeOK, IsBundle(AtPath), ~LanguagesDiffer(AtPath),
                      NEW key \in Keys
               PROVE  NodeAccepts(AtPath, key) <=> PythonAccepts(AtPath, key)
    BY DEF IInv, VerifiersAgree
  <2> DEFINE b == AtPath
  <2>1. CASE IsV2(b)
    BY <2>1 DEF NodeAccepts, PythonAccepts, NodeVerify, PythonVerify, VerifyV2,
                PythonVerifyV2, PreparedV2
  <2>2. CASE ~IsV2(b)
    <3>1. b \in Earlier \ {Cut}
      BY <2>2, FoundAtPath, BundleOfJob DEF IsBundle
    <3>2. /\ b.kind # "null" /\ b.key_id # "not a text"
          /\ b.envelope.proposed = {} /\ b.envelope.ascii
      BY <2>2 DEF LanguagesDiffer
    <3>3. CASE "envelope" \in DOMAIN b
      <4>1. NodeText(b.envelope) = PythonText(b.envelope)
        BY <3>1, <3>2, <3>3, EnvelopeAssumption, TextsAgree
      <4>2. NodeVerifyLegacy(b, key) <=> PythonVerifyLegacy(b, key)
        BY <3>2, <4>1 DEF NodeVerifyLegacy, PythonVerifyLegacy
      <4> QED  BY <2>2, <3>2, <4>2
               DEF NodeAccepts, PythonAccepts, NodeVerify, PythonVerify
    <3>4. CASE "envelope" \notin DOMAIN b
      BY <2>2, <3>4 DEF NodeAccepts, PythonAccepts, NodeVerify, PythonVerify,
         NodeVerifyLegacy, PythonVerifyLegacy, SubsetIsSigned, LegacyFields
    <3> QED  BY <3>3, <3>4
  <2> QED  BY <2>1, <2>2
<1> QED  BY <1>1, Inductive, PTL

=============================================================================
