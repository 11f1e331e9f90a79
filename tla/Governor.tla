------------------------------- MODULE Governor -------------------------------
(***************************************************************************)
(* A governor (sdk/node/governor.js, sdk/python/vella/governor.py): it is  *)
(* created from an application's policy, of which it keeps a snapshot and  *)
(* a digest, and then decides requests and signs what it decides.          *)
(*                                                                         *)
(* The two languages are run side by side on the same policy and requests. *)
(* A digest is modelled by what it identifies, the policy itself.          *)
(***************************************************************************)
EXTENDS Evaluator

CONSTANTS
  Policies,   \* policy objects an application may pass
  Edits,      \* what it may turn its own object into later
  Requests    \* the requests made of a governor of each policy

RequestFields == {"intent_id", "intent", "action", "scope", "version", "evidence"}

PolicyFields == {"version", "defaultScope", "evidenceBits", "scopes"}

\* The keys of an object are distinct.
IsObject(entries) ==
  /\ DOMAIN entries = 1..Len(entries) /\ Len(entries) \in Nat
  /\ \A i, j \in DOMAIN entries : entries[i][1] = entries[j][1] => i = j

ASSUME GovernorAssumption ==
  /\ DOMAIN Requests = Policies \cup Edits
  /\ \A p \in Policies \cup Edits :
       /\ DOMAIN p = PolicyFields
       /\ IsObject(Entries(p.evidenceBits)) /\ IsObject(Entries(p.scopes))
       /\ \A i \in DOMAIN Entries(p.scopes) :
            IsObject(Entries(Entries(p.scopes)[i][2].intents))
       /\ \A r \in Requests[p] : DOMAIN r = RequestFields

VARIABLES
  object,     \* the application's policy object
  source,     \* history: the object when the governor was created
  governor,   \* the compiled snapshot, with the digest of the policy
  answer      \* the last request with both languages' answers

vars == <<object, source, governor, answer>>

-----------------------------------------------------------------------------
Absent == [kind |-> "absent"]
NoProof == [kind |-> "none"]

\* A value takes many shapes, so the types name the tag only.
TypeOK ==
  /\ DOMAIN object = PolicyFields
  /\ governor # Absent =>
       /\ DOMAIN governor = {"compiled", "digest"}
       /\ governor.compiled = NotCompiled \/ governor.compiled.compiled
  /\ answer # Absent =>
       /\ answer.request \in Requests[source]
       /\ \A d \in {answer.node, answer.python} :
            /\ d.decision \in {"ALLOWED", "DENIED"}
            /\ (d.decision = "ALLOWED") <=> (d.reason = "POLICY_SATISFIED")

Init ==
  /\ object \in Policies
  /\ source = Absent
  /\ governor = Absent
  /\ answer = Absent

\* Mutant: the rules are looked up in the object of the application.
CompiledFromObject == Compile(object)

\* What decisions are made by.
Compiled == governor.compiled

\* createGovernor throws on a policy that does not compile.
Create ==
  /\ governor = Absent
  /\ source' = object
  /\ governor' = [compiled |-> Compile(object), digest |-> object]
  /\ UNCHANGED <<object, answer>>

\* The application changes the object it passed.
Edit(p) ==
  /\ object # p
  /\ object' = p
  /\ UNCHANGED <<source, governor, answer>>

-----------------------------------------------------------------------------
(***************************************************************************)
(* The record of a decision and the checks of validateRecord.              *)
(***************************************************************************)
IsRecordText(v) == Kind(v) = "text" /\ v # EmptyText

Signable(record) ==
  /\ IsRecordText(record.scope)
  /\ record.requested = Missing \/ IsRecordText(record.requested)
  /\ record.decision = "ALLOWED" =>
       record.intent # Missing /\ record.mask # Invalid

NormalizedIntent(v) ==
  IF NormalizeId(v) = "" THEN Missing ELSE Text(NormalizeId(v), "exact")

Record(intent, scope, requested, mask, decided) ==
  [kind |-> "record", intent |-> intent, scope |-> scope,
   requested |-> requested, mask |-> mask, digest |-> governor.digest,
   decision |-> decided.decision, reason |-> decided.reason]

Provable(record) == IF Signable(record) THEN record ELSE NoProof

NodeProof(r, decided) ==
  Provable(Record(NormalizedIntent(r.intent_id),
                 NodeOr(r.scope, Compiled.defaultScope),
                 NodeOr(r.version, Missing),
                 NodeMask(Compiled.bits, r.evidence), decided))

PythonProof(r, decided) ==
  Provable(Record(NormalizedIntent(r.intent_id),
                 PythonOr(r.scope, Compiled.defaultScope),
                 PythonOr(r.version, Missing),
                 PythonMask(Compiled.bits, r.evidence), decided))

-----------------------------------------------------------------------------
\* Answering keeps no state, so a behaviour has one request (a bound).
Ready == governor # Absent /\ governor.compiled.compiled /\ answer = Absent

\* govern() evaluates its `intent` as intent_id.
Asked(r) ==
  [intent_id |-> r.intent_id, intent |-> Missing, action |-> Missing,
   scope |-> r.scope, version |-> r.version, evidence |-> r.evidence]

Answer(r, asked, nodeProof, pythonProof) ==
  /\ Ready
  /\ answer' = [request |-> r, asked |-> asked,
                node |-> NodeEvaluate(Compiled, asked),
                python |-> PythonEvaluate(Compiled, asked),
                nodeProof |-> nodeProof, pythonProof |-> pythonProof]
  /\ UNCHANGED <<object, source, governor>>

\* With a usable signing key the decision is signed, without one it is not.
Govern(r, signing) ==
  IF signing
  THEN Answer(r, Asked(r), NodeProof(r, NodeEvaluate(Compiled, Asked(r))),
              PythonProof(r, PythonEvaluate(Compiled, Asked(r))))
  ELSE Answer(r, Asked(r), NoProof, NoProof)

\* evaluate() of an evaluator created from the same policy takes the intent
\* from any of its three fields.
Evaluate(r) == Answer(r, r, NoProof, NoProof)

Next ==
  \/ Create
  \/ \E p \in Edits : Edit(p)
  \/ governor # Absent /\ \E r \in Requests[source] :
       Evaluate(r) \/ \E signing \in BOOLEAN : Govern(r, signing)

Spec == Init /\ [][Next]_vars

-----------------------------------------------------------------------------
(***************************************************************************)
(* What a policy means, said without compiling it: declarations are read   *)
(* as sets, masks as sets of bits, names as their stems.                   *)
(***************************************************************************)
Declared(v) == {Entries(v)[i] : i \in DOMAIN Entries(v)}

\* Declarations are acceptable names, and no two of them mean the same name.
NamesAreUnique(v) ==
  /\ Kind(v) = "object"
  /\ \A e \in Declared(v) : IsName(e[1])
  /\ \A e, f \in Declared(v) : e # f => e[1][2] # f[1][2]

WellFormed(policy) ==
  /\ IsName(policy.version)
  /\ NamesAreUnique(policy.evidenceBits)
  /\ \A e, f \in Declared(policy.evidenceBits) :
       /\ e[1][2] \notin DOMAIN Numerals
       /\ IsMask(e[2]) /\ \E i \in Positions : e[2][2] = {i}
       /\ e[2][2] = f[2][2] => e = f
  /\ Kind(policy.scopes) = "object"
  /\ \A s \in Declared(policy.scopes) :
       /\ IsName(s[1]) /\ NamesAreUnique(s[2].intents)
       /\ \A e \in Declared(s[2].intents) : IsMask(e[2])
       /\ IsMask(DefaultMask(s[2]))
       /\ s[2].allowUnknown \in {Missing, Boolean(TRUE), Boolean(FALSE)}
  /\ \E s \in Declared(policy.scopes) :
       s[1] = policy.defaultScope /\ IsName(s[1])

\* What a name declares.
Naming(policy, v) ==
  {e \in Declared(policy.evidenceBits) : Kind(v) = "text" /\ e[1][2] = v[2]}

\* The sets of bits a request presents: one, or none if it is invalid.
Presented(policy, v) ==
  CASE v = Missing -> {{}}
    [] IsMask(v) -> {v[2]}
    [] Kind(v) = "text" ->
         IF v[2] \in DOMAIN Numerals
         THEN {Numerals[v[2]]} \cap SUBSET Positions
         ELSE {e[2][2] : e \in Naming(policy, v)}
    [] Kind(v) = "list" ->
         IF \A i \in DOMAIN v[2] : Naming(policy, v[2][i]) # {}
         THEN {UNION {e[2][2] :
                        e \in UNION {Naming(policy, v[2][i]) : i \in DOMAIN v[2]}}}
         ELSE {}
    [] OTHER -> {}

\* The first of the three fields that holds anything.
IntentOf(r) ==
  IF r.intent_id \notin {Missing, EmptyText} THEN r.intent_id
  ELSE IF r.intent \notin {Missing, EmptyText} THEN r.intent
  ELSE r.action

Permits(policy, r) ==
  \E s \in Declared(policy.scopes) :
    LET rules == {e \in Declared(s[2].intents) : e[1][2] = IntentOf(r)[2]}
    IN /\ s[1] = (IF r.scope \in {Missing, EmptyText} THEN policy.defaultScope
                                                     ELSE r.scope)
       /\ Kind(IntentOf(r)) = "text" /\ IntentOf(r)[2] # ""
       /\ r.version \in {Missing, EmptyText, policy.version}
       /\ rules # {} \/ s[2].allowUnknown = Boolean(TRUE)
       /\ \E presented \in Presented(policy, r.evidence) :
            IF rules = {} THEN DefaultMask(s[2])[2] \subseteq presented
            ELSE \E e \in rules : e[2][2] \subseteq presented

-----------------------------------------------------------------------------
(***************************************************************************)
(* Properties                                                              *)
(***************************************************************************)

\* A policy is activated if and only if it is well formed, in whatever order
\* its declarations are written: nothing ambiguous is installed and nothing
\* unambiguous refused (compilePolicy).
ActivatesWellFormedPolicies ==
  governor # Absent => (governor.compiled.compiled <=> WellFormed(source))

\* With one field to choose from, or fields that hold texts, the languages
\* choose alike; they do not agree which other values hold nothing.
Plain(r) ==
  \/ r.intent = Missing /\ r.action = Missing
  \/ \A v \in {r.intent_id, r.intent, r.action} : v = Missing \/ Kind(v) = "text"

\* Both evaluators allow exactly what the policy permits that the governor was
\* created from, up to the highest bit and for every way to present evidence,
\* whatever the application has done to its object since (evaluateInput,
\* toEvidenceMask).
DecisionFollowsPolicy ==
  answer # Absent /\ Plain(answer.asked) =>
    \A d \in {answer.node, answer.python} :
      d.decision = "ALLOWED" <=> Permits(source, answer.asked)

\* Both languages give the same decision for the same reason (evaluate).
LanguagesAgree ==
  answer # Absent /\ Plain(answer.asked) => answer.node = answer.python

\* An authorization can be checked against what it binds: evaluated again from
\* its own fields, under the policy its digest identifies, either language
\* allows it (govern: the record is built from the request by other rules than
\* the evaluator reads it).
Replayed(record) ==
  [intent_id |-> record.intent, intent |-> Missing, action |-> Missing,
   scope |-> record.scope, version |-> record.requested,
   evidence |-> IF record.mask = Invalid THEN Missing ELSE Number(record.mask)]

AllowedProofReplays ==
  answer # Absent =>
    \A proof \in {answer.nodeProof, answer.pythonProof} \ {NoProof} :
      proof.decision = "ALLOWED" =>
        LET c == Compile(proof.digest) IN
        /\ NodeEvaluate(c, Replayed(proof)) = Allowed
        /\ PythonEvaluate(c, Replayed(proof)) = Allowed

\* An intent that is supplied and is not a text is never replaced by another
\* field of the request (normalizeId, _normalize_id).
NonTextIntentRequired ==
  answer # Absent /\ Kind(answer.asked.intent_id) \in {"list", "object"} =>
    \A d \in {answer.node, answer.python} : d = Denied("E_INTENT_REQUIRED")

=============================================================================
