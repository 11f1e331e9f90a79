------------------------------ MODULE Evaluator ------------------------------
(***************************************************************************)
(* Policy compilation and evaluation, in JavaScript                        *)
(* (sdk/node/evaluator.js) and in Python (sdk/python/vella/evaluator.py).  *)
(*                                                                         *)
(* The values a caller may pass are tagged tuples.  A text is the name it  *)
(* spells once it is trimmed and upper-cased (its stem) and the form it    *)
(* has: "exact" as the stem, "lower" in another case, "padded" with white  *)
(* space around it.  Objects keep their entries in insertion order, which  *)
(* is the order in which the compiler reads them.                          *)
(*                                                                         *)
(* An integer is the set of the positions of the ones in its binary       *)
(* representation.  A mask has Width bits (32 in the code).  JavaScript's  *)
(* bitwise operators yield signed integers of that width: those that are   *)
(* negative have Sign in addition.  Python's integers are unbounded.       *)
(***************************************************************************)
EXTENDS Integers, Sequences

CONSTANTS
  Width,      \* number of bits of an evidence mask
  Numerals    \* the stems that are decimal numerals, with their values

ASSUME EvaluatorAssumption ==
  /\ Width \in Nat \ {0}
  /\ \A s \in DOMAIN Numerals : Numerals[s] \subseteq Nat

-----------------------------------------------------------------------------
(***************************************************************************)
(* Values                                                                  *)
(***************************************************************************)
Missing == <<"missing">>          \* left out; in a request null and None too
NaN == <<"nan">>
Fraction == <<"fraction">>        \* a finite number that is no integer
Number(bits) == <<"number", bits>>
Boolean(b) == <<"boolean", b>>
Text(stem, form) == <<"text", stem, form>>
List(items) == <<"list", items>>
Object(entries) == <<"object", entries>>

EmptyText == Text("", "exact")

Kind(v) == v[1]

Positions == 0..(Width - 1)

\* No position of a one, but the mark of negative integers.
Sign == -1

IsMask(v) == Kind(v) = "number" /\ v[2] \subseteq Positions

NormalizeId(v) == IF Kind(v) = "text" THEN v[2] ELSE ""

\* What the `||` of JavaScript and the `or` of Python pass over.
NodeFalsy == {Missing, EmptyText, Number({}), Boolean(FALSE), NaN}

PythonFalsy ==
  {Missing, EmptyText, Number({}), Boolean(FALSE), List(<<>>), Object(<<>>)}

NodeOr(v, w) == IF v \in NodeFalsy THEN w ELSE v

PythonOr(v, w) == IF v \in PythonFalsy THEN w ELSE v

-----------------------------------------------------------------------------
(***************************************************************************)
(* Masks                                                                   *)
(***************************************************************************)
Signed(bits) == IF Width - 1 \in bits THEN bits \cup {Sign} ELSE bits

NodeAnd(m, n) == Signed(m \cap n)

NodeOrAll(masks) == Signed(UNION masks)

\* Mutant: the result of & is compared as it is.
StaysSigned(n) == n

\* The operator >>> 0.
ToUnsigned(n) == n \cap Positions

PythonAnd(m, n) == m \cap n

PythonOrAll(masks) == UNION masks

\* Subtracting one borrows up to the lowest one.
Lowest(n) == CHOOSE i \in n : \A j \in n : i <= j

Decrement(n) == (n \ {Lowest(n)}) \cup 0..(Lowest(n) - 1)

IsSingleBit(n) == n # {} /\ NodeAnd(n, Decrement(n)) = {}

-----------------------------------------------------------------------------
(***************************************************************************)
(* compilePolicy: the entries of an object are read in their order, each   *)
(* against those before it; one that is not acceptable throws.             *)
(***************************************************************************)
IsName(v) == Kind(v) = "text" /\ v[2] # "" /\ v[3] # "padded"

Entries(v) == IF Kind(v) = "object" THEN v[2] ELSE <<>>

Before(entries, i) == {entries[j] : j \in 1..(i - 1)}

\* Mutant: a name is compared as it is written.
IdAsWritten(v) == v[2] \o "-" \o v[3]

\* The name under which a declaration is kept.
DeclaredId(v) == NormalizeId(v)

EvidenceAccepted(entries) ==
  \A i \in DOMAIN entries :
    LET id  == DeclaredId(entries[i][1])
        bit == entries[i][2]
    IN /\ IsName(entries[i][1]) /\ IsMask(bit)
       /\ id \notin DOMAIN Numerals
       /\ IsSingleBit(bit[2])
       /\ \A e \in Before(entries, i) :
            DeclaredId(e[1]) # id /\ e[2][2] # bit[2]

RulesAccepted(entries) ==
  \A i \in DOMAIN entries :
    /\ IsName(entries[i][1]) /\ IsMask(entries[i][2])
    /\ \A e \in Before(entries, i) : DeclaredId(e[1]) # DeclaredId(entries[i][1])

\* The masks of evidence or intents by name.
Table(entries) ==
  [id \in {DeclaredId(entries[i][1]) : i \in DOMAIN entries} |->
     LET i == CHOOSE i \in DOMAIN entries : DeclaredId(entries[i][1]) = id
     IN entries[i][2][2]]

DefaultMask(config) ==
  IF config.required = Missing THEN Number({}) ELSE config.required

ConfigAccepted(config) ==
  /\ Kind(config.intents) = "object" /\ RulesAccepted(Entries(config.intents))
  /\ config.allowUnknown \in {Missing, Boolean(TRUE), Boolean(FALSE)}
  /\ IsMask(DefaultMask(config))

ScopesAccepted(entries) ==
  \A i \in DOMAIN entries : IsName(entries[i][1]) /\ ConfigAccepted(entries[i][2])

Scope(config) ==
  [allowUnknown |-> config.allowUnknown = Boolean(TRUE),
   required |-> DefaultMask(config)[2],
   rules |-> Table(Entries(config.intents))]

\* A scope keeps its name as it is written.
ScopeTable(entries) ==
  [name \in {entries[i][1] : i \in DOMAIN entries} |->
     LET i == CHOOSE i \in DOMAIN entries : entries[i][1] = name
     IN Scope(entries[i][2])]

NotCompiled == [compiled |-> FALSE]

Acceptable(policy) ==
  /\ IsName(policy.version) /\ IsName(policy.defaultScope)
  /\ Kind(policy.evidenceBits) = "object"
  /\ EvidenceAccepted(Entries(policy.evidenceBits))
  /\ Kind(policy.scopes) = "object" /\ ScopesAccepted(Entries(policy.scopes))
  /\ \E i \in DOMAIN Entries(policy.scopes) :
       Entries(policy.scopes)[i][1] = policy.defaultScope

Compile(policy) ==
  IF Acceptable(policy)
  THEN [compiled |-> TRUE, version |-> policy.version,
        defaultScope |-> policy.defaultScope,
        bits |-> Table(Entries(policy.evidenceBits)),
        scopes |-> ScopeTable(Entries(policy.scopes))]
  ELSE NotCompiled

-----------------------------------------------------------------------------
(***************************************************************************)
(* toEvidenceMask                                                          *)
(***************************************************************************)
Invalid == {Sign}

\* A text is a numeral that fits or a known name.
TextMask(bits, v) ==
  LET id == NormalizeId(v) IN
  IF id \in DOMAIN Numerals /\ Numerals[id] \subseteq Positions THEN Numerals[id]
  ELSE IF id \in DOMAIN bits THEN bits[id]
  ELSE Invalid

\* Every item of a list has to be a known name.
ItemsKnown(bits, items) ==
  \A i \in DOMAIN items : NormalizeId(items[i]) \in DOMAIN bits

ItemMasks(bits, items) == {bits[NormalizeId(items[i])] : i \in DOMAIN items}

NodeMask(bits, v) ==
  CASE v = Missing -> {}
    [] IsMask(v) -> v[2]
    [] Kind(v) = "text" -> TextMask(bits, v)
    [] Kind(v) = "list" ->
         IF ItemsKnown(bits, v[2])
         THEN ToUnsigned(NodeOrAll(ItemMasks(bits, v[2])))
         ELSE Invalid
    [] OTHER -> Invalid

PythonMask(bits, v) ==
  CASE v = Missing -> {}
    [] IsMask(v) -> v[2]
    [] Kind(v) = "text" -> TextMask(bits, v)
    [] Kind(v) = "list" ->
         IF ItemsKnown(bits, v[2])
         THEN PythonOrAll(ItemMasks(bits, v[2]))
         ELSE Invalid
    [] OTHER -> Invalid

-----------------------------------------------------------------------------
(***************************************************************************)
(* evaluate                                                                *)
(***************************************************************************)
Denied(reason) == [decision |-> "DENIED", reason |-> reason]

\* Mutant: the decision carries the reason of a denial.
AllowedFast == [decision |-> "ALLOWED", reason |-> "DENY_FAST"]

Allowed == [decision |-> "ALLOWED", reason |-> "POLICY_SATISFIED"]

NoScope == [missing |-> TRUE]

\* The scope a request names; without a name it is the default scope.
ScopeOf(c, v) ==
  LET name == IF v \in {Missing, EmptyText} THEN c.defaultScope ELSE v
  IN IF name \in DOMAIN c.scopes THEN c.scopes[name] ELSE NoScope

NoRule == {Sign}

\* Mutant: unknown intents are allowed wherever there is a default mask.
RequiredWithDefault(scope, id) ==
  IF id \in DOMAIN scope.rules THEN scope.rules[id] ELSE scope.required

Required(scope, id) ==
  IF id \in DOMAIN scope.rules THEN scope.rules[id]
  ELSE IF scope.allowUnknown THEN scope.required
  ELSE NoRule

VersionMatches(c, v) == v \in {Missing, EmptyText, c.version}

NodeSatisfies(mask, required) == ToUnsigned(NodeAnd(mask, required)) = required

PythonSatisfies(mask, required) == PythonAnd(mask, required) = required

RequiredOf(c, request, id) ==
  LET scope == ScopeOf(c, request.scope)
  IN IF scope = NoScope THEN NoRule ELSE Required(scope, id)

\* The checks of evaluate() in their order; both languages share it.
Decide(c, request, id, mask, satisfied) ==
  IF id = "" THEN Denied("E_INTENT_REQUIRED")
  ELSE IF RequiredOf(c, request, id) = NoRule THEN Denied("DENY_FAST")
  ELSE IF ~VersionMatches(c, request.version)
    THEN Denied("E_POLICY_VERSION_MISMATCH")
  ELSE IF mask = Invalid THEN Denied("E_EVIDENCE_INVALID")
  ELSE IF ~satisfied THEN Denied("E_EVIDENCE_MISSING")
  ELSE Allowed

NodeEvaluate(c, request) ==
  LET id   == NormalizeId(NodeOr(NodeOr(request.intent_id, request.intent),
                                 request.action))
      mask == NodeMask(c.bits, request.evidence)
  IN Decide(c, request, id, mask,
            NodeSatisfies(mask, RequiredOf(c, request, id)))

PythonEvaluate(c, request) ==
  LET id   == NormalizeId(PythonOr(PythonOr(request.intent_id, request.intent),
                                   request.action))
      mask == PythonMask(c.bits, request.evidence)
  IN Decide(c, request, id, mask,
            PythonSatisfies(mask, RequiredOf(c, request, id)))

=============================================================================
