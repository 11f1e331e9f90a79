---------------------------- MODULE GovernorProofs ----------------------------
(***************************************************************************)
(* Proofs about Governor for every width of masks, every set of policies,  *)
(* every edit and every request.                                           *)
(*                                                                         *)
(* The first parts are about the evaluator alone: compilePolicy accepts    *)
(* exactly the well-formed policies, its tables hold what was declared,    *)
(* and a decision is what the policy means.  The last part carries this to *)
(* the states of a governor with the inductive invariant Inv.              *)
(***************************************************************************)
EXTENDS Governor, TLAPS, WellFoundedInduction

-----------------------------------------------------------------------------
(***************************************************************************)
(* Bits                                                                    *)
(***************************************************************************)

\* A number other than 0 has a lowest one.
LEMMA LowestOne ==
  ASSUME NEW n \in SUBSET Nat, n # {}
  PROVE  Lowest(n) \in n /\ \A j \in n : Lowest(n) <= j
<1> DEFINE less == {ss \in Nat \X Nat : ss[1] < ss[2]}
<1>1. IsWellFoundedOn(less, Nat)
  BY NatLessThanWellFounded DEF OpToRel
<1> HIDE DEF less
<1>2. PICK i \in n : \A j \in n : ~ (<<j, i>> \in less)
  BY <1>1, WFMin
<1>3. ASSUME NEW j \in n
      PROVE  i <= j
  <2>1. i \in Nat /\ j \in Nat
    BY <1>2
  <2>2. j < i => <<j, i>> \in less
    BY <2>1 DEF less
  <2>3. QED
    BY <1>2, <2>1, <2>2
<1>4. QED
  BY <1>2, <1>3 DEF Lowest

\* compilePolicy tests n & (n - 1): it is 0 exactly for a single one.
LEMMA SingleBit ==
  ASSUME NEW n \in SUBSET Positions
  PROVE  IsSingleBit(n) <=> \E i \in Positions : n = {i}
<1>1. CASE n = {}
  BY <1>1 DEF IsSingleBit
<1>2. CASE n # {}
  <2> DEFINE low == Lowest(n)
  <2> n \in SUBSET Nat
    BY EvaluatorAssumption DEF Positions
  <2>1. low \in n /\ low \in Nat /\ \A j \in n : low <= j
    BY <1>2, LowestOne
  <2>2. \A j \in n : j \notin 0..(low - 1)
    BY <2>1, EvaluatorAssumption DEF Positions
  <2>3. n \cap Decrement(n) = n \ {low}
    BY <2>2 DEF Decrement
  <2>4. NodeAnd(n, Decrement(n)) = {} <=> n \ {low} = {}
    BY <2>3 DEF NodeAnd, Signed
  <2>5. n \ {low} = {} <=> \E i \in Positions : n = {i}
    BY <2>1
  <2>6. QED
    BY <1>2, <2>4, <2>5 DEF IsSingleBit
<1>3. QED
  BY <1>1, <1>2

-----------------------------------------------------------------------------
(***************************************************************************)
(* compilePolicy                                                           *)
(***************************************************************************)

\* The positions of an object.
LEMMA Places ==
  ASSUME NEW entries, IsObject(entries)
  PROVE  DOMAIN entries = {i \in Nat : 1 <= i /\ i <= Len(entries)}
BY DEF IsObject

\* What is read before an entry is what stands before it.
LEMMA ReadBefore ==
  ASSUME NEW entries, IsObject(entries), NEW i \in DOMAIN entries
  PROVE  \A j : j \in 1..(i - 1) <=> j \in DOMAIN entries /\ j < i
<1>1. i \in Nat /\ i <= Len(entries) /\ Len(entries) \in Nat
  BY Places DEF IsObject
<1>2. QED
  BY <1>1, Places

\* A declaration of an accepted kind is kept under its stem.
LEMMA NameIsStem ==
  ASSUME NEW v, IsName(v)
  PROVE  DeclaredId(v) = v[2] /\ v[2] # ""
BY DEF IsName, DeclaredId, NormalizeId

\* Comparing each name with those before it compares every two.
LEMMA NamesPairwise ==
  ASSUME NEW v, Kind(v) = "object", IsObject(Entries(v))
  PROVE  (\A i \in DOMAIN Entries(v) :
             /\ IsName(Entries(v)[i][1])
             /\ \A e \in Before(Entries(v), i) :
                  DeclaredId(e[1]) # DeclaredId(Entries(v)[i][1]))
           <=> NamesAreUnique(v)
<1> DEFINE entries == Entries(v)
           named == \A i \in DOMAIN entries : IsName(entries[i][1])
<1> HIDE DEF entries
<1> IsObject(entries)
  BY DEF entries
<1>1. ASSUME named,
             \A i \in DOMAIN entries : \A e \in Before(entries, i) :
               DeclaredId(e[1]) # DeclaredId(entries[i][1])
      PROVE  NamesAreUnique(v)
  <2>1. ASSUME NEW i \in DOMAIN entries, NEW j \in DOMAIN entries, j < i
        PROVE  entries[j][1][2] # entries[i][1][2]
    <3>1. entries[j] \in Before(entries, i)
      BY <2>1, ReadBefore DEF Before
    <3>2. QED
      BY <1>1, <3>1, NameIsStem
  <2>2. ASSUME NEW i \in DOMAIN entries, NEW j \in DOMAIN entries,
               entries[i] # entries[j]
        PROVE  entries[i][1][2] # entries[j][1][2]
    <3>1. i < j \/ j < i
      BY <2>2, Places
    <3>2. QED
      BY <3>1, <2>1
  <2>3. QED
    BY <1>1, <2>2 DEF NamesAreUnique, Declared, entries
<1>2. ASSUME NamesAreUnique(v), NEW i \in DOMAIN entries,
             NEW e \in Before(entries, i)
      PROVE  DeclaredId(e[1]) # DeclaredId(entries[i][1])
  <2>1. PICK j \in 1..(i - 1) : e = entries[j]
    BY <1>2 DEF Before
  <2>2. j \in DOMAIN entries /\ j < i /\ i \in Nat
    BY <2>1, ReadBefore, Places
  <2>3. entries[j] # entries[i]
    BY <2>2 DEF IsObject
  <2>4. entries[i] \in Declared(v) /\ entries[j] \in Declared(v)
    BY <2>2 DEF Declared, entries
  <2>5. IsName(entries[i][1]) /\ IsName(entries[j][1])
        /\ entries[j][1][2] # entries[i][1][2]
    BY <1>2, <2>3, <2>4 DEF NamesAreUnique
  <2>6. QED
    BY <2>1, <2>5, NameIsStem
<1>3. NamesAreUnique(v) => named
  BY DEF NamesAreUnique, Declared, entries
<1>4. QED
  BY <1>1, <1>2, <1>3 DEF entries

\* The same for the bits of the evidence.
LEMMA BitsPairwise ==
  ASSUME NEW v, IsObject(Entries(v))
  PROVE  (\A i \in DOMAIN Entries(v) : \A e \in Before(Entries(v), i) :
             e[2][2] # Entries(v)[i][2][2])
           <=> (\A e, f \in Declared(v) : e[2][2] = f[2][2] => e = f)
<1> DEFINE entries == Entries(v)
<1> HIDE DEF entries
<1> IsObject(entries)
  BY DEF entries
<1>1. ASSUME \A i \in DOMAIN entries : \A e \in Before(entries, i) :
               e[2][2] # entries[i][2][2],
             NEW i \in DOMAIN entries, NEW j \in DOMAIN entries,
             entries[i] # entries[j]
      PROVE  entries[i][2][2] # entries[j][2][2]
  <2>1. i < j \/ j < i
    <3>1. i \in Nat /\ j \in Nat
      BY Places
    <3>2. i # j
      BY <1>1
    <3>3. QED
      BY <3>1, <3>2
  <2>2. entries[i] \in Before(entries, j) \/ entries[j] \in Before(entries, i)
    BY <2>1, ReadBefore DEF Before
  <2>3. QED
    BY <1>1, <2>2
<1>2. ASSUME \A e, f \in Declared(v) : e[2][2] = f[2][2] => e = f,
             NEW i \in DOMAIN entries, NEW e \in Before(entries, i)
      PROVE  e[2][2] # entries[i][2][2]
  <2>1. PICK j \in 1..(i - 1) : e = entries[j]
    BY <1>2 DEF Before
  <2>2. j \in DOMAIN entries /\ j < i /\ i \in Nat
    BY <2>1, ReadBefore, Places
  <2>3. entries[j] # entries[i]
    BY <2>2 DEF IsObject
  <2>4. QED
    BY <1>2, <2>1, <2>2, <2>3 DEF Declared, entries
<1>3. QED
  BY <1>1, <1>2 DEF Declared, entries

\* What is asked of a declaration of evidence alone.
EvidenceDeclared(e) ==
  /\ e[1][2] \notin DOMAIN Numerals
  /\ IsMask(e[2]) /\ \E i \in Positions : e[2][2] = {i}

\* The loop over evidenceBits accepts exactly unambiguous single bits.
LEMMA EvidenceWellFormed ==
  ASSUME NEW v, Kind(v) = "object", IsObject(Entries(v))
  PROVE  EvidenceAccepted(Entries(v)) <=>
           /\ NamesAreUnique(v)
           /\ \A e \in Declared(v) : EvidenceDeclared(e)
           /\ \A e, f \in Declared(v) : e[2][2] = f[2][2] => e = f
<1> DEFINE entries == Entries(v)
           distinct(i) == \A e \in Before(entries, i) :
                            DeclaredId(e[1]) # DeclaredId(entries[i][1])
           unlike(i) == \A e \in Before(entries, i) : e[2][2] # entries[i][2][2]
<1>1. ASSUME NEW i \in DOMAIN entries, IsName(entries[i][1])
      PROVE  (/\ IsMask(entries[i][2]) /\ IsSingleBit(entries[i][2][2])
              /\ DeclaredId(entries[i][1]) \notin DOMAIN Numerals)
             <=> EvidenceDeclared(entries[i])
  <2>1. DeclaredId(entries[i][1]) = entries[i][1][2]
    BY <1>1, NameIsStem
  <2>2. IsMask(entries[i][2]) => entries[i][2][2] \in SUBSET Positions
    BY DEF IsMask
  <2>3. QED
    BY <2>1, <2>2, SingleBit DEF EvidenceDeclared
<1>2. EvidenceAccepted(entries) <=>
        \A i \in DOMAIN entries :
          /\ IsName(entries[i][1]) /\ IsMask(entries[i][2])
          /\ DeclaredId(entries[i][1]) \notin DOMAIN Numerals
          /\ IsSingleBit(entries[i][2][2])
          /\ distinct(i) /\ unlike(i)
  BY DEF EvidenceAccepted
<1> HIDE DEF distinct, unlike
<1>3. EvidenceAccepted(entries) <=>
        /\ \A i \in DOMAIN entries : IsName(entries[i][1]) /\ distinct(i)
        /\ \A i \in DOMAIN entries : EvidenceDeclared(entries[i])
        /\ \A i \in DOMAIN entries : unlike(i)
  BY <1>1, <1>2
<1>4. (\A i \in DOMAIN entries : IsName(entries[i][1]) /\ distinct(i))
        <=> NamesAreUnique(v)
  BY NamesPairwise DEF distinct
<1>5. (\A i \in DOMAIN entries : unlike(i))
        <=> \A e, f \in Declared(v) : e[2][2] = f[2][2] => e = f
  BY BitsPairwise DEF unlike
<1>6. (\A i \in DOMAIN entries : EvidenceDeclared(entries[i]))
        <=> \A e \in Declared(v) : EvidenceDeclared(e)
  BY DEF Declared
<1>7. QED
  BY <1>3, <1>4, <1>5, <1>6

\* The loop over the intents of a scope accepts exactly distinct rules.
LEMMA RulesWellFormed ==
  ASSUME NEW v, Kind(v) = "object", IsObject(Entries(v))
  PROVE  RulesAccepted(Entries(v)) <=>
           NamesAreUnique(v) /\ \A e \in Declared(v) : IsMask(e[2])
<1> DEFINE entries == Entries(v)
           distinct(i) == \A e \in Before(entries, i) :
                            DeclaredId(e[1]) # DeclaredId(entries[i][1])
<1>1. RulesAccepted(entries) <=>
        /\ \A i \in DOMAIN entries : IsName(entries[i][1]) /\ distinct(i)
        /\ \A i \in DOMAIN entries : IsMask(entries[i][2])
  BY DEF RulesAccepted
<1>2. (\A i \in DOMAIN entries : IsName(entries[i][1]) /\ distinct(i))
        <=> NamesAreUnique(v)
  BY NamesPairwise
<1>3. (\A i \in DOMAIN entries : IsMask(entries[i][2]))
        <=> \A e \in Declared(v) : IsMask(e[2])
  BY DEF Declared
<1>4. QED
  BY <1>1, <1>2, <1>3

\* What is asked of one scope.
ScopeDeclared(s) ==
  /\ IsName(s[1]) /\ NamesAreUnique(s[2].intents)
  /\ \A e \in Declared(s[2].intents) : IsMask(e[2])
  /\ IsMask(DefaultMask(s[2]))
  /\ s[2].allowUnknown \in {Missing, Boolean(TRUE), Boolean(FALSE)}

\* Values that the code may be handed for a policy.
Objects == Policies \cup Edits

LEMMA ScopesWellFormed ==
  ASSUME NEW v, Kind(v) = "object", IsObject(Entries(v)),
         \A i \in DOMAIN Entries(v) : IsObject(Entries(Entries(v)[i][2].intents))
  PROVE  ScopesAccepted(Entries(v)) <=>
           \A s \in Declared(v) : ScopeDeclared(s)
<1>1. ASSUME NEW i \in DOMAIN Entries(v)
      PROVE  (IsName(Entries(v)[i][1]) /\ ConfigAccepted(Entries(v)[i][2]))
               <=> ScopeDeclared(Entries(v)[i])
  <2> DEFINE s == Entries(v)[i]
  <2>1. Kind(s[2].intents) = "object" =>
          (RulesAccepted(Entries(s[2].intents)) <=>
             /\ NamesAreUnique(s[2].intents)
             /\ \A e \in Declared(s[2].intents) : IsMask(e[2]))
    BY <1>1, RulesWellFormed
  <2>2. NamesAreUnique(s[2].intents) => Kind(s[2].intents) = "object"
    BY DEF NamesAreUnique
  <2> HIDE DEF s
  <2>3. QED
    BY <2>1, <2>2 DEF s, ConfigAccepted, ScopeDeclared
<1>2. QED
  BY <1>1 DEF ScopesAccepted, Declared

\* A policy is acceptable exactly when it is well formed.
LEMMA AcceptableIsWellFormed ==
  ASSUME NEW p \in Objects
  PROVE  Acceptable(p) <=> WellFormed(p)
<1>1. /\ IsObject(Entries(p.evidenceBits)) /\ IsObject(Entries(p.scopes))
      /\ \A i \in DOMAIN Entries(p.scopes) :
           IsObject(Entries(Entries(p.scopes)[i][2].intents))
  BY GovernorAssumption DEF Objects
<1>2. Kind(p.evidenceBits) = "object" =>
        (EvidenceAccepted(Entries(p.evidenceBits)) <=>
           /\ NamesAreUnique(p.evidenceBits)
           /\ \A e \in Declared(p.evidenceBits) : EvidenceDeclared(e)
           /\ \A e, f \in Declared(p.evidenceBits) :
                e[2][2] = f[2][2] => e = f)
  BY <1>1, EvidenceWellFormed
<1>3. Kind(p.scopes) = "object" =>
        (ScopesAccepted(Entries(p.scopes)) <=>
           \A s \in Declared(p.scopes) : ScopeDeclared(s))
  BY <1>1, ScopesWellFormed
<1>4. NamesAreUnique(p.evidenceBits) => Kind(p.evidenceBits) = "object"
  BY DEF NamesAreUnique
<1>5. (\E i \in DOMAIN Entries(p.scopes) :
         Entries(p.scopes)[i][1] = p.defaultScope)
        <=> \E s \in Declared(p.scopes) : s[1] = p.defaultScope
  BY DEF Declared
<1>6. WellFormed(p) <=>
        /\ IsName(p.version)
        /\ NamesAreUnique(p.evidenceBits)
        /\ \A e \in Declared(p.evidenceBits) : EvidenceDeclared(e)
        /\ \A e, f \in Declared(p.evidenceBits) : e[2][2] = f[2][2] => e = f
        /\ Kind(p.scopes) = "object"
        /\ \A s \in Declared(p.scopes) : ScopeDeclared(s)
        /\ \E s \in Declared(p.scopes) :
             s[1] = p.defaultScope /\ IsName(s[1])
  BY DEF WellFormed, EvidenceDeclared, ScopeDeclared
<1>7. (\A s \in Declared(p.scopes) : ScopeDeclared(s)) =>
        \A s \in Declared(p.scopes) : IsName(s[1])
  BY DEF ScopeDeclared
<1>8. QED
  BY <1>2, <1>3, <1>4, <1>5, <1>6, <1>7 DEF Acceptable

LEMMA CompiledIsWellFormed ==
  ASSUME NEW p \in Objects
  PROVE  Compile(p).compiled <=> WellFormed(p)
BY AcceptableIsWellFormed DEF Compile, NotCompiled

-----------------------------------------------------------------------------
(***************************************************************************)
(* The tables of a compiled policy                                         *)
(***************************************************************************)

\* A table holds what was declared under each name and nothing else.
LEMMA TableEntry ==
  ASSUME NEW v, NamesAreUnique(v)
  PROVE  /\ \A e \in Declared(v) : /\ e[1][2] \in DOMAIN Table(Entries(v))
                                   /\ Table(Entries(v))[e[1][2]] = e[2][2]
         /\ \A id \in DOMAIN Table(Entries(v)) :
              \E e \in Declared(v) : e[1][2] = id
<1> DEFINE entries == Entries(v)
           at(id) == CHOOSE i \in DOMAIN entries : DeclaredId(entries[i][1]) = id
<1>1. \A i \in DOMAIN entries : DeclaredId(entries[i][1]) = entries[i][1][2]
  BY NameIsStem DEF NamesAreUnique, Declared
<1>2. DOMAIN Table(entries) = {DeclaredId(entries[i][1]) : i \in DOMAIN entries}
      /\ \A id \in DOMAIN Table(entries) :
           Table(entries)[id] = entries[at(id)][2][2]
  BY DEF Table
<1>3. ASSUME NEW i \in DOMAIN entries
      PROVE  /\ entries[i][1][2] \in DOMAIN Table(entries)
             /\ Table(entries)[entries[i][1][2]] = entries[i][2][2]
  <2> DEFINE id == entries[i][1][2]
  <2>1. id \in DOMAIN Table(entries)
    BY <1>1, <1>2
  <2>2. at(id) \in DOMAIN entries /\ DeclaredId(entries[at(id)][1]) = id
    BY <1>1
  <2>3. entries[at(id)] = entries[i]
    BY <1>1, <2>2 DEF NamesAreUnique, Declared
  <2>4. QED
    BY <1>2, <2>1, <2>3
<1>4. QED
  BY <1>1, <1>2, <1>3 DEF Declared

LEMMA ScopeEntry ==
  ASSUME NEW v, IsObject(Entries(v))
  PROVE  /\ \A s \in Declared(v) : /\ s[1] \in DOMAIN ScopeTable(Entries(v))
                                   /\ ScopeTable(Entries(v))[s[1]] = Scope(s[2])
         /\ \A name \in DOMAIN ScopeTable(Entries(v)) :
              \E s \in Declared(v) : s[1] = name
<1> DEFINE entries == Entries(v)
           at(name) == CHOOSE i \in DOMAIN entries : entries[i][1] = name
<1>1. DOMAIN ScopeTable(entries) = {entries[i][1] : i \in DOMAIN entries}
      /\ \A name \in DOMAIN ScopeTable(entries) :
           ScopeTable(entries)[name] = Scope(entries[at(name)][2])
  BY DEF ScopeTable
<1>2. ASSUME NEW i \in DOMAIN entries
      PROVE  at(entries[i][1]) = i
  <2>1. at(entries[i][1]) \in DOMAIN entries
        /\ entries[at(entries[i][1])][1] = entries[i][1]
    OBVIOUS
  <2>2. QED
    BY <2>1 DEF IsObject
<1>3. QED
  BY <1>1, <1>2 DEF Declared

LEMMA CompiledParts ==
  ASSUME NEW p \in Objects, WellFormed(p)
  PROVE  /\ Compile(p).version = p.version
         /\ Compile(p).defaultScope = p.defaultScope
         /\ Compile(p).bits = Table(Entries(p.evidenceBits))
         /\ Compile(p).scopes = ScopeTable(Entries(p.scopes))
         /\ IsName(p.version) /\ IsName(p.defaultScope)
         /\ IsObject(Entries(p.scopes))
<1>1. Acceptable(p)
  BY AcceptableIsWellFormed
<1>2. IsObject(Entries(p.scopes))
  BY GovernorAssumption DEF Objects
<1>3. QED
  BY <1>1, <1>2 DEF Compile, Acceptable

-----------------------------------------------------------------------------
(***************************************************************************)
(* toEvidenceMask                                                          *)
(***************************************************************************)

\* What the table of evidence says of a value.
LEMMA NamedEvidence ==
  ASSUME NEW p \in Objects, WellFormed(p), NEW v
  PROVE  LET bits == Compile(p).bits
             id   == NormalizeId(v)
         IN /\ id \in DOMAIN bits =>
                 /\ id \notin DOMAIN Numerals
                 /\ bits[id] \in SUBSET Positions
                 /\ \E e \in Naming(p, v) : TRUE
                 /\ \A e \in Naming(p, v) : e[2][2] = bits[id]
            /\ id \notin DOMAIN bits => Naming(p, v) = {}
<1> DEFINE bits == Compile(p).bits
           id   == NormalizeId(v)
<1>1. NamesAreUnique(p.evidenceBits)
      /\ \A e \in Declared(p.evidenceBits) :
           /\ IsName(e[1]) /\ e[1][2] \notin DOMAIN Numerals
           /\ e[2][2] \in SUBSET Positions
  BY DEF WellFormed, NamesAreUnique, IsMask
<1>2. /\ \A e \in Declared(p.evidenceBits) : /\ e[1][2] \in DOMAIN bits
                                             /\ bits[e[1][2]] = e[2][2]
      /\ \A name \in DOMAIN bits :
           \E e \in Declared(p.evidenceBits) : e[1][2] = name
  BY <1>1, TableEntry, CompiledParts
<1> HIDE DEF bits
<1>3. CASE id \in DOMAIN bits
  <2>1. PICK e \in Declared(p.evidenceBits) : e[1][2] = id
    BY <1>2, <1>3
  <2>2. id # ""
    BY <1>1, <2>1 DEF IsName
  <2>3. Kind(v) = "text" /\ id = v[2]
    BY <2>2 DEF NormalizeId
  <2>4. e \in Naming(p, v)
    BY <2>1, <2>3 DEF Naming
  <2>5. \A f \in Naming(p, v) : f[2][2] = bits[id]
    BY <1>2, <2>3 DEF Naming
  <2>6. QED
    BY <1>1, <1>2, <1>3, <2>1, <2>4, <2>5 DEF bits
<1>4. CASE id \notin DOMAIN bits
  <2>1. Naming(p, v) = {}
    BY <1>2, <1>4 DEF Naming, NormalizeId
  <2>2. QED
    BY <1>4, <2>1 DEF bits
<1>5. QED
  BY <1>3, <1>4

\* The mark of an invalid value is no set of positions.
LEMMA InvalidIsNoMask == Invalid \notin SUBSET Positions
BY EvaluatorAssumption DEF Invalid, Sign, Positions

\* A text presents what it names, or the numeral that it is.
LEMMA TextPresents ==
  ASSUME NEW p \in Objects, WellFormed(p), NEW v, Kind(v) = "text"
  PROVE  LET mask == TextMask(Compile(p).bits, v) IN
         /\ mask = Invalid => Presented(p, v) = {}
         /\ mask # Invalid =>
              mask \in SUBSET Positions /\ Presented(p, v) = {mask}
<1> DEFINE bits == Compile(p).bits
           mask == TextMask(bits, v)
<1>1. NormalizeId(v) = v[2] /\ v # Missing /\ ~ IsMask(v)
  BY DEF NormalizeId, IsMask, Kind, Missing
<1>2. Presented(p, v) = IF v[2] \in DOMAIN Numerals
                        THEN {Numerals[v[2]]} \cap SUBSET Positions
                        ELSE {e[2][2] : e \in Naming(p, v)}
  BY <1>1 DEF Presented
<1>3. CASE v[2] \in DOMAIN Numerals
  <2>1. v[2] \notin DOMAIN bits
    BY <1>1, <1>3, NamedEvidence
  <2>2. mask = IF Numerals[v[2]] \subseteq Positions THEN Numerals[v[2]]
                                                     ELSE Invalid
    BY <1>1, <1>3, <2>1 DEF TextMask
  <2>3. Presented(p, v) = {Numerals[v[2]]} \cap SUBSET Positions
    BY <1>2, <1>3
  <2>4. QED
    BY <2>2, <2>3, InvalidIsNoMask
<1>4. CASE v[2] \notin DOMAIN Numerals
  <2>1. mask = IF v[2] \in DOMAIN bits THEN bits[v[2]] ELSE Invalid
    BY <1>1, <1>4 DEF TextMask
  <2>2. Presented(p, v) = {e[2][2] : e \in Naming(p, v)}
    BY <1>2, <1>4
  <2>3. CASE v[2] \in DOMAIN bits
    <3>1. /\ bits[v[2]] \in SUBSET Positions
          /\ \E e \in Naming(p, v) : TRUE
          /\ \A e \in Naming(p, v) : e[2][2] = bits[v[2]]
      BY <1>1, <2>3, NamedEvidence
    <3>2. Presented(p, v) = {bits[v[2]]}
      BY <2>2, <3>1
    <3>3. QED
      BY <2>1, <2>3, <3>1, <3>2, InvalidIsNoMask
  <2>4. CASE v[2] \notin DOMAIN bits
    BY <1>1, <2>1, <2>2, <2>4, NamedEvidence
  <2>5. QED
    BY <2>3, <2>4
<1>5. QED
  BY <1>3, <1>4

\* A list presents all that its items name, in both languages.
LEMMA ListPresents ==
  ASSUME NEW p \in Objects, WellFormed(p), NEW v, Kind(v) = "list"
  PROVE  LET bits == Compile(p).bits
             all  == UNION ItemMasks(bits, v[2])
         IN /\ ItemsKnown(bits, v[2]) =>
                 /\ all \in SUBSET Positions /\ Presented(p, v) = {all}
                 /\ ToUnsigned(NodeOrAll(ItemMasks(bits, v[2]))) = all
            /\ ~ ItemsKnown(bits, v[2]) => Presented(p, v) = {}
<1> DEFINE bits  == Compile(p).bits
           items == v[2]
           all   == UNION ItemMasks(bits, items)
           named == UNION {Naming(p, items[i]) : i \in DOMAIN items}
<1>1. v # Missing /\ ~ IsMask(v) /\ Kind(v) # "text"
  BY DEF IsMask, Kind, Missing
<1>2. Presented(p, v) =
        IF \A i \in DOMAIN items : Naming(p, items[i]) # {}
        THEN {UNION {e[2][2] : e \in named}} ELSE {}
  BY <1>1 DEF Presented
<1>3. ItemsKnown(bits, items) <=>
        \A i \in DOMAIN items : Naming(p, items[i]) # {}
  BY NamedEvidence DEF ItemsKnown
<1>4. ASSUME ItemsKnown(bits, items)
      PROVE  /\ all \in SUBSET Positions
             /\ all = UNION {e[2][2] : e \in named}
  <2>1. \A i \in DOMAIN items :
          /\ bits[NormalizeId(items[i])] \in SUBSET Positions
          /\ \E e \in Naming(p, items[i]) : TRUE
          /\ \A e \in Naming(p, items[i]) :
               e[2][2] = bits[NormalizeId(items[i])]
    BY <1>4, NamedEvidence DEF ItemsKnown
  <2> HIDE DEF bits
  <2>2. ItemMasks(bits, items) = {e[2][2] : e \in named}
    BY <2>1 DEF ItemMasks
  <2>3. QED
    BY <2>1, <2>2 DEF ItemMasks
<1>5. ASSUME all \in SUBSET Positions
      PROVE  ToUnsigned(NodeOrAll(ItemMasks(bits, items))) = all
  <2>1. Sign \notin Positions
    BY EvaluatorAssumption DEF Sign, Positions
  <2>2. QED
    BY <1>5, <2>1 DEF ToUnsigned, NodeOrAll, Signed
<1>6. QED
  BY <1>2, <1>3, <1>4, <1>5

\* Both languages read the same mask, which is what the value presents.
LEMMA MaskIsPresented ==
  ASSUME NEW p \in Objects, WellFormed(p), NEW v
  PROVE  LET mask == NodeMask(Compile(p).bits, v) IN
         /\ PythonMask(Compile(p).bits, v) = mask
         /\ mask = Invalid => Presented(p, v) = {}
         /\ mask # Invalid =>
              mask \in SUBSET Positions /\ Presented(p, v) = {mask}
<1> DEFINE bits == Compile(p).bits
<1>1. CASE v = Missing
  <2>1. Kind(v) = "missing"
    BY <1>1 DEF Kind, Missing
  <2>2. NodeMask(bits, v) = {} /\ PythonMask(bits, v) = {}
        /\ Presented(p, v) = {{}}
    BY <1>1, <2>1 DEF NodeMask, PythonMask, Presented, IsMask
  <2>3. QED
    BY <2>2, InvalidIsNoMask
<1>2. CASE IsMask(v)
  <2>1. v # Missing
    BY <1>2 DEF Kind, Missing, IsMask
  <2>2. NodeMask(bits, v) = v[2] /\ PythonMask(bits, v) = v[2]
        /\ Presented(p, v) = {v[2]}
    BY <1>2, <2>1 DEF NodeMask, PythonMask, Presented, IsMask
  <2>3. QED
    BY <1>2, <2>2, InvalidIsNoMask DEF IsMask
<1>3. CASE Kind(v) = "text"
  <2>1. v # Missing /\ ~ IsMask(v)
    BY <1>3 DEF Kind, Missing, IsMask
  <2>2. NodeMask(bits, v) = TextMask(bits, v)
        /\ PythonMask(bits, v) = TextMask(bits, v)
    BY <1>3, <2>1 DEF NodeMask, PythonMask
  <2>3. QED
    BY <1>3, <2>2, TextPresents
<1>4. CASE Kind(v) = "list"
  <2>1. v # Missing /\ ~ IsMask(v) /\ Kind(v) # "text"
    BY <1>4 DEF Kind, Missing, IsMask
  <2>2. /\ NodeMask(bits, v) = IF ItemsKnown(bits, v[2])
                               THEN ToUnsigned(NodeOrAll(ItemMasks(bits, v[2])))
                               ELSE Invalid
        /\ PythonMask(bits, v) = IF ItemsKnown(bits, v[2])
                                 THEN UNION ItemMasks(bits, v[2])
                                 ELSE Invalid
    BY <1>4, <2>1 DEF NodeMask, PythonMask, PythonOrAll
  <2>3. /\ ItemsKnown(bits, v[2]) =>
             /\ UNION ItemMasks(bits, v[2]) \in SUBSET Positions
             /\ Presented(p, v) = {UNION ItemMasks(bits, v[2])}
             /\ ToUnsigned(NodeOrAll(ItemMasks(bits, v[2])))
                  = UNION ItemMasks(bits, v[2])
        /\ ~ ItemsKnown(bits, v[2]) => Presented(p, v) = {}
    BY <1>4, ListPresents
  <2>4. CASE ItemsKnown(bits, v[2])
    BY <2>2, <2>3, <2>4, InvalidIsNoMask
  <2>5. CASE ~ ItemsKnown(bits, v[2])
    BY <2>2, <2>3, <2>5
  <2>6. QED
    BY <2>4, <2>5
<1>5. CASE v # Missing /\ ~ IsMask(v) /\ Kind(v) \notin {"text", "list"}
  BY <1>5 DEF NodeMask, PythonMask, Presented
<1>6. QED
  BY <1>1, <1>2, <1>3, <1>4, <1>5

-----------------------------------------------------------------------------
(***************************************************************************)
(* evaluate                                                                *)
(***************************************************************************)

ScopeName(p, r) == IF r.scope \in {Missing, EmptyText} THEN p.defaultScope
                                                       ELSE r.scope

RulesFor(s, id) == {e \in Declared(s[2].intents) : e[1][2] = id}

Open(s) == s[2].allowUnknown = Boolean(TRUE)

\* A rule of the scope decides, or else its default if it allows the unknown.
LEMMA RequiredByScope ==
  ASSUME NEW p \in Objects, WellFormed(p), NEW r, NEW id,
         NEW s \in Declared(p.scopes), s[1] = ScopeName(p, r)
  PROVE  LET required == RequiredOf(Compile(p), r, id) IN
         /\ required = NoRule <=>
              RulesFor(s, id) = {} /\ ~ Open(s)
         /\ required # NoRule => required \in SUBSET Positions
         /\ RulesFor(s, id) = {} /\ required # NoRule =>
              required = DefaultMask(s[2])[2]
         /\ \A e \in RulesFor(s, id) : required = e[2][2]
<1> DEFINE c == Compile(p)
           required == RequiredOf(c, r, id)
           scope == Scope(s[2])
<1>1. ScopeOf(c, r.scope) = scope
  BY CompiledParts, ScopeEntry DEF ScopeOf, ScopeName
<1>2. scope # NoScope
  <2>1. DOMAIN scope # DOMAIN NoScope
    BY DEF Scope, NoScope
  <2>2. QED
    BY <2>1
<1>3. required = Required(scope, id)
  BY <1>1, <1>2 DEF RequiredOf
<1>4. /\ NamesAreUnique(s[2].intents)
      /\ \A e \in Declared(s[2].intents) : e[2][2] \in SUBSET Positions
      /\ DefaultMask(s[2])[2] \in SUBSET Positions
  BY DEF WellFormed, IsMask
<1>5. scope.rules = Table(Entries(s[2].intents))
      /\ scope.required = DefaultMask(s[2])[2]
      /\ (scope.allowUnknown <=> Open(s))
  BY DEF Scope, Open
<1>6. /\ \A e \in Declared(s[2].intents) :
           /\ e[1][2] \in DOMAIN scope.rules
           /\ scope.rules[e[1][2]] = e[2][2]
      /\ \A name \in DOMAIN scope.rules :
           \E e \in Declared(s[2].intents) : e[1][2] = name
  BY <1>4, <1>5, TableEntry
<1> HIDE DEF scope
<1>7. NoRule \notin SUBSET Positions
  BY InvalidIsNoMask DEF Invalid, NoRule
<1>8. CASE id \in DOMAIN scope.rules
  <2>1. required = scope.rules[id]
    BY <1>3, <1>8 DEF Required
  <2>2. PICK e \in Declared(s[2].intents) : e[1][2] = id
    BY <1>6, <1>8
  <2>3. \A f \in RulesFor(s, id) : required = f[2][2]
    BY <1>6, <2>1 DEF RulesFor
  <2>4. e \in RulesFor(s, id)
    BY <2>2 DEF RulesFor
  <2>5. required \in SUBSET Positions
    BY <1>4, <2>2, <2>3, <2>4
  <2>6. QED
    BY <1>7, <2>3, <2>4, <2>5
<1>9. CASE id \notin DOMAIN scope.rules
  <2>1. RulesFor(s, id) = {}
    BY <1>6, <1>9 DEF RulesFor
  <2>2. required = IF Open(s) THEN DefaultMask(s[2])[2] ELSE NoRule
    BY <1>3, <1>5, <1>9 DEF Required
  <2> HIDE DEF required
  <2>3. CASE Open(s)
    <3>1. required = DefaultMask(s[2])[2] /\ required \in SUBSET Positions
      BY <1>4, <2>2, <2>3
    <3>2. required # NoRule
      BY <1>7, <3>1
    <3>3. QED
      BY <2>1, <2>3, <3>1, <3>2 DEF required
  <2>4. CASE ~ Open(s)
    <3>1. required = NoRule
      BY <2>2, <2>4
    <3>2. QED
      BY <2>1, <2>4, <3>1 DEF required
  <2>5. QED
    BY <2>3, <2>4
<1>10. QED
  BY <1>8, <1>9

\* A scope that is not declared has no rule.
LEMMA NoScopeNoRule ==
  ASSUME NEW p \in Objects, WellFormed(p), NEW r, NEW id,
         \A s \in Declared(p.scopes) : s[1] # ScopeName(p, r)
  PROVE  RequiredOf(Compile(p), r, id) = NoRule
<1>1. ScopeName(p, r) \notin DOMAIN Compile(p).scopes
  BY CompiledParts, ScopeEntry
<1>2. ScopeOf(Compile(p), r.scope) = NoScope
  BY <1>1, CompiledParts DEF ScopeOf, ScopeName
<1>3. QED
  BY <1>2 DEF RequiredOf

\* Signed or not, & compares sets of bits.
LEMMA Satisfaction ==
  ASSUME NEW mask \in SUBSET Positions, NEW required \in SUBSET Positions
  PROVE  /\ NodeSatisfies(mask, required) <=> required \subseteq mask
         /\ PythonSatisfies(mask, required) <=> required \subseteq mask
<1>1. Sign \notin Positions
  BY EvaluatorAssumption DEF Sign, Positions
<1>2. ToUnsigned(NodeAnd(mask, required)) = mask \cap required
  BY <1>1 DEF ToUnsigned, NodeAnd, Signed
<1>3. QED
  BY <1>2 DEF NodeSatisfies, PythonSatisfies, PythonAnd

\* The order of the checks does not matter to what is allowed.
LEMMA AllowedWhen ==
  ASSUME NEW c, NEW r, NEW id, NEW mask, NEW satisfied \in BOOLEAN
  PROVE  LET d == Decide(c, r, id, mask, satisfied) IN
         /\ d.decision \in {"ALLOWED", "DENIED"}
         /\ d.decision = "ALLOWED" <=> d.reason = "POLICY_SATISFIED"
         /\ d.decision = "ALLOWED" <=> d = Allowed
         /\ d.decision = "ALLOWED" <=>
              /\ id # "" /\ RequiredOf(c, r, id) # NoRule
              /\ VersionMatches(c, r.version) /\ mask # Invalid /\ satisfied
BY DEF Decide, Denied, Allowed

\* From fields that are plain both languages choose the same intent.
LEMMA IntentChosen ==
  ASSUME NEW r, Plain(r)
  PROVE  /\ NormalizeId(NodeOr(NodeOr(r.intent_id, r.intent), r.action))
              = NormalizeId(IntentOf(r))
         /\ NormalizeId(PythonOr(PythonOr(r.intent_id, r.intent), r.action))
              = NormalizeId(IntentOf(r))
<1>1. \A v \in NodeFalsy \cup PythonFalsy :
        NormalizeId(v) = "" /\ (Kind(v) = "text" => v = EmptyText)
  <2>1. /\ Kind(Missing) = "missing" /\ Kind(NaN) = "nan"
        /\ Kind(Number({})) = "number" /\ Kind(Boolean(FALSE)) = "boolean"
        /\ Kind(List(<<>>)) = "list" /\ Kind(Object(<<>>)) = "object"
    BY DEF Kind, Missing, NaN, Number, Boolean, List, Object
  <2>2. NormalizeId(EmptyText) = ""
    BY DEF NormalizeId, EmptyText, Text
  <2>3. QED
    BY <2>1, <2>2 DEF NodeFalsy, PythonFalsy, NormalizeId
<1>2. Missing \in NodeFalsy \cap PythonFalsy
      /\ EmptyText \in NodeFalsy \cap PythonFalsy
  BY DEF NodeFalsy, PythonFalsy
<1>3. NormalizeId(Missing) = "" /\ NormalizeId(EmptyText) = ""
  BY <1>1, <1>2
<1>4. CASE r.intent = Missing /\ r.action = Missing
  BY <1>1, <1>2, <1>3, <1>4 DEF NodeOr, PythonOr, IntentOf
<1>5. CASE \A v \in {r.intent_id, r.intent, r.action} :
             v = Missing \/ Kind(v) = "text"
  <2>1. \A v \in {r.intent_id, r.intent, r.action} :
          /\ v \in NodeFalsy <=> v \in {Missing, EmptyText}
          /\ v \in PythonFalsy <=> v \in {Missing, EmptyText}
    BY <1>1, <1>2, <1>5
  <2>2. NodeOr(NodeOr(r.intent_id, r.intent), r.action) = IntentOf(r)
        /\ PythonOr(PythonOr(r.intent_id, r.intent), r.action) = IntentOf(r)
    BY <2>1 DEF NodeOr, PythonOr, IntentOf
  <2>3. QED
    BY <2>2
<1>6. QED
  BY <1>4, <1>5 DEF Plain

\* A permission, in terms of what the chosen scope requires of the mask.
LEMMA PermitsWhen ==
  ASSUME NEW p \in Objects, WellFormed(p), NEW r,
         NEW mask \in (SUBSET Positions) \cup {Invalid},
         mask = Invalid => Presented(p, r.evidence) = {},
         mask # Invalid => Presented(p, r.evidence) = {mask}
  PROVE  LET id == NormalizeId(IntentOf(r))
             required == RequiredOf(Compile(p), r, id)
         IN Permits(p, r) <=>
              /\ id # "" /\ required # NoRule
              /\ VersionMatches(Compile(p), r.version)
              /\ mask # Invalid /\ required \subseteq mask
<1> DEFINE id == NormalizeId(IntentOf(r))
           required == RequiredOf(Compile(p), r, id)
           offered == \E presented \in Presented(p, r.evidence) :
                        required \subseteq presented
<1>1. (Kind(IntentOf(r)) = "text" /\ IntentOf(r)[2] # "") <=> id # ""
  BY DEF NormalizeId
<1>2. id # "" => IntentOf(r)[2] = id
  BY DEF NormalizeId
<1>3. VersionMatches(Compile(p), r.version)
        <=> r.version \in {Missing, EmptyText, p.version}
  BY CompiledParts DEF VersionMatches
<1>4. offered <=> mask # Invalid /\ required \subseteq mask
  OBVIOUS
<1>5. ASSUME NEW s \in Declared(p.scopes), s[1] = ScopeName(p, r)
      PROVE  /\ required # NoRule <=>
                  RulesFor(s, id) # {} \/ Open(s)
             /\ required # NoRule =>
                  ((\E presented \in Presented(p, r.evidence) :
                      IF RulesFor(s, id) = {}
                      THEN DefaultMask(s[2])[2] \subseteq presented
                      ELSE \E e \in RulesFor(s, id) : e[2][2] \subseteq presented)
                   <=> offered)
  <2>1. /\ required = NoRule <=> RulesFor(s, id) = {} /\ ~ Open(s)
        /\ RulesFor(s, id) = {} /\ required # NoRule =>
             required = DefaultMask(s[2])[2]
        /\ \A e \in RulesFor(s, id) : required = e[2][2]
    BY <1>5, RequiredByScope
  <2> HIDE DEF required, id
  <2>2. required # NoRule <=> RulesFor(s, id) # {} \/ Open(s)
    BY <2>1
  <2>3. ASSUME required # NoRule, NEW presented
        PROVE  (IF RulesFor(s, id) = {}
                THEN DefaultMask(s[2])[2] \subseteq presented
                ELSE \E e \in RulesFor(s, id) : e[2][2] \subseteq presented)
               <=> required \subseteq presented
    BY <2>1, <2>3
  <2>4. QED
    BY <2>2, <2>3
<1>6. Permits(p, r) <=>
        /\ id # "" /\ VersionMatches(Compile(p), r.version)
        /\ \E s \in Declared(p.scopes) :
             /\ s[1] = ScopeName(p, r)
             /\ RulesFor(s, id) # {} \/ Open(s)
             /\ \E presented \in Presented(p, r.evidence) :
                  IF RulesFor(s, id) = {}
                  THEN DefaultMask(s[2])[2] \subseteq presented
                  ELSE \E e \in RulesFor(s, id) : e[2][2] \subseteq presented
  <2> DEFINE chosen(s) == s[1] = ScopeName(p, r)
             rules(s, name) == {e \in Declared(s[2].intents) : e[1][2] = name}
             rest(s, name) ==
               /\ rules(s, name) # {} \/ Open(s)
               /\ \E presented \in Presented(p, r.evidence) :
                    IF rules(s, name) = {}
                    THEN DefaultMask(s[2])[2] \subseteq presented
                    ELSE \E e \in rules(s, name) : e[2][2] \subseteq presented
  <2>1. Permits(p, r) <=>
          \E s \in Declared(p.scopes) :
            /\ chosen(s)
            /\ Kind(IntentOf(r)) = "text" /\ IntentOf(r)[2] # ""
            /\ r.version \in {Missing, EmptyText, p.version}
            /\ rest(s, IntentOf(r)[2])
    BY DEF Permits, ScopeName, Open
  <2> HIDE DEF chosen, rest
  <2>2. Permits(p, r) <=>
          /\ id # "" /\ VersionMatches(Compile(p), r.version)
          /\ \E s \in Declared(p.scopes) : chosen(s) /\ rest(s, id)
    BY <1>1, <1>2, <1>3, <2>1
  <2>3. QED
    BY <2>2 DEF chosen, rest, RulesFor
<1> HIDE DEF required, id, offered
<1>7. CASE \E s \in Declared(p.scopes) : s[1] = ScopeName(p, r)
  <2>1. (\E s \in Declared(p.scopes) :
           /\ s[1] = ScopeName(p, r)
           /\ RulesFor(s, id) # {} \/ Open(s)
           /\ \E presented \in Presented(p, r.evidence) :
                IF RulesFor(s, id) = {}
                THEN DefaultMask(s[2])[2] \subseteq presented
                ELSE \E e \in RulesFor(s, id) : e[2][2] \subseteq presented)
        <=> required # NoRule /\ offered
    BY <1>5, <1>7
  <2>2. QED
    BY <1>4, <1>6, <2>1 DEF id, required
<1>8. CASE \A s \in Declared(p.scopes) : s[1] # ScopeName(p, r)
  <2>1. required = NoRule
    BY <1>8, NoScopeNoRule DEF required
  <2>2. QED
    BY <1>6, <1>8, <2>1 DEF id, required
<1>9. QED
  BY <1>7, <1>8

\* Both evaluators give the same answer to a plain request, and allow it
\* exactly when the policy permits it.
LEMMA Decision ==
  ASSUME NEW p \in Objects, WellFormed(p), NEW r, Plain(r)
  PROVE  LET node   == NodeEvaluate(Compile(p), r)
             python == PythonEvaluate(Compile(p), r)
         IN node = python /\ (node.decision = "ALLOWED" <=> Permits(p, r))
<1> DEFINE c == Compile(p)
           id == NormalizeId(IntentOf(r))
           required == RequiredOf(c, r, id)
           mask == NodeMask(c.bits, r.evidence)
           node == Decide(c, r, id, mask, NodeSatisfies(mask, required))
           python == Decide(c, r, id, mask, PythonSatisfies(mask, required))
<1>1. /\ PythonMask(c.bits, r.evidence) = mask
      /\ mask = Invalid => Presented(p, r.evidence) = {}
      /\ mask # Invalid =>
           mask \in SUBSET Positions /\ Presented(p, r.evidence) = {mask}
  BY MaskIsPresented
<1>2. NodeEvaluate(c, r) = node /\ PythonEvaluate(c, r) = python
  BY <1>1, IntentChosen DEF NodeEvaluate, PythonEvaluate
<1>3. required # NoRule => required \in SUBSET Positions
  BY RequiredByScope, NoScopeNoRule
<1>4. required # NoRule /\ mask # Invalid =>
        /\ NodeSatisfies(mask, required) <=> required \subseteq mask
        /\ PythonSatisfies(mask, required) <=> required \subseteq mask
  BY <1>1, <1>3, Satisfaction
<1>5. node.decision = "ALLOWED" <=>
        /\ id # "" /\ required # NoRule /\ VersionMatches(c, r.version)
        /\ mask # Invalid /\ NodeSatisfies(mask, required)
  <2>1. NodeSatisfies(mask, required) \in BOOLEAN
    BY DEF NodeSatisfies
  <2>2. QED
    BY <2>1, AllowedWhen
<1>6. Permits(p, r) <=>
        /\ id # "" /\ required # NoRule /\ VersionMatches(c, r.version)
        /\ mask # Invalid /\ required \subseteq mask
  <2>1. mask \in (SUBSET Positions) \cup {Invalid}
    BY <1>1
  <2>2. QED
    BY <1>1, <2>1, PermitsWhen
<1>7. node = python
  BY <1>4 DEF Decide
<1> HIDE DEF mask, required, id, node, python
<1>8. node.decision = "ALLOWED" <=> Permits(p, r)
  BY <1>4, <1>5, <1>6
<1>9. QED
  BY <1>2, <1>7, <1>8

\* Whatever is evaluated, the answer is one of the decisions.
LEMMA DecisionTypes ==
  ASSUME NEW c, NEW r, NEW d \in {NodeEvaluate(c, r), PythonEvaluate(c, r)}
  PROVE  /\ d.decision \in {"ALLOWED", "DENIED"}
         /\ d.decision = "ALLOWED" <=> d.reason = "POLICY_SATISFIED"
         /\ d.decision = "ALLOWED" <=> d = Allowed
<1> DEFINE nodeId == NormalizeId(NodeOr(NodeOr(r.intent_id, r.intent), r.action))
           pythonId ==
             NormalizeId(PythonOr(PythonOr(r.intent_id, r.intent), r.action))
           nodeMask == NodeMask(c.bits, r.evidence)
           pythonMask == PythonMask(c.bits, r.evidence)
           nodeHas == NodeSatisfies(nodeMask, RequiredOf(c, r, nodeId))
           pythonHas == PythonSatisfies(pythonMask, RequiredOf(c, r, pythonId))
<1>1. nodeHas \in BOOLEAN /\ pythonHas \in BOOLEAN
  BY DEF NodeSatisfies, PythonSatisfies
<1>2. \/ d = Decide(c, r, nodeId, nodeMask, nodeHas)
      \/ d = Decide(c, r, pythonId, pythonMask, pythonHas)
  BY DEF NodeEvaluate, PythonEvaluate
<1> HIDE DEF nodeHas, pythonHas, nodeId, pythonId, nodeMask, pythonMask
<1>3. QED
  BY <1>1, <1>2, AllowedWhen

-----------------------------------------------------------------------------
(***************************************************************************)
(* The record of a decision                                                *)
(***************************************************************************)

\* An accepted name counts as a value wherever one is looked for.
LEMMA NamesCount ==
  ASSUME NEW v, IsName(v)
  PROVE  v \notin NodeFalsy \cup PythonFalsy \cup {Missing, EmptyText}
<1>1. /\ Kind(Missing) = "missing" /\ Kind(NaN) = "nan"
      /\ Kind(Number({})) = "number" /\ Kind(Boolean(FALSE)) = "boolean"
      /\ Kind(List(<<>>)) = "list" /\ Kind(Object(<<>>)) = "object"
  BY DEF Kind, Missing, NaN, Number, Boolean, List, Object
<1>2. EmptyText[2] = ""
  BY DEF EmptyText, Text
<1>3. QED
  BY <1>1, <1>2 DEF IsName, NodeFalsy, PythonFalsy

\* A permission depends on the name of the intent, on the scope it is looked
\* up in, on the version and on the evidence presented.
LEMMA PermitsAlike ==
  ASSUME NEW p, NEW r, NEW q, Permits(p, r),
         Kind(IntentOf(q)) = "text", IntentOf(q)[2] = IntentOf(r)[2],
         ScopeName(p, q) = ScopeName(p, r),
         q.version \in {Missing, EmptyText, p.version},
         Presented(p, q.evidence) = Presented(p, r.evidence)
  PROVE  Permits(p, q)
<1> DEFINE rest(s, name) ==
             /\ RulesFor(s, name) # {} \/ Open(s)
             /\ \E presented \in Presented(p, r.evidence) :
                  IF RulesFor(s, name) = {}
                  THEN DefaultMask(s[2])[2] \subseteq presented
                  ELSE \E e \in RulesFor(s, name) : e[2][2] \subseteq presented
<1>1. PICK s \in Declared(p.scopes) :
        /\ s[1] = ScopeName(p, r)
        /\ Kind(IntentOf(r)) = "text" /\ IntentOf(r)[2] # ""
        /\ rest(s, IntentOf(r)[2])
  BY DEF Permits, ScopeName, RulesFor, Open
<1>2. /\ s[1] = ScopeName(p, q)
      /\ Kind(IntentOf(q)) = "text" /\ IntentOf(q)[2] # ""
      /\ q.version \in {Missing, EmptyText, p.version}
      /\ rest(s, IntentOf(q)[2])
  BY <1>1
<1>3. QED
  BY <1>2 DEF Permits, ScopeName, RulesFor, Open

\* A record made by govern() of a request under a policy.
RecordOf(record, p, r) ==
  /\ record.intent = NormalizedIntent(r.intent_id)
  /\ record.scope \in {NodeOr(r.scope, p.defaultScope),
                       PythonOr(r.scope, p.defaultScope)}
  /\ record.requested \in {NodeOr(r.version, Missing),
                           PythonOr(r.version, Missing)}
  /\ record.mask = NodeMask(Compile(p).bits, r.evidence)

\* What is read back from a record asks what the request asked.
LEMMA ReplayPermits ==
  ASSUME NEW p \in Objects, WellFormed(p), NEW r, NEW record,
         RecordOf(record, p, r), Permits(p, Asked(r))
  PROVE  Permits(p, Replayed(record))
<1> DEFINE a == Asked(r)
           q == Replayed(record)
<1>1. /\ a.intent_id = r.intent_id /\ a.intent = Missing /\ a.action = Missing
      /\ a.scope = r.scope /\ a.version = r.version
      /\ a.evidence = r.evidence
  BY DEF Asked
<1>2. /\ q.intent_id = record.intent /\ q.intent = Missing
      /\ q.action = Missing /\ q.scope = record.scope
      /\ q.version = record.requested
      /\ q.evidence = IF record.mask = Invalid THEN Missing
                                               ELSE Number(record.mask)
  BY DEF Replayed
<1>3. /\ Kind(IntentOf(a)) = "text" /\ IntentOf(a)[2] # ""
      /\ a.version \in {Missing, EmptyText, p.version}
      /\ \E presented \in Presented(p, a.evidence) : TRUE
      /\ \E s \in Declared(p.scopes) : s[1] = ScopeName(p, a)
  BY DEF Permits, ScopeName
<1> HIDE DEF a, q
<1>4. Kind(Missing) = "missing" /\ EmptyText[2] = ""
  BY DEF Kind, Missing, EmptyText, Text
<1>5. Kind(IntentOf(q)) = "text" /\ IntentOf(q)[2] = IntentOf(a)[2]
  <2>1. IntentOf(a) = r.intent_id
    BY <1>1, <1>3, <1>4 DEF IntentOf
  <2>2. record.intent = Text(r.intent_id[2], "exact")
    BY <1>3, <2>1 DEF RecordOf, NormalizedIntent, NormalizeId
  <2>3. record.intent[1] = "text" /\ record.intent[2] = r.intent_id[2]
    BY <2>2 DEF Text
  <2>4. record.intent \notin {Missing, EmptyText}
    BY <1>3, <1>4, <2>1, <2>3 DEF Kind
  <2>5. IntentOf(q) = record.intent
    BY <1>2, <2>4 DEF IntentOf
  <2>6. QED
    BY <2>1, <2>3, <2>5 DEF Kind
<1>6. ScopeName(p, q) = ScopeName(p, a)
  <2>1. IsName(p.defaultScope)
        /\ \A s \in Declared(p.scopes) : IsName(s[1])
    BY CompiledParts DEF WellFormed
  <2>2. CASE r.scope \in {Missing, EmptyText}
    <3>1. record.scope = p.defaultScope
      BY <2>2 DEF RecordOf, NodeOr, PythonOr, NodeFalsy, PythonFalsy
    <3>2. QED
      BY <1>1, <1>2, <2>2, <3>1 DEF ScopeName
  <2>3. CASE r.scope \notin {Missing, EmptyText}
    <3>1. IsName(r.scope)
      BY <1>1, <1>3, <2>1, <2>3 DEF ScopeName
    <3>2. record.scope = r.scope
      BY <3>1, NamesCount DEF RecordOf, NodeOr, PythonOr
    <3>3. QED
      BY <1>1, <1>2, <3>2 DEF ScopeName
  <2>4. QED
    BY <2>2, <2>3
<1>7. q.version \in {Missing, EmptyText, p.version}
  <2>1. r.version \in {Missing, EmptyText, p.version}
    BY <1>1, <1>3
  <2>2. record.requested \in {Missing, r.version}
    BY DEF RecordOf, NodeOr, PythonOr
  <2>3. QED
    BY <1>2, <2>1, <2>2
<1>8. Presented(p, q.evidence) = Presented(p, a.evidence)
  <2>1. record.mask # Invalid /\ record.mask \in SUBSET Positions
        /\ Presented(p, r.evidence) = {record.mask}
    BY <1>1, <1>3, MaskIsPresented DEF RecordOf
  <2>2. IsMask(q.evidence) /\ q.evidence[2] = record.mask
    BY <1>2, <2>1 DEF IsMask, Number, Kind
  <2>3. Presented(p, q.evidence) = {record.mask}
    BY <1>4, <2>2 DEF Presented, IsMask
  <2>4. QED
    BY <1>1, <2>1, <2>3
<1>9. QED
  BY <1>5, <1>6, <1>7, <1>8, PermitsAlike DEF a, q

-----------------------------------------------------------------------------
(***************************************************************************)
(* A governor                                                              *)
(***************************************************************************)

\* What an authorization or a denial that was signed holds.
SignedOf(proof, r) ==
  /\ answer.asked = Asked(r)
  /\ RecordOf(proof, source, r)
  /\ proof.digest = source
  /\ proof.decision \in {answer.node.decision, answer.python.decision}

AnswerInv ==
  /\ governor # Absent /\ WellFormed(source)
  /\ \E r \in Requests[source] :
       /\ answer.request = r /\ answer.asked \in {r, Asked(r)}
       /\ answer.node = NodeEvaluate(Compile(source), answer.asked)
       /\ answer.python = PythonEvaluate(Compile(source), answer.asked)
       /\ \A proof \in {answer.nodeProof, answer.pythonProof} \ {NoProof} :
            SignedOf(proof, r)

\* A governor is what was compiled from its source, and its answer is what
\* the evaluators say of a request under that source.
Inv ==
  /\ object \in Objects
  /\ governor # Absent =>
       /\ source \in Objects
       /\ governor = [compiled |-> Compile(source), digest |-> source]
  /\ answer # Absent => AnswerInv

LEMMA InvInit == Init => Inv
BY DEF Init, Inv, Objects

\* Both proofs are made by the same rules.
LEMMA AnswerStep ==
  ASSUME Inv, NEW r \in Requests[source], Ready,
         NEW asked \in {r, Asked(r)}, NEW nodeProof, NEW pythonProof,
         \/ /\ nodeProof = NoProof
            /\ pythonProof = NoProof
         \/ /\ asked = Asked(r)
            /\ nodeProof = NodeProof(r, NodeEvaluate(Compiled, Asked(r)))
            /\ pythonProof = PythonProof(r, PythonEvaluate(Compiled, Asked(r))),
         Answer(r, asked, nodeProof, pythonProof)
  PROVE  Inv'
<1> DEFINE c == Compile(source)
           node == NodeEvaluate(c, asked)
           python == PythonEvaluate(c, asked)
<1>1. /\ governor # Absent /\ source \in Objects
      /\ governor = [compiled |-> c, digest |-> source]
      /\ c.compiled
  BY DEF Ready, Inv
<1>2. WellFormed(source)
  BY <1>1, CompiledIsWellFormed
<1>3. Compiled = c /\ governor.digest = source
  BY <1>1 DEF Compiled
<1>4. /\ answer' = [request |-> r, asked |-> asked, node |-> node,
                    python |-> python, nodeProof |-> nodeProof,
                    pythonProof |-> pythonProof]
      /\ UNCHANGED <<object, source, governor>>
  BY <1>3 DEF Answer
<1> HIDE DEF node, python
<1>5. /\ answer'.request = r /\ answer'.asked = asked
      /\ answer'.node = node /\ answer'.python = python
      /\ answer'.nodeProof = nodeProof /\ answer'.pythonProof = pythonProof
  BY <1>4
<1>6. ASSUME NEW proof \in {nodeProof, pythonProof} \ {NoProof}
      PROVE  /\ asked = Asked(r) /\ RecordOf(proof, source, r)
             /\ proof.digest = source
             /\ proof.decision \in {node.decision, python.decision}
  <2>1. /\ asked = Asked(r)
        /\ proof \in {NodeProof(r, node), PythonProof(r, python)}
    BY <1>3, <1>6 DEF node, python
  <2>2. PythonMask(c.bits, r.evidence) = NodeMask(c.bits, r.evidence)
        /\ c.defaultScope = source.defaultScope
    BY <1>1, <1>2, MaskIsPresented, CompiledParts
  <2>3. CASE proof = NodeProof(r, node)
    <3>1. proof = Record(NormalizedIntent(r.intent_id),
                         NodeOr(r.scope, c.defaultScope),
                         NodeOr(r.version, Missing),
                         NodeMask(c.bits, r.evidence), node)
      BY <1>3, <1>6, <2>3 DEF NodeProof, Provable
    <3>2. QED
      BY <1>3, <2>1, <2>2, <3>1 DEF Record, RecordOf
  <2>4. CASE proof = PythonProof(r, python)
    <3>1. proof = Record(NormalizedIntent(r.intent_id),
                         PythonOr(r.scope, c.defaultScope),
                         PythonOr(r.version, Missing),
                         NodeMask(c.bits, r.evidence), python)
      BY <1>3, <1>6, <2>2, <2>4 DEF PythonProof, Provable
    <3>2. QED
      BY <1>3, <2>1, <2>2, <3>1 DEF Record, RecordOf
  <2>5. QED
    BY <2>1, <2>3, <2>4
<1>7. AnswerInv'
  BY <1>1, <1>2, <1>4, <1>5, <1>6 DEF AnswerInv, SignedOf, node, python
<1>8. QED
  BY <1>1, <1>4, <1>7 DEF Inv

LEMMA InvStep == Inv /\ [Next]_vars => Inv'
<1> SUFFICES ASSUME Inv, [Next]_vars
             PROVE  Inv'
  OBVIOUS
<1>1. CASE Create
  <2>1. answer' = Absent
    BY <1>1 DEF Create, Inv, AnswerInv
  <2>2. QED
    BY <1>1, <2>1 DEF Create, Inv
<1>2. ASSUME NEW p \in Edits, Edit(p)
      PROVE  Inv'
  <2>1. object' \in Objects /\ UNCHANGED <<source, governor, answer>>
    BY <1>2 DEF Edit, Objects
  <2>2. AnswerInv => AnswerInv'
    BY <2>1 DEF AnswerInv, SignedOf
  <2>3. QED
    BY <2>1, <2>2 DEF Inv
<1>3. ASSUME NEW r \in Requests[source], Evaluate(r)
      PROVE  Inv'
  <2>1. Ready
    BY <1>3 DEF Evaluate, Answer
  <2>2. QED
    BY <1>3, <2>1, AnswerStep DEF Evaluate
<1>4. ASSUME NEW r \in Requests[source], NEW signing \in BOOLEAN,
             Govern(r, signing)
      PROVE  Inv'
  <2>1. Ready
    BY <1>4 DEF Govern, Answer
  <2>2. CASE signing
    BY <1>4, <2>1, <2>2, AnswerStep DEF Govern
  <2>3. CASE ~ signing
    BY <1>4, <2>1, <2>3, AnswerStep DEF Govern
  <2>4. QED
    BY <2>2, <2>3
<1>5. CASE UNCHANGED vars
  <2>1. UNCHANGED <<object, source, governor, answer>>
    BY <1>5 DEF vars
  <2>2. AnswerInv => AnswerInv'
    BY <2>1 DEF AnswerInv, SignedOf
  <2>3. QED
    BY <2>1, <2>2 DEF Inv
<1>6. QED
  BY <1>1, <1>2, <1>3, <1>4, <1>5 DEF Next

LEMMA Invariance == Spec => []Inv
BY InvInit, InvStep, PTL DEF Spec

\* The types: what a governor holds was compiled, and every answer is a
\* decision with the reason that goes with it (createGovernor, evaluate).
THEOREM TypeCorrect == Spec => []TypeOK
<1>1. ASSUME Inv
      PROVE  TypeOK
  <2>1. DOMAIN object = PolicyFields
    BY <1>1, GovernorAssumption DEF Inv, Objects
  <2>2. ASSUME governor # Absent
        PROVE  /\ DOMAIN governor = {"compiled", "digest"}
               /\ governor.compiled = NotCompiled \/ governor.compiled.compiled
    <3>1. governor = [compiled |-> Compile(source), digest |-> source]
      BY <1>1, <2>2 DEF Inv
    <3>2. Compile(source) = NotCompiled \/ Compile(source).compiled
      BY DEF Compile
    <3>3. QED
      BY <3>1, <3>2
  <2>3. ASSUME answer # Absent
        PROVE  /\ answer.request \in Requests[source]
               /\ \A d \in {answer.node, answer.python} :
                    /\ d.decision \in {"ALLOWED", "DENIED"}
                    /\ (d.decision = "ALLOWED")
                         <=> (d.reason = "POLICY_SATISFIED")
    BY <1>1, <2>3, DecisionTypes DEF Inv, AnswerInv
  <2>4. QED
    BY <2>1, <2>2, <2>3 DEF TypeOK
<1>2. QED
  BY <1>1, Invariance, PTL

\* Whatever objects an application passes, a policy is activated if and only
\* if it is well formed (compilePolicy).
THEOREM ActivatesWellFormed == Spec => []ActivatesWellFormedPolicies
<1>1. Inv => ActivatesWellFormedPolicies
  BY CompiledIsWellFormed DEF Inv, ActivatesWellFormedPolicies
<1>2. QED
  BY <1>1, Invariance, PTL

\* Whatever is requested, both evaluators allow exactly what the policy permits
\* that the governor was created from (evaluateInput, toEvidenceMask).
THEOREM DecisionFollows == Spec => []DecisionFollowsPolicy
<1>1. ASSUME Inv, answer # Absent, Plain(answer.asked),
             NEW d \in {answer.node, answer.python}
      PROVE  d.decision = "ALLOWED" <=> Permits(source, answer.asked)
  BY <1>1, Decision DEF Inv, AnswerInv
<1>2. Inv => DecisionFollowsPolicy
  BY <1>1 DEF DecisionFollowsPolicy
<1>3. QED
  BY <1>2, Invariance, PTL

\* Whatever is requested, both languages give the same decision for the same
\* reason (evaluate).
THEOREM LanguagesAgreed == Spec => []LanguagesAgree
<1>1. ASSUME Inv, answer # Absent, Plain(answer.asked)
      PROVE  answer.node = answer.python
  BY <1>1, Decision DEF Inv, AnswerInv
<1>2. Inv => LanguagesAgree
  BY <1>1 DEF LanguagesAgree
<1>3. QED
  BY <1>2, Invariance, PTL

\* Whatever is authorized, the record that was signed is allowed again by
\* either language under the policy its digest identifies (govern).
THEOREM ProofReplays == Spec => []AllowedProofReplays
<1>1. ASSUME Inv, answer # Absent,
             NEW proof \in {answer.nodeProof, answer.pythonProof} \ {NoProof},
             proof.decision = "ALLOWED"
      PROVE  LET c == Compile(proof.digest) IN
             /\ NodeEvaluate(c, Replayed(proof)) = Allowed
             /\ PythonEvaluate(c, Replayed(proof)) = Allowed
  <2>1. source \in Objects /\ WellFormed(source)
    BY <1>1 DEF Inv, AnswerInv
  <2>2. PICK r \in Requests[source] : SignedOf(proof, r)
    BY <1>1 DEF Inv, AnswerInv
  <2>3. Plain(Asked(r)) /\ Plain(Replayed(proof))
    BY DEF Plain, Asked, Replayed
  <2>4. Permits(source, Asked(r))
    BY <1>1, <2>1, <2>2, <2>3, Decision DEF Inv, AnswerInv, SignedOf
  <2>5. Permits(source, Replayed(proof))
    BY <2>1, <2>2, <2>4, ReplayPermits DEF SignedOf
  <2>6. proof.digest = source
    BY <2>2 DEF SignedOf
  <2>7. QED
    BY <2>1, <2>3, <2>5, <2>6, Decision, DecisionTypes
<1>2. Inv => AllowedProofReplays
  BY <1>1 DEF AllowedProofReplays
<1>3. QED
  BY <1>2, Invariance, PTL

=============================================================================
