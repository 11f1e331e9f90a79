------------------------ MODULE OperatorEvidenceProofs ------------------------
(***************************************************************************)
(* Proofs about OperatorEvidence for every set of requests, lifetime and   *)
(* bound.  The invariant says what an attempt still knows of the file when *)
(* the file has long been rewritten.                                       *)
(***************************************************************************)
EXTENDS OperatorEvidence, TLAPS

USE EvidenceAssumption

\* From its first answer on, an attempt's history includes the file in place,
\* and from its second reading on what it has read.
HistoryInv ==
  \A r \in Requests :
    /\ phase[r] \in {"held", "reloaded", "confirmed"} => file \in since[r]
    /\ phase[r] \in {"reloaded", "confirmed"} => loaded[r] \in since[r]

\* A confirmed attempt holds the answer that what it has read gave at some time.
AnswerInv ==
  \A r \in Requests :
    phase[r] = "confirmed" =>
      \E time \in Nat :
        /\ Grounds(loaded[r], r, time)
        /\ evidence[r] = References(loaded[r], r, time)

\* find() finds a permission when there is a valid one.
LEMMA FirstPermissionExists ==
  ASSUME NEW d \in Documents, NEW r \in Requests, NEW time \in Nat,
         ValidPermissions(d, r, time) # {}
  PROVE  FirstPermission(d, r, time) \in ValidPermissions(d, r, time)
<1> DEFINE V == ValidPermissions(d, r, time)
<1>1. \A g \in V : g.id = 1 \/ g.id = 2
  BY DEF ValidPermissions, Matching, Documents, Grants
<1>2. \E g \in V : \A h \in V : g.id <= h.id
  <2>1. CASE \E g \in V : g.id = 1
    BY <1>1, <2>1
  <2>2. CASE \A g \in V : g.id = 2
    BY <2>2
  <2> QED  BY <1>1, <2>1, <2>2
<1> QED  BY <1>2 DEF FirstPermission

\* An answer is made of records of the document that are valid at its time.
LEMMA AnswerIsGrounded ==
  ASSUME NEW d \in Documents, NEW r \in Requests, NEW time \in Nat,
         Grounds(d, r, time)
  PROVE  \E a \in OnlyApproval(d, r), p \in ValidPermissions(d, r, time) :
           /\ ~a.revoked
           /\ References(d, r, time) =
                [approval |-> a.id, permission |-> p.id,
                 expiry |-> <<d.session.expires, a.expires, p.expires>>]
<1> DEFINE a == CHOOSE a \in OnlyApproval(d, r) : TRUE
<1>1. a \in OnlyApproval(d, r) /\ ~a.revoked
  BY DEF Grounds, Valid, OnlyApproval
<1>2. FirstPermission(d, r, time) \in ValidPermissions(d, r, time)
  BY FirstPermissionExists DEF Grounds
<1> QED  BY <1>1, <1>2 DEF References

LEMMA ApprovingType ==
  ASSUME now \in Nat, NEW R \in SUBSET Requests
  PROVE  Approving(R) \in Documents
<1>1. {Fresh(1, r) : r \in R} \in SUBSET Grants
  <2>1. \A r \in R : Fresh(1, r) \in Grants
    BY DEF Fresh, Grants
  <2> QED  BY <2>1
<1>2. [ours |-> TRUE, expires |-> now + Lifetime, revoked |-> FALSE] \in Sessions
  BY DEF Sessions
<1> QED  BY <1>1, <1>2 DEF Approving, Documents

LEMMA AmendedType ==
  ASSUME now \in Nat, NEW d \in Documents, NEW e \in Amended(d)
  PROVE  e \in Documents
<1>1. \A g \in Grants : [g EXCEPT !.revoked = TRUE] \in Grants
  BY DEF Grants
<1>2. \A g \in Grants : Fresh(2, g.for) \in Grants
  BY DEF Grants, Fresh
<1>3. [d EXCEPT !.session.revoked = TRUE] \in Documents
  <2>1. d.session \in Sessions
    BY DEF Documents
  <2>2. [d.session EXCEPT !.revoked = TRUE] \in Sessions
    BY <2>1 DEF Sessions
  <2>3. \A s \in Sessions : [d EXCEPT !.session = s] \in Documents
    BY DEF Documents
  <2>4. [d EXCEPT !.session.revoked = TRUE]
          = [d EXCEPT !.session = [d.session EXCEPT !.revoked = TRUE]]
    OBVIOUS
  <2> QED  BY <2>2, <2>3, <2>4
<1>4. \A P \in SUBSET Grants :
        /\ [d EXCEPT !.permissions = P] \in Documents
        /\ [d EXCEPT !.approvals = P] \in Documents
  BY DEF Documents
<1>5. d.permissions \in SUBSET Grants /\ d.approvals \in SUBSET Grants
  BY DEF Documents
<1>6. \A P \in SUBSET Grants : \A g \in P :
        /\ ((P \ {g}) \cup {[g EXCEPT !.revoked = TRUE]}) \in SUBSET Grants
        /\ (P \cup {Fresh(2, g.for)}) \in SUBSET Grants
  BY <1>1, <1>2
<1>7. CASE e = [d EXCEPT !.session.revoked = TRUE]
  BY <1>3, <1>7
<1>8. CASE \E g \in d.permissions :
        \/ e = [d EXCEPT !.permissions = ((@ \ {g}) \cup {[g EXCEPT !.revoked = TRUE]})]
        \/ e = [d EXCEPT !.permissions = (@ \cup {Fresh(2, g.for)})]
  BY <1>4, <1>5, <1>6, <1>8
<1>9. CASE \E g \in d.approvals :
        \/ e = [d EXCEPT !.approvals = ((@ \ {g}) \cup {[g EXCEPT !.revoked = TRUE]})]
        \/ e = [d EXCEPT !.approvals = (@ \cup {Fresh(2, g.for)})]
  BY <1>4, <1>5, <1>6, <1>9
<1> QED  BY <1>7, <1>8, <1>9 DEF Amended

LEMMA ReferencesType ==
  ASSUME NEW d \in Documents, NEW r \in Requests, NEW time \in Nat,
         Grounds(d, r, time)
  PROVE  References(d, r, time) \in Answers
<1>1. PICK a \in OnlyApproval(d, r), p \in ValidPermissions(d, r, time) :
        References(d, r, time) =
          [approval |-> a.id, permission |-> p.id,
           expiry |-> <<d.session.expires, a.expires, p.expires>>]
  BY AnswerIsGrounded
<1>2. a \in Grants /\ p \in Grants /\ d.session \in Sessions
  BY DEF OnlyApproval, ValidPermissions, Matching, Documents
<1> QED  BY <1>1, <1>2 DEF Answers, Grants, Sessions

LEMMA BlankType == Blank \in Documents /\ Torn \in Documents
<1>1. NoSession \in Sessions
  BY DEF NoSession, Sessions
<1>2. Blank \in Documents
  BY <1>1 DEF Blank, Documents
<1> QED  BY <1>2 DEF Torn, Documents

\* Every variable keeps its type.
THEOREM TypeCorrect == Spec => []TypeOK
<1>1. Init => TypeOK
  BY BlankType DEF Init, TypeOK, Phases, Nothing, Answers
<1>2. TypeOK /\ [Next]_vars => TypeOK'
  <2> SUFFICES ASSUME TypeOK, [Next]_vars  PROVE TypeOK'
    OBVIOUS
  <2> USE DEF TypeOK, Phases, vars, operatorVars, attemptVars, Enter
  <2>0. now \in Nat /\ Torn \in Documents
    BY BlankType
  <2>1. ASSUME NEW r \in Requests, Resolve(r)  PROVE TypeOK'
    <3>1. References(loaded[r], r, now) \in Answers
      BY <2>0, <2>1, ReferencesType DEF Resolve
    <3> QED  BY <2>1, <3>1 DEF Resolve
  <2>2. ASSUME NEW r \in Requests, FirstLoad(r) \/ SecondLoad(r)  PROVE TypeOK'
    BY <2>2 DEF FirstLoad, SecondLoad, Load
  <2>3. ASSUME NEW r \in Requests, ResolveAgain(r) \/ Dispatch(r) \/ Stop(r)
        PROVE  TypeOK'
    BY <2>3 DEF ResolveAgain, Dispatch, Stop
  <2>4. ASSUME NEW r \in Requests, Approve(r)  PROVE TypeOK'
    <3>1. Approving({r}) \in Documents
      BY <2>0, ApprovingType
    <3> QED  BY <2>4, <2>0, <3>1 DEF Approve, Edit, Put
  <2>5. ASSUME NEW R \in SUBSET Requests, ApproveBatch(R)  PROVE TypeOK'
    <3>1. Approving(R) \in Documents
      BY <2>0, ApprovingType
    <3> QED  BY <2>5, <3>1 DEF ApproveBatch, Edit, Put
  <2>6. CASE FinishWriting
    BY <2>6 DEF FinishWriting, Put
  <2>7. CASE Amend
    <3>1. PICK d \in Amended(file) : Put(d)
      BY <2>7 DEF Amend
    <3>2. d \in Documents
      BY <2>0, <3>1, AmendedType
    <3> QED  BY <2>7, <3>1, <3>2 DEF Amend, Edit, Put
  <2>8. CASE Tick
    BY <2>8 DEF Tick
  <2>9. CASE UNCHANGED vars
    BY <2>9
  <2> QED  BY <2>1, <2>2, <2>3, <2>4, <2>5, <2>6, <2>7, <2>8, <2>9
           DEF Next, Attempt
<1> QED  BY <1>1, <1>2, PTL DEF Spec

IInv == TypeOK /\ HistoryInv /\ AnswerInv

LEMMA HistoryStep ==
  ASSUME TypeOK, HistoryInv, [Next]_vars
  PROVE  HistoryInv'
<1> USE DEF TypeOK, HistoryInv, vars, operatorVars, attemptVars, Enter
<1>1. ASSUME NEW r \in Requests, Attempt(r)  PROVE HistoryInv'
  BY <1>1 DEF Attempt, FirstLoad, SecondLoad, Load, Resolve, ResolveAgain,
              Dispatch, Stop
<1>2. ASSUME NEW content, Put(content)  PROVE HistoryInv'
  BY <1>2 DEF Put
<1>3. CASE Tick
  BY <1>3 DEF Tick
<1>4. CASE UNCHANGED vars
  BY <1>4
<1> QED  BY <1>1, <1>2, <1>3, <1>4
         DEF Next, Approve, ApproveBatch, FinishWriting, Amend

LEMMA AnswerStep ==
  ASSUME TypeOK, AnswerInv, [Next]_vars
  PROVE  AnswerInv'
<1> USE DEF AnswerInv, vars, operatorVars, attemptVars, Enter
<1>0. now \in Nat
  BY DEF TypeOK
<1>1. ASSUME NEW r \in Requests, Attempt(r)  PROVE AnswerInv'
  <2>1. CASE ResolveAgain(r)
    BY <1>0, <2>1 DEF ResolveAgain, TypeOK
  <2>2. CASE ~ResolveAgain(r)
    BY <1>1, <2>2 DEF Attempt, FirstLoad, SecondLoad, Load, Resolve, Dispatch,
                      Stop, TypeOK
  <2> QED  BY <2>1, <2>2
<1>2. ASSUME UNCHANGED attemptVars  PROVE AnswerInv'
  BY <1>2
<1> QED  BY <1>1, <1>2 DEF Next, Approve, ApproveBatch, FinishWriting, Amend,
                           Put, Tick

LEMMA Inductive == Spec => []IInv
<1>1. Init => HistoryInv /\ AnswerInv
  BY DEF Init, HistoryInv, AnswerInv
<1>2. TypeOK /\ HistoryInv /\ AnswerInv /\ [Next]_vars
        => HistoryInv' /\ AnswerInv'
  BY HistoryStep, AnswerStep
<1> QED  BY <1>1, <1>2, TypeCorrect, PTL DEF Spec, IInv

\* A dispatch finds grounds in the file it has read last: the records behind
\* its answer are not revoked, and have not lapsed since.
LEMMA DispatchHasGrounds ==
  ASSUME IInv, NEW r \in Requests, Dispatch(r)
  PROVE  /\ loaded[r] \in since[r]
         /\ loaded[r].whole
         /\ loaded[r].session.ours /\ Valid(loaded[r].session, now)
         /\ \E a \in OnlyApproval(loaded[r], r), p \in loaded[r].permissions :
              /\ p.for = r /\ Valid(p, now) /\ Valid(a, now)
              /\ evidence[r] = [approval |-> a.id, permission |-> p.id,
                   expiry |-> <<loaded[r].session.expires, a.expires, p.expires>>]
<1> DEFINE d == loaded[r]
<1>1. phase[r] = "confirmed" /\ Current(evidence[r]) /\ d \in Documents
  BY DEF Dispatch, Enter, IInv, TypeOK
<1>2. PICK time \in Nat : Grounds(d, r, time) /\ evidence[r] = References(d, r, time)
  BY <1>1 DEF IInv, AnswerInv
<1>3. PICK a \in OnlyApproval(d, r), p \in ValidPermissions(d, r, time) :
        /\ ~a.revoked
        /\ References(d, r, time) =
             [approval |-> a.id, permission |-> p.id,
              expiry |-> <<d.session.expires, a.expires, p.expires>>]
  BY <1>1, <1>2, AnswerIsGrounded
<1>4. d.session.expires > now /\ a.expires > now /\ p.expires > now
  BY <1>1, <1>2, <1>3 DEF Current
<1>5. p \in d.permissions /\ p.for = r /\ ~p.revoked
  BY <1>3 DEF ValidPermissions, Matching, Valid
<1>6. d.whole /\ d.session.ours /\ ~d.session.revoked
  BY <1>2 DEF Grounds, Valid
<1>7. d \in since[r]
  BY <1>1 DEF IInv, HistoryInv
<1>8. evidence[r] = [approval |-> a.id, permission |-> p.id,
                     expiry |-> <<d.session.expires, a.expires, p.expires>>]
  BY <1>2, <1>3
<1> QED  BY <1>3, <1>4, <1>5, <1>6, <1>7, <1>8 DEF Valid

\* DispatchIsLet for every instance: no dispatch without a file, in place since
\* the authorization, that lets the request through at that very time.
THEOREM Let == Spec => DispatchIsLet
<1>1. ASSUME IInv, NEW r \in Requests, Dispatch(r)
      PROVE  \E d \in since[r] : Lets(d, r, now)
  <2>1. PICK a \in OnlyApproval(loaded[r], r), p \in loaded[r].permissions :
          p.for = r /\ Valid(p, now) /\ Valid(a, now)
    BY <1>1, DispatchHasGrounds
  <2>2. a \in loaded[r].approvals /\ a.for = r
        /\ \A b \in loaded[r].approvals : b.for = r => b = a
    BY DEF OnlyApproval, Matching
  <2>3. Lets(loaded[r], r, now)
    BY <1>1, <2>1, <2>2, DispatchHasGrounds DEF Lets
  <2> QED  BY <1>1, <2>3, DispatchHasGrounds
<1>2. IInv => \A r \in Requests : Dispatch(r) => \E d \in since[r] : Lets(d, r, now)
  BY <1>1
<1> QED  BY <1>2, Inductive, PTL DEF DispatchIsLet

\* DispatchIsAsSigned for every instance: the evidence that was signed is the
\* answer of the last file read.
THEOREM AsSigned == Spec => DispatchIsAsSigned
<1>1. IInv => \A r \in Requests : Dispatch(r) =>
        \E a \in OnlyApproval(loaded[r], r), p \in loaded[r].permissions :
          /\ p.for = r /\ Valid(p, now) /\ Valid(a, now)
          /\ evidence[r] = [approval |-> a.id, permission |-> p.id,
               expiry |-> <<loaded[r].session.expires, a.expires, p.expires>>]
  BY DispatchHasGrounds
<1> QED  BY <1>1, Inductive, PTL DEF DispatchIsAsSigned

===============================================================================
