--------------------------- MODULE OperatorEvidence ---------------------------
(***************************************************************************)
(* The operator's evidence file and the provider that answers from it      *)
(* (sdk/node/operator-evidence.js).  The operator's tools                  *)
(* (mcp-server/example/local-harness.mjs, pqc/operator.mjs) rewrite the    *)
(* file while servers read it: approve() in place, approveBatch() by       *)
(* renaming a complete file over it.                                       *)
(*                                                                         *)
(* An attempt of the execution gate asks the provider twice, before it     *)
(* signs and after the authorization is retained, dispatches on equal      *)
(* answers only, and has the expiry of what it was told looked at in the   *)
(* segment that dispatches.                                                *)
(***************************************************************************)
EXTENDS Integers

CONSTANTS
  Requests,    \* exact actions; one attempt is made for each
  Lifetime,    \* of what the tools write (60 s in the code)
  MaxTime,     \* bound on the clock
  MaxEdits     \* bound on the operator's changes of the file

ASSUME EvidenceAssumption ==
  /\ Lifetime \in Nat \ {0} /\ MaxTime \in Nat /\ MaxEdits \in Nat

VARIABLES
  now,        \* the clock
  file,       \* the evidence file
  writing,    \* what approve() is about to write into the truncated file
  edits,      \* how often the operator has changed the file
  phase,      \* of each attempt; see Phases
  loaded,     \* the content the provider has read for it last
  evidence,   \* the answer the attempt holds
  since       \* history: what the file has held since the authorization

operatorVars == <<file, writing, edits>>
attemptVars == <<phase, loaded, evidence>>
vars == <<now, operatorVars, attemptVars, since>>

-----------------------------------------------------------------------------
\* A permission or an approval of one request.  `id` tells those of one request
\* apart, and orders the permissions in the file.
Grants == [id : 1..2, for : Requests, expires : Nat, revoked : BOOLEAN]

Sessions == [ours : BOOLEAN, expires : Nat, revoked : BOOLEAN]

\* A file that is not whole does not parse; `{}` has neither session nor grants.
Documents ==
  [whole : BOOLEAN, session : Sessions, permissions : SUBSET Grants,
   approvals : SUBSET Grants]

NoSession == [ours |-> FALSE, expires |-> 0, revoked |-> FALSE]

Blank == [whole |-> TRUE, session |-> NoSession, permissions |-> {},
          approvals |-> {}]

Torn == [Blank EXCEPT !.whole = FALSE]

Nothing == [approval |-> 0, permission |-> 0, expiry |-> <<0, 0, 0>>]

Answers == [approval : 0..2, permission : 0..2, expiry : Nat \X Nat \X Nat]

Phases == {"idle", "loaded", "held", "reloaded", "confirmed", "dispatched",
           "stopped"}

TypeOK ==
  /\ now \in 0..MaxTime
  /\ file \in Documents
  /\ writing \in Documents
  /\ edits \in 0..MaxEdits
  /\ phase \in [Requests -> Phases]
  /\ loaded \in [Requests -> Documents]
  /\ evidence \in [Requests -> Answers]
  /\ since \in [Requests -> SUBSET Documents]

Init ==
  /\ now = 0
  /\ file = Blank
  /\ writing = Torn
  /\ edits = 0
  /\ phase = [r \in Requests |-> "idle"]
  /\ loaded = [r \in Requests |-> Blank]
  /\ evidence = [r \in Requests |-> Nothing]
  /\ since = [r \in Requests |-> {}]

-----------------------------------------------------------------------------
(***************************************************************************)
(* The provider                                                            *)
(***************************************************************************)
Valid(g, time) == ~g.revoked /\ g.expires > time

Matching(grants, r) == {g \in grants : g.for = r}

\* Mutant: any approval of the request will do.
SomeApproval(d, r) == Matching(d.approvals, r)

\* The approval that counts: the only one that matches, if there is one only.
OnlyApproval(d, r) ==
  {a \in Matching(d.approvals, r) : \A b \in Matching(d.approvals, r) : b = a}

ValidPermissions(d, r, time) ==
  {g \in Matching(d.permissions, r) : Valid(g, time)}

\* find() takes the first valid one.
FirstPermission(d, r, time) ==
  CHOOSE g \in ValidPermissions(d, r, time) :
    \A h \in ValidPermissions(d, r, time) : g.id <= h.id

Grounds(d, r, time) ==
  /\ d.whole
  /\ d.session.ours /\ Valid(d.session, time)
  /\ ValidPermissions(d, r, time) # {}
  /\ \E a \in OnlyApproval(d, r) : Valid(a, time)

References(d, r, time) ==
  LET a == CHOOSE a \in OnlyApproval(d, r) : TRUE
      p == FirstPermission(d, r, time)
  IN  [approval |-> a.id, permission |-> p.id,
       expiry |-> <<d.session.expires, a.expires, p.expires>>]

\* assertCurrent.
Current(e) == \A i \in 1..3 : e.expiry[i] > now

-----------------------------------------------------------------------------
(***************************************************************************)
(* An attempt                                                              *)
(***************************************************************************)
Enter(r, from, to) ==
  /\ phase[r] = from
  /\ phase' = [phase EXCEPT ![r] = to]

\* loadState() reads the file; the clock is read when it has.
Load(r, from, to) ==
  /\ Enter(r, from, to)
  /\ file.whole
  /\ loaded' = [loaded EXCEPT ![r] = file]
  /\ UNCHANGED <<now, operatorVars, evidence, since>>

FirstLoad(r) == Load(r, "idle", "loaded")

SecondLoad(r) == Load(r, "held", "reloaded")

\* The first answer; the gate signs it and retains the authorization.
Resolve(r) ==
  /\ Enter(r, "loaded", "held")
  /\ Grounds(loaded[r], r, now)
  /\ evidence' = [evidence EXCEPT ![r] = References(loaded[r], r, now)]
  /\ since' = [since EXCEPT ![r] = {file}]
  /\ UNCHANGED <<now, operatorVars, loaded>>

\* Mutant: the second answer is not compared with the first.
ResolveAgainUncompared(r) ==
  /\ Enter(r, "reloaded", "confirmed")
  /\ Grounds(loaded[r], r, now)
  /\ UNCHANGED <<now, operatorVars, loaded, evidence, since>>

\* The second answer must equal the first.
ResolveAgain(r) ==
  /\ Enter(r, "reloaded", "confirmed")
  /\ Grounds(loaded[r], r, now)
  /\ References(loaded[r], r, now) = evidence[r]
  /\ UNCHANGED <<now, operatorVars, loaded, evidence, since>>

\* No await between the last look at the evidence and the handler.
Dispatch(r) ==
  /\ Enter(r, "confirmed", "dispatched")
  /\ Current(evidence[r])
  /\ UNCHANGED <<now, operatorVars, loaded, evidence, since>>

\* A file that does not parse, an answer refused or changed, an expiry, or any
\* other reason the gate has.
Stop(r) ==
  /\ phase[r] \notin {"dispatched", "stopped"}
  /\ phase' = [phase EXCEPT ![r] = "stopped"]
  /\ UNCHANGED <<now, operatorVars, loaded, evidence, since>>

Attempt(r) ==
  \/ FirstLoad(r) \/ Resolve(r) \/ SecondLoad(r) \/ ResolveAgain(r)
  \/ Dispatch(r) \/ Stop(r)

-----------------------------------------------------------------------------
(***************************************************************************)
(* The operator                                                            *)
(***************************************************************************)
Fresh(id, r) ==
  [id |-> id, for |-> r, expires |-> now + Lifetime, revoked |-> FALSE]

\* A session, and a permission and an approval of each of the requests.
Approving(R) ==
  [whole |-> TRUE,
   session |-> [ours |-> TRUE, expires |-> now + Lifetime, revoked |-> FALSE],
   permissions |-> {Fresh(1, r) : r \in R},
   approvals |-> {Fresh(1, r) : r \in R}]

\* Attempts past their first answer have seen the file change.
Put(content) ==
  /\ file' = content
  /\ since' = [r \in Requests |->
                 IF since[r] = {} THEN {} ELSE since[r] \cup {content}]
  /\ UNCHANGED <<now, attemptVars>>

Edit == edits < MaxEdits /\ edits' = edits + 1

\* approve() truncates the file and then writes it.
Approve(r) ==
  /\ Edit /\ file.whole
  /\ writing' = Approving({r})
  /\ Put(Torn)

FinishWriting ==
  /\ ~file.whole
  /\ Put(writing)
  /\ UNCHANGED <<writing, edits>>

\* approveBatch() of distinct requests.
ApproveBatch(R) ==
  /\ Edit /\ R # {}
  /\ Put(Approving(R))
  /\ UNCHANGED writing

\* The operator withdraws the session or some grants, prolongs a permission by
\* a second one, or approves a request twice.
Amended(d) ==
  {[d EXCEPT !.session.revoked = TRUE]}
  \cup {[d EXCEPT !.permissions = (@ \ {g}) \cup {[g EXCEPT !.revoked = TRUE]}] :
         g \in d.permissions}
  \cup {[d EXCEPT !.approvals = (@ \ {g}) \cup {[g EXCEPT !.revoked = TRUE]}] :
         g \in d.approvals}
  \cup {[d EXCEPT !.permissions = @ \cup {Fresh(2, g.for)}] :
         g \in d.permissions}
  \cup {[d EXCEPT !.approvals = @ \cup {Fresh(2, g.for)}] :
         g \in d.approvals}

Amend ==
  /\ Edit /\ file.whole
  /\ \E d \in Amended(file) : Put(d)
  /\ UNCHANGED writing

Tick ==
  /\ now < MaxTime
  /\ now' = now + 1
  /\ UNCHANGED <<operatorVars, attemptVars, since>>

Next ==
  \/ \E r \in Requests : Attempt(r) \/ Approve(r)
  \/ \E R \in SUBSET Requests : ApproveBatch(R)
  \/ FinishWriting \/ Amend \/ Tick

Spec == Init /\ [][Next]_vars

-----------------------------------------------------------------------------
(***************************************************************************)
(* Properties                                                              *)
(***************************************************************************)

\* What the operator means by a document: at this time it lets the request
\* through.
Lets(d, r, time) ==
  /\ d.whole
  /\ d.session.ours /\ Valid(d.session, time)
  /\ \E p \in d.permissions : p.for = r /\ Valid(p, time)
  /\ \E a \in d.approvals :
       /\ a.for = r /\ Valid(a, time)
       /\ \A b \in d.approvals : b.for = r => b = a

\* A handler is dispatched only if a file that the operator has had in place
\* since the authorization lets the request through at that very time, however
\* the file is rewritten or amended in between and whichever of its records
\* the provider has picked (resolve, assertCurrent; the gate's comparison).
DispatchIsLet ==
  [][\A r \in Requests : Dispatch(r) =>
       \E d \in since[r] : Lets(d, r, now)]_vars

\* The evidence that was signed is not replaced on the way to the handler: at
\* the dispatch the last file read gives exactly the answer the attempt has
\* held since before it signed (execute: EVIDENCE_CHANGED).
DispatchIsAsSigned ==
  [][\A r \in Requests : Dispatch(r) =>
       \E a \in OnlyApproval(loaded[r], r), p \in loaded[r].permissions :
         /\ p.for = r /\ Valid(p, now) /\ Valid(a, now)
         /\ evidence[r] = [approval |-> a.id, permission |-> p.id,
              expiry |-> <<loaded[r].session.expires, a.expires, p.expires>>]]_vars

===============================================================================
