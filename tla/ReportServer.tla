----------------------------- MODULE ReportServer -----------------------------
(***************************************************************************)
(* A process that serves governed report exports: the MCP binding          *)
(* (integrations/mcp-server/index.js), the admission limit                 *)
(* (example/pqc/admission.mjs) and the report tools with their             *)
(* precondition and handler (example/pqc/reference.mjs).                   *)
(*                                                                         *)
(* The execution gate between them is what AuthorityBoundary promises: it  *)
(* may stop a call before its dispatch, dispatches it after the            *)
(* precondition at most once, and may give up a handler that goes on.      *)
(***************************************************************************)
EXTENDS Naturals, FiniteSets

CONSTANTS
  Calls,       \* tool calls
  Reports,     \* report identifiers
  ReportOf,    \* the report each call exports
  Capacity,    \* of the admission limit
  MaxChanges   \* bound on changes of the tool's definition

Absent == "absent"
Partial == "partial"

ASSUME ServerAssumption ==
  /\ IsFiniteSet(Calls)
  /\ ReportOf \in [Calls -> Reports]
  /\ Capacity \in Nat \ {0}
  /\ MaxChanges \in Nat
  /\ Absent \notin Calls /\ Partial \notin Calls

VARIABLES
  definition,  \* "registered", or "changed" since the registration
  changes,     \* how often it has changed
  pc,          \* where each call is
  inFlight,    \* calls inside the admission limit
  effect,      \* what the handler of each call has done
  result,      \* what each call is told
  report       \* the files in the report directory

vars == <<definition, changes, pc, inFlight, effect, result, report>>

\* The stages of execute(): up to the precondition, its two halves, the
\* handler, and what follows the outcome.
Stages == {"gate", "precondition", "absent", "handler", "receipt"}

BeforeDispatch == {"gate", "precondition", "absent"}

Results == {"none", "refused", "capacity", "not_started", "reported_success",
            "unknown"}

TypeOK ==
  /\ definition \in {"registered", "changed"}
  /\ changes \in 0..MaxChanges
  /\ pc \in [Calls -> Stages \cup {"idle", "resolve", "answered", "lost"}]
  /\ inFlight \in Nat
  /\ effect \in [Calls -> {"none", "open", "write", "sync", "done", "failed", "stopped"}]
  /\ result \in [Calls -> Results]
  /\ report \in [Reports -> Calls \cup {Absent, Partial}]

Init ==
  /\ definition = "registered"
  /\ changes = 0
  /\ pc = [c \in Calls |-> "idle"]
  /\ inFlight = 0
  /\ effect = [c \in Calls |-> "none"]
  /\ result = [c \in Calls |-> "none"]
  /\ report = [r \in Reports |-> Absent]

At(c, place) == pc[c] = place

Goto(c, place) == pc' = [pc EXCEPT ![c] = place]

Tell(c, told) == result' = [result EXCEPT ![c] = told]

-----------------------------------------------------------------------------
(***************************************************************************)
(* The binding's callback and the admission limit.                         *)
(***************************************************************************)

\* Cancelled, resumed or malformed calls are refused at any time.
Refuse(c) ==
  /\ pc[c] \in {"idle", "resolve"}
  /\ Goto(c, "answered") /\ Tell(c, "refused")
  /\ UNCHANGED <<definition, changes, inFlight, effect, report>>

\* The definition is the registered one, and the action is being resolved.
Receive(c) ==
  /\ At(c, "idle") /\ definition = "registered"
  /\ Goto(c, "resolve")
  /\ UNCHANGED <<definition, changes, inFlight, effect, result, report>>

\* Mutant: the limit is compared with >.
AdmitOneMore(c) ==
  /\ At(c, "resolve") /\ inFlight <= Capacity
  /\ Goto(c, "gate") /\ inFlight' = inFlight + 1
  /\ UNCHANGED <<definition, changes, effect, result, report>>

Admit(c) ==
  /\ At(c, "resolve") /\ inFlight < Capacity
  /\ Goto(c, "gate") /\ inFlight' = inFlight + 1
  /\ UNCHANGED <<definition, changes, effect, result, report>>

TurnAway(c) ==
  /\ At(c, "resolve") /\ inFlight >= Capacity
  /\ Goto(c, "answered") /\ Tell(c, "capacity")
  /\ UNCHANGED <<definition, changes, inFlight, effect, report>>

\* execute() returns, and the slot is given back.
Answer(c) ==
  /\ At(c, "receipt")
  /\ Goto(c, "answered") /\ inFlight' = inFlight - 1
  /\ UNCHANGED <<definition, changes, effect, result, report>>

-----------------------------------------------------------------------------
(***************************************************************************)
(* execute()                                                               *)
(***************************************************************************)

\* The gate stops the call: no authorization, a failed precondition, a
\* timeout, a caller that cancels, evidence or keys that have changed.
Stop(c) ==
  /\ pc[c] \in BeforeDispatch
  /\ Goto(c, "receipt") /\ Tell(c, "not_started")
  /\ UNCHANGED <<definition, changes, inFlight, effect, report>>

\* The precondition begins with the second look at the definition.
EnterPrecondition(c) ==
  /\ At(c, "gate") /\ definition = "registered"
  /\ Goto(c, "precondition")
  /\ UNCHANGED <<definition, changes, inFlight, effect, result, report>>

\* lstat finds no report.
FindAbsent(c) ==
  /\ At(c, "precondition") /\ report[ReportOf[c]] = Absent
  /\ Goto(c, "absent")
  /\ UNCHANGED <<definition, changes, inFlight, effect, result, report>>

Dispatch(c) ==
  /\ At(c, "absent")
  /\ Goto(c, "handler") /\ effect' = [effect EXCEPT ![c] = "open"]
  /\ UNCHANGED <<definition, changes, inFlight, result, report>>

Complete(c) ==
  /\ At(c, "handler") /\ effect[c] = "done"
  /\ Goto(c, "receipt") /\ Tell(c, "reported_success")
  /\ UNCHANGED <<definition, changes, inFlight, effect, report>>

\* Mutant: the gate waits for its handler.
HandlerThrew(c) ==
  /\ At(c, "handler") /\ effect[c] = "failed"
  /\ Goto(c, "receipt") /\ Tell(c, "unknown")
  /\ UNCHANGED <<definition, changes, inFlight, effect, report>>

\* Mutant: a cancelled call is told that nothing has happened.
CancelledUnresolved(c) ==
  /\ At(c, "handler")
  /\ Goto(c, "receipt") /\ Tell(c, "not_started")
  /\ UNCHANGED <<definition, changes, inFlight, effect, report>>

\* The handler has thrown, or the gate waits no longer.
Unresolved(c) ==
  /\ At(c, "handler")
  /\ Goto(c, "receipt") /\ Tell(c, "unknown")
  /\ UNCHANGED <<definition, changes, inFlight, effect, report>>

-----------------------------------------------------------------------------
(***************************************************************************)
(* The handler, whether or not the gate still waits for it.                *)
(***************************************************************************)
HandlerGoes(c, from, to, content) ==
  /\ effect[c] = from
  /\ effect' = [effect EXCEPT ![c] = to]
  /\ report' = [report EXCEPT ![ReportOf[c]] = content]
  /\ UNCHANGED <<definition, changes, pc, inFlight, result>>

\* Mutant: the flag "w" in place of "wx".
OpenTruncating(c) == HandlerGoes(c, "open", "write", Partial)

OpenReport(c) ==
  report[ReportOf[c]] = Absent /\ HandlerGoes(c, "open", "write", Partial)

WriteReport(c) == HandlerGoes(c, "write", "sync", c)

SyncReport(c) == HandlerGoes(c, "sync", "done", report[ReportOf[c]])

\* Opening fails if there is a report; any step may fail.
HandlerFails(c) ==
  \E from \in {"open", "write", "sync"} :
    HandlerGoes(c, from, "failed", report[ReportOf[c]])

-----------------------------------------------------------------------------
\* The schema that the application has exported is changed or restored.
ChangeDefinition ==
  /\ changes < MaxChanges
  /\ changes' = changes + 1
  /\ definition' = IF definition = "registered" THEN "changed" ELSE "registered"
  /\ UNCHANGED <<pc, inFlight, effect, result, report>>

\* The process stops, and a new one registers the tools and serves the calls
\* that have not been made yet.
Restart ==
  /\ pc' = [c \in Calls |-> IF pc[c] \in Stages \cup {"resolve"} THEN "lost" ELSE pc[c]]
  /\ effect' = [c \in Calls |-> IF effect[c] \in {"open", "write", "sync"}
                                THEN "stopped" ELSE effect[c]]
  /\ inFlight' = 0
  /\ definition' = "registered"
  /\ UNCHANGED <<changes, result, report>>

Bind(c) == Refuse(c) \/ Receive(c) \/ Admit(c) \/ TurnAway(c)

Execute(c) ==
  \/ Stop(c) \/ EnterPrecondition(c) \/ FindAbsent(c) \/ Dispatch(c)
  \/ Complete(c) \/ Unresolved(c) \/ Answer(c)

Handle(c) == OpenReport(c) \/ WriteReport(c) \/ SyncReport(c) \/ HandlerFails(c)

Next ==
  \/ \E c \in Calls : Bind(c) \/ Execute(c) \/ Handle(c)
  \/ ChangeDefinition
  \/ Restart

Spec == Init /\ [][Next]_vars

\* execute() settles by its timers, whatever the handler does.
GateSettles(c) == Stop(c) \/ Complete(c) \/ Unresolved(c) \/ Answer(c)

FairSpec == Spec /\ \A c \in Calls : WF_vars(GateSettles(c))

-----------------------------------------------------------------------------
(***************************************************************************)
(* Properties                                                              *)
(***************************************************************************)
InGate == {c \in Calls : pc[c] \in Stages}

\* The counter is the number of calls inside execute(), so that every slot is
\* given back exactly once, and never exceeds the capacity
\* (withAdmissionLimit).
AdmissionBounds == inFlight = Cardinality(InGate) /\ inFlight <= Capacity

\* A call that reports success has made its report, and the report stays what
\* the call has written, whichever calls, retries and abandoned handlers are at
\* the same report, and over restarts (the handler's exclusive creation).
SuccessIsExclusive ==
  \A c \in Calls :
    result[c] = "reported_success" => report[ReportOf[c]] = c

\* A call that is told it has not been started never has an effect, then or
\* later (fail, CAPACITY_EXCEEDED, not_started).
NotStartedHasNoEffect ==
  \A c \in Calls :
    result[c] \in {"refused", "capacity", "not_started"} =>
      effect[c] = "none" /\ report[ReportOf[c]] # c

\* A handler that never ends does not keep its slot.
SlotsAreReturned == \A c \in Calls : c \in InGate ~> c \notin InGate

===============================================================================
