-------------------------- MODULE AuthorityBoundary --------------------------
(***************************************************************************)
(* What the execution gate promises, without how it keeps the promise: an  *)
(* attempt takes effect only after its authorization is on record, at most *)
(* once, and not after a verdict; the verdict agrees with the effect; and a *)
(* verdict is published only beside the authorization.                     *)
(*                                                                         *)
(* The promise is one-sided.  A record may appear after the verdict: the   *)
(* gate may stop waiting for a write that still lands.  A verdict may say  *)
(* "unknown" of an effect that is going on or that goes on to succeed.     *)
(***************************************************************************)
CONSTANTS Attempts

VARIABLES
  recorded,   \* attempts whose authorization is durable
  effect,     \* what has become of the governed handler of each attempt
  verdict,    \* "open", the outcome given, or "lost" with the process
  published   \* attempts whose receipt is durable

vars == <<recorded, effect, verdict, published>>

Results == {"succeeded", "reported_failure", "threw"}

TypeOK ==
  /\ recorded \in SUBSET Attempts
  /\ effect \in [Attempts -> Results \cup {"none", "running", "killed"}]
  /\ verdict \in [Attempts -> {"open", "lost", "not_started", "unknown",
                               "reported_success", "reported_failure"}]
  /\ published \in SUBSET Attempts

Init ==
  /\ recorded = {}
  /\ effect = [a \in Attempts |-> "none"]
  /\ verdict = [a \in Attempts |-> "open"]
  /\ published = {}

Record(a) ==
  /\ recorded' = recorded \cup {a}
  /\ UNCHANGED <<effect, verdict, published>>

TakeEffect(a) ==
  /\ a \in recorded
  /\ effect[a] = "none"
  /\ verdict[a] = "open"
  /\ effect' = [effect EXCEPT ![a] = "running"]
  /\ UNCHANGED <<recorded, verdict, published>>

EndEffect(a, result) ==
  /\ effect[a] = "running"
  /\ effect' = [effect EXCEPT ![a] = result]
  /\ UNCHANGED <<recorded, verdict, published>>

\* The verdicts that an effect permits.
Verdicts(e) ==
  {v \in {"not_started", "unknown", "reported_success", "reported_failure"} :
     /\ (v = "not_started") <=> (e = "none")
     /\ v = "reported_success" => e = "succeeded"
     /\ v = "reported_failure" => e = "reported_failure"}

Conclude(a, v) ==
  /\ verdict[a] = "open"
  /\ v \in Verdicts(effect[a])
  /\ verdict' = [verdict EXCEPT ![a] = v]
  /\ UNCHANGED <<recorded, effect, published>>

Publish(a) ==
  /\ a \in recorded
  /\ verdict[a] \notin {"open", "lost"}
  /\ published' = published \cup {a}
  /\ UNCHANGED <<recorded, effect, verdict>>

\* The process dies: the attempts it was serving get no verdict, and the
\* handlers it was running stop.
Crash(serving) ==
  /\ \A a \in serving : verdict[a] = "open"
  /\ verdict' = [a \in Attempts |-> IF a \in serving THEN "lost"
                                                    ELSE verdict[a]]
  /\ effect' = [a \in Attempts |-> IF effect[a] = "running" THEN "killed"
                                                           ELSE effect[a]]
  /\ UNCHANGED <<recorded, published>>

Next ==
  \/ \E a \in Attempts :
       \/ Record(a) \/ TakeEffect(a) \/ Publish(a)
       \/ \E result \in Results : EndEffect(a, result)
       \/ \E v \in Verdicts(effect[a]) : Conclude(a, v)
  \/ \E serving \in SUBSET Attempts : Crash(serving)

Spec == Init /\ [][Next]_vars

=============================================================================
