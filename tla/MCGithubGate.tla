---------------------------- MODULE MCGithubGate ----------------------------
(***************************************************************************)
(* What a job may find at its proof path: genuine bundles of both versions *)
(* and both languages, and every mixture of the parts of two of them.      *)
(***************************************************************************)
EXTENDS GithubGate

CONSTANTS q1, q2, k1, k2     \* requests and keys

Decision(request) == Decided(request)

OldRecord(request) == GateRecord(0, request)

OldV2 ==
  UNION {SignV2(OldRecord(q1), k1), SignV2(OldRecord(q2), k1),
         SignV2(OldRecord(q2), k2)}

Envelopes ==
  {Envelope(q2, TRUE, {}, Decided(q2)),
   Envelope(q2, TRUE, {"scope"}, Decided(q2)),
   Envelope(q2, FALSE, {}, Decided(q2))}

OldV1 ==
  {NodeSignBundle(e, k1) : e \in Envelopes}
    \cup {PythonSignBundle(e, k1) : e \in Envelopes}
    \cup {NodeSignBundle(Envelope(q1, TRUE, {}, Decided(q1)), k2)}

MCSigned == OldV1 \cup OldV2

\* Some fields of one bundle with the other fields of another.
Mixtures(S) ==
  {[f \in DOMAIN b |-> IF f \in F THEN b[f] ELSE c[f]] :
     b \in S, c \in S, F \in UNION {SUBSET DOMAIN b : b \in S}}

\* The same record, spelled otherwise; a changed label; a label left out.
Altered(b) ==
  {[b EXCEPT !.key_id = "absent"], [b EXCEPT !.key_id = "not a text"],
   [b EXCEPT !.kind = "absent"], [b EXCEPT !.kind = "null"]}

\* The bundle hash takes no key: a tool that edits a bundle can compute it again.
Rehashed(b) ==
  [b EXCEPT !.sha256_bundle = <<NodeText(b.envelope), b.envelope_hash, b.signature>>]

Respelled(b) ==
  {[b EXCEPT !.payload.spelling = s] : s \in {"spaced", "repeated key"}}

MCEarlier ==
  Mixtures(OldV1) \cup Mixtures(OldV2)
    \cup {Rehashed(b) : b \in Mixtures(OldV1)}
    \cup UNION {Altered(b) : b \in MCSigned}
    \cup UNION {Respelled(b) : b \in OldV2}
    \cup {Cut}

=============================================================================
