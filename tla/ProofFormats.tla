----------------------------- MODULE ProofFormats -----------------------------
(***************************************************************************)
(* The three proof formats and who accepts them: what each signs, what is  *)
(* left out, and what the verifiers of both languages compare.             *)
(*                                                                         *)
(* A hash is modelled by what is hashed, a key's identity by the key and a *)
(* serialization by what it determines.  A field that may be null is a set *)
(* of at most one value.                                                   *)
(***************************************************************************)
EXTENDS Naturals

KindV1 == "vella_proof_bundle_v1"
KindV2 == "vella_proof_bundle_v2"
KindV3 == "vella_proof_bundle_v3"

\* What a file may hold instead of a bundle.
Nothing == [kind |-> "no file"]
Cut == [kind |-> "cut off"]

-----------------------------------------------------------------------------
(***************************************************************************)
(* Signatures: only the holder of the key makes one of a message.          *)
(***************************************************************************)
Signature(key, message) == [by |-> key, of |-> message]

IsSignature(s, key, message) == s = Signature(key, message)

-----------------------------------------------------------------------------
(***************************************************************************)
(* Version 1: an envelope of fields, one of which may be nested.           *)
(***************************************************************************)
Envelope(request, ascii, proposed, decided) ==
  [request |-> request, ascii |-> ascii, proposed |-> proposed,
   decision |-> decided.decision, reason_code |-> decided.reason_code]

\* Node's list of keys to serialize drops the fields of nested values.
NodeText(e) == [escaped |-> FALSE, fields |-> [e EXCEPT !.proposed = {}]]

\* Python keeps them, and escapes what is not ASCII.
PythonText(e) == [escaped |-> ~e.ascii, fields |-> e]

SignedEnvelope(e, text, key) ==
  [kind |-> KindV1, envelope |-> e, envelope_hash |-> text,
   signature |-> Signature(key, text),
   sha256_bundle |-> <<text, text, Signature(key, text)>>, key_id |-> key]

NodeSignBundle(e, key) == SignedEnvelope(e, NodeText(e), key)

PythonSignBundle(e, key) == SignedEnvelope(e, PythonText(e), key)

LegacyFields == {"envelope", "envelope_hash", "signature", "sha256_bundle"}

\* Mutant: the signed hash is not compared with the fields.
EnvelopeUnchecked(b, text, key) ==
  /\ LegacyFields \subseteq DOMAIN b
  /\ IsSignature(b.signature, key, b.envelope_hash)
  /\ b.sha256_bundle = <<text, b.envelope_hash, b.signature>>

SubsetIsSigned(b, text, key) ==
  /\ LegacyFields \subseteq DOMAIN b
  /\ b.envelope_hash = text
  /\ IsSignature(b.signature, key, b.envelope_hash)
  /\ b.sha256_bundle = <<text, b.envelope_hash, b.signature>>

NodeVerifyLegacy(b, key) ==
  /\ SubsetIsSigned(b, NodeText(b.envelope), key)
  /\ b.key_id \in {"absent", key}

\* Only a text is compared with the key.
PythonVerifyLegacy(b, key) ==
  /\ SubsetIsSigned(b, PythonText(b.envelope), key)
  /\ b.key_id \in {"absent", "not a text", key}

-----------------------------------------------------------------------------
(***************************************************************************)
(* The record that versions 2 and 3 sign.                                  *)
(***************************************************************************)
SharedFields ==
  {"request_id", "intent", "decision", "reason_code", "policy_digest",
   "action", "action_digest", "evidence"}

RecordFields(version) ==
  IF version = 3 THEN SharedFields \cup {"digest_profile"} ELSE SharedFields

Digest(version, value) == <<version, value>>

\* validateRecord in both languages.
ValidRecord(version, r) ==
  /\ DOMAIN r = RecordFields(version)
  /\ r.decision \in {"ALLOWED", "DENIED"}
  /\ r.decision = "ALLOWED" <=> r.reason_code = "POLICY_SATISFIED"
  /\ r.decision = "ALLOWED" => r.intent # {}
  /\ r.policy_digest[1] = version
  /\ r.action_digest = {Digest(version, a) : a \in r.action}

\* The bytes that are signed: a record may be spelled in several ways, and one
\* that repeats a key is not a record.
Payload(r, spelling) == [record |-> r, spelling |-> spelling]

Parses(payload) == payload.spelling # "repeated key"

-----------------------------------------------------------------------------
(***************************************************************************)
(* Version 2: one signature over the type and the bytes of the record.     *)
(***************************************************************************)
BundleFields ==
  {"kind", "payload_type", "payload", "signature", "key_id", "payload_hash"}

Pae(type, bytes) == [type |-> type, bytes |-> bytes]

SignV2(r, key) ==
  LET payload == Payload(r, "plain")
      message == Pae("v2", payload)
  IN IF ValidRecord(2, r)
     THEN {[kind |-> KindV2, payload_type |-> "v2", payload |-> payload,
            signature |-> Signature(key, message), key_id |-> key,
            payload_hash |-> message]}
     ELSE {}

\* Mutant: the record is serialized again before its signature is checked.
VerifyV2Respelled(b, key) ==
  LET message == Pae("v2", Payload(b.payload.record, "plain")) IN
  /\ DOMAIN b = BundleFields
  /\ b.kind = KindV2 /\ b.payload_type = "v2"
  /\ b.key_id = key
  /\ b.payload_hash = message
  /\ IsSignature(b.signature, key, message)
  /\ Parses(b.payload) /\ ValidRecord(2, b.payload.record)

VerifyV2(b, key) ==
  LET message == Pae("v2", b.payload) IN
  /\ DOMAIN b = BundleFields
  /\ b.kind = KindV2 /\ b.payload_type = "v2"
  /\ b.key_id = key
  /\ b.payload_hash = message
  /\ IsSignature(b.signature, key, message)
  /\ Parses(b.payload) /\ ValidRecord(2, b.payload.record)

\* prepare_verification of Python, which verify_v2 completes.
PreparedV2(b, key) ==
  /\ DOMAIN b = BundleFields
  /\ b.kind = KindV2 /\ b.payload_type = "v2"
  /\ b.key_id = key
  /\ b.payload_hash = Pae("v2", b.payload)

PythonVerifyV2(b, key) ==
  /\ PreparedV2(b, key)
  /\ IsSignature(b.signature, key, Pae("v2", b.payload))
  /\ Parses(b.payload) /\ ValidRecord(2, b.payload.record)

-----------------------------------------------------------------------------
(***************************************************************************)
(* The standalone verifiers of versions 1 and 2 choose by kind and type.   *)
(***************************************************************************)
IsV2(b) == b.kind = KindV2 \/ "payload_type" \in DOMAIN b

NodeVerify(b, key) ==
  \/ IsV2(b) /\ VerifyV2(b, key)
  \/ ~IsV2(b) /\ b.kind \in {"absent", KindV1} /\ NodeVerifyLegacy(b, key)

\* get() takes a kind that is null for one that is absent.
PythonVerify(b, key) ==
  \/ IsV2(b) /\ PythonVerifyV2(b, key)
  \/ /\ ~IsV2(b) /\ b.kind \in {"absent", "null", KindV1}
     /\ PythonVerifyLegacy(b, key)

\* The commands read a file first.
IsBundle(content) == content \notin {Nothing, Cut}

NodeAccepts(content, key) == IsBundle(content) /\ NodeVerify(content, key)

PythonAccepts(content, key) == IsBundle(content) /\ PythonVerify(content, key)

-----------------------------------------------------------------------------
(***************************************************************************)
(* Version 3: two signatures over the record and the keys that sign it.    *)
(***************************************************************************)
Algorithms == {"ecdsa-p256-sha256", "ml-dsa-65"}

HybridFields ==
  {"kind", "payload_type", "payload", "keys", "signatures", "payload_hash"}

Message(payload, keys) == <<Pae("v3", payload), Pae("v3 policy", keys)>>

SignV3(r, keys) ==
  LET payload == Payload(r, "plain")
      message == Message(payload, keys)
  IN IF ValidRecord(3, r)
     THEN {[kind |-> KindV3, payload_type |-> "v3", payload |-> payload,
            keys |-> keys,
            signatures |-> [a \in Algorithms |-> Signature(keys[a], message)],
            payload_hash |-> message]}
     ELSE {}

\* Mutant: the first signature is taken for both.
VerifyV3First(b, keys) ==
  LET message == Message(b.payload, b.keys)
      a == "ecdsa-p256-sha256"
  IN /\ DOMAIN b = HybridFields
     /\ b.kind = KindV3 /\ b.payload_type = "v3"
     /\ Parses(b.payload) /\ ValidRecord(3, b.payload.record)
     /\ b.payload_hash = message
     /\ b.keys[a] = keys[a] /\ IsSignature(b.signatures[a], keys[a], message)

VerifyV3(b, keys) ==
  LET message == Message(b.payload, b.keys) IN
  /\ DOMAIN b = HybridFields
  /\ b.kind = KindV3 /\ b.payload_type = "v3"
  /\ Parses(b.payload) /\ ValidRecord(3, b.payload.record)
  /\ b.payload_hash = message
  /\ \A a \in Algorithms :
       b.keys[a] = keys[a] /\ IsSignature(b.signatures[a], keys[a], message)

\* Mutant: only the registry of the very revision is trusted.
MatchesThisRevision(r, id, revision) ==
  \A context \in r.evidence :
    context.key_set_id = id /\ context.key_revision = revision

\* The key set that a record names, if it names one, is the one it is checked
\* against, at a revision the registry knows.
MatchesArchiveContext(r, id, revision) ==
  \A context \in r.evidence :
    context.key_set_id = id /\ context.key_revision \in 1..revision

=============================================================================
