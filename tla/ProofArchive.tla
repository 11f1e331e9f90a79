----------------------------- MODULE ProofArchive -----------------------------
(***************************************************************************)
(* The verification material of post-quantum proofs: what a server retains *)
(* of its policy and of its public keys before it serves                   *)
(* (sdk/node/pqc/archive-material.mjs, in the reference server), how the   *)
(* key store changes between two starts, and whether an archived proof is  *)
(* accepted afterwards by the archive's command line (verify-cli.mjs) and  *)
(* by the key store (verifyHistorical).                                    *)
(*                                                                         *)
(* The server and the operator's maintenance hold the key store in turn    *)
(* (LocalKeyStore).  Either can stop at any point, and a power loss undoes *)
(* whatever no fsync has covered, a change of the key store included.      *)
(***************************************************************************)
EXTENDS ProofFormats, LocalFiles

CONSTANTS
  Changes,       \* changes of the key store; a rotation makes a key set
  MaxRevision,   \* bound on revisions
  MaxStops       \* bound on crashes and power losses

VARIABLES
  registry,    \* the public registry as each change has left it
  lineage,     \* history: the changes that each change includes, itself too
  store,       \* the change that a reader of the key store finds
  synced,      \* the change that no power loss can undo
  at,          \* where the server, or the maintenance, is
  artifact,    \* the artifact that the server is retaining
  acked,       \* acknowledged bundles, with the change each was signed under
  stops        \* crashes and power losses so far

keyVars == <<registry, lineage, store, synced>>
history == <<acked, stops>>

\* The policy is named by its digest, a registry by its revision.
PolicyFile == <<"policy", 0>>

TrustFile(revision) == <<"public-trust", revision>>

Artifacts == {PolicyFile} \cup {TrustFile(n) : n \in 0..MaxRevision}

ASSUME ArchiveAssumption ==
  /\ MaxRevision \in Nat /\ MaxStops \in Nat
  /\ Names = Artifacts
  /\ {"initialized", "none", "report policy", Absent, Partial} \cap Changes = {}

vars == <<fileVars, keyVars, at, artifact, history>>

-----------------------------------------------------------------------------
(***************************************************************************)
(* The key store.  A change is known by the identifiers it draws, so two   *)
(* changes never leave the same bytes.                                     *)
(***************************************************************************)
Initial == "initialized"

NoKeySet == "none"

NoRegistry == [revision |-> 0, active |-> NoKeySet, known |-> {}, revoked |-> {}]

Current == registry[store]

Made == {c \in Changes : registry[c] # NoRegistry}

\* Both algorithms have a key of their own in each key set.
KeysOf(set) == [a \in Algorithms |-> <<set, a>>]

Init ==
  /\ files = [n \in Names |-> Absent]
  /\ flushed = Names /\ linked = {} /\ directory = "lost"
  /\ registry = [c \in Changes \cup {Initial} |-> NoRegistry]
  /\ lineage = [c \in Changes \cup {Initial} |-> {c} \cap {Initial}]
  /\ store = Initial /\ synced = Initial
  /\ at = "stopped" /\ artifact = "policy"
  /\ acked = {} /\ stops = 0

\* The identifiers that the next change draws; which ones makes no difference.
Drawn == CHOOSE c \in Changes : c \notin Made

\* The rename of persist(); what follows is the fsync.
Persist(next) ==
  /\ at = "stopped" /\ at' = "changing"
  /\ Made # Changes /\ Current.revision < MaxRevision
  /\ registry' = [registry EXCEPT ![Drawn] = next]
  /\ lineage' = [lineage EXCEPT ![Drawn] = lineage[store] \cup {Drawn}]
  /\ store' = Drawn
  /\ UNCHANGED <<fileVars, synced, artifact, history>>

\* Mutant: a rotation counts only the first time.
RotateUncounted ==
  Persist([Current EXCEPT !.active = Drawn, !.known = @ \cup {Drawn},
                          !.revision = 1])

\* Mutant: retiring the last key set counts as a change of its own.
RotateTwice ==
  Persist([Current EXCEPT !.active = Drawn, !.known = @ \cup {Drawn},
                          !.revision = @ + 2])

Rotate ==
  Persist([revision |-> Current.revision + 1, active |-> Drawn,
           known |-> Current.known \cup {Drawn}, revoked |-> Current.revoked])

Revoke(set) ==
  /\ set \in Current.known \ Current.revoked
  /\ Persist([revision |-> Current.revision + 1,
              active |-> IF Current.active = set THEN NoKeySet ELSE Current.active,
              known |-> Current.known, revoked |-> Current.revoked \cup {set}])

SyncStore ==
  /\ at = "changing" /\ at' = "stopped"
  /\ synced' = store
  /\ UNCHANGED <<fileVars, registry, lineage, store, artifact, history>>

-----------------------------------------------------------------------------
(***************************************************************************)
(* The start of the server: retainVerificationMaterial()                   *)
(***************************************************************************)
Goto(from, to) == at = from /\ at' = to

Place == IF artifact = "policy" THEN PolicyFile ELSE TrustFile(Current.revision)

Value == IF artifact = "policy" THEN "report policy" ELSE store

Start ==
  /\ Goto("stopped", "open") /\ artifact' = "policy"
  /\ IF directory = "lost" THEN MakeDirectory ELSE UNCHANGED fileVars
  /\ UNCHANGED <<keyVars, history>>

\* Mutant: an artifact of an earlier start is written again.
CreateAgain ==
  /\ Goto("open", "write") /\ Fill(Place, Partial)
  /\ UNCHANGED <<keyVars, artifact, history>>

Create ==
  /\ Goto("open", "write") /\ CreateExclusive(Place)
  /\ UNCHANGED <<keyVars, artifact, history>>

\* Mutant: an artifact that exists is never accepted.
CompareNone ==
  /\ Goto("open", "stopped") /\ files[Place] # Absent
  /\ UNCHANGED <<fileVars, keyVars, artifact, history>>

\* What an earlier start has left is kept if it has the same bytes, and refused
\* otherwise.
Compare ==
  /\ files[Place] # Absent
  /\ Goto("open", IF files[Place] = Value THEN "flush" ELSE "stopped")
  /\ UNCHANGED <<fileVars, keyVars, artifact, history>>

Write ==
  /\ Goto("write", "flush") /\ Fill(Place, Value)
  /\ UNCHANGED <<keyVars, artifact, history>>

FlushArtifact ==
  /\ Goto("flush", IF artifact = "policy" THEN "open" ELSE "root")
  /\ artifact' = "trust"
  /\ Flush(Place)
  /\ UNCHANGED <<keyVars, history>>

FlushRoot ==
  /\ Goto("root", "parent") /\ FlushDirectory
  /\ UNCHANGED <<keyVars, artifact, history>>

FlushProofs ==
  /\ Goto("parent", "serving") /\ FlushParent
  /\ UNCHANGED <<keyVars, artifact, history>>

Starting ==
  Start \/ Create \/ Compare \/ Write \/ FlushArtifact \/ FlushRoot \/ FlushProofs

-----------------------------------------------------------------------------
\* The record of an allowed action under a captured key set.
Record(set, revision) ==
  [request_id |-> <<set, revision>>, intent |-> {"export"},
   decision |-> "ALLOWED", reason_code |-> "POLICY_SATISFIED",
   policy_digest |-> Digest(3, "report policy"),
   action |-> {"export"}, action_digest |-> {Digest(3, "export")},
   evidence |-> {[key_set_id |-> set, key_revision |-> revision]},
   digest_profile |-> "sha384"]

\* The gate's sink has acknowledged an authorization (LocalProofSink).
Acknowledge ==
  /\ at = "serving" /\ Current.active # NoKeySet
  /\ \E b \in SignV3(Record(Current.active, Current.revision),
                     KeysOf(Current.active)) :
       acked' = acked \cup {[bundle |-> b, change |-> store]}
  /\ UNCHANGED <<fileVars, keyVars, at, artifact, stops>>

Stop ==
  /\ Goto("serving", "stopped")
  /\ UNCHANGED <<fileVars, keyVars, artifact, history>>

\* The process that runs ends: a signal, or an error of a write or an fsync.
Crash ==
  /\ stops < MaxStops /\ stops' = stops + 1
  /\ at # "stopped" /\ at' = "stopped"
  /\ UNCHANGED <<fileVars, keyVars, artifact, acked>>

\* What a power loss may leave: the last change that is synced, or one of those
\* that were renamed into place after it.
Survivors == {c \in lineage[store] : synced \in lineage[c]}

PowerLoss ==
  /\ stops < MaxStops /\ stops' = stops + 1
  /\ at' = "stopped"
  /\ IF directory = "lost" THEN UNCHANGED fileVars ELSE PowerFails
  /\ store' \in Survivors /\ synced' = store'
  /\ UNCHANGED <<registry, lineage, artifact, acked>>

Next ==
  \/ Rotate
  \/ \E set \in Changes : Revoke(set)
  \/ SyncStore
  \/ Starting
  \/ Acknowledge \/ Stop
  \/ Crash \/ PowerLoss

\* Whoever starts the server starts it again, and what has been begun is gone on
\* with.
Fairness == WF_vars(Starting) /\ WF_vars(SyncStore)

Spec == Init /\ [][Next]_vars /\ Fairness

-----------------------------------------------------------------------------
(***************************************************************************)
(* Who accepts an archived bundle, under the key set it is said to be of   *)
(***************************************************************************)
Accepts(r, b, set) ==
  /\ set \in r.known
  /\ VerifyV3(b, KeysOf(set))
  /\ MatchesArchiveContext(b.payload.record, set, r.revision)

\* The command line with the registry that it finds under a revision.
CliAccepts(b, set, revision) ==
  files[TrustFile(revision)] \in DOMAIN registry
    /\ Accepts(registry[files[TrustFile(revision)]], b, set)

\* The key store itself, as it stands.
VerifyHistorical(b, set) == Accepts(Current, b, set)

-----------------------------------------------------------------------------
(***************************************************************************)
(* Properties                                                              *)
(***************************************************************************)
Steps == {"stopped", "changing", "open", "write", "flush", "root", "parent",
          "serving"}

Registries ==
  [revision : 0..MaxRevision, active : Changes \cup {NoKeySet},
   known : SUBSET Changes, revoked : SUBSET Changes]

Values == Changes \cup {Initial, "report policy", Absent, Partial}

TypeOK ==
  /\ files \in [Names -> Values]
  /\ flushed \subseteq Names /\ linked \subseteq Names
  /\ directory \in {"created", "durable", "lost"}
  /\ registry \in [Changes \cup {Initial} -> Registries]
  /\ lineage \in [Changes \cup {Initial} -> SUBSET (Made \cup {Initial})]
  /\ store \in Made \cup {Initial} /\ synced \in Made \cup {Initial}
  /\ at \in Steps /\ artifact \in {"policy", "trust"}
  /\ stops \in 0..MaxStops

\* The key set and the revision that a signed record names.
Named(b) == CHOOSE context \in b.payload.record.evidence : TRUE

\* Every acknowledged bundle is accepted with the artifact of the revision it
\* names, which holds the registry that it was signed under and no other: after
\* any crash and power loss, also one that makes the store use a revision
\* twice (retain, archive-material.mjs).
AcknowledgedVerifies ==
  \A a \in acked :
    LET n == Named(a.bundle) IN
    /\ files[TrustFile(n.key_revision)] = a.change
    /\ CliAccepts(a.bundle, n.key_set_id, n.key_revision)

\* No later rotation, revocation, crash or power loss takes an acknowledged
\* bundle out of what the key store itself accepts, as long as the change that
\* it was signed under has not been undone itself: also when others have been,
\* and their revisions are used again (verifyHistorical, local-keys.mjs).
LaterTrustVerifies ==
  \A a \in acked :
    a.change \in lineage[store] =>
      VerifyHistorical(a.bundle, Named(a.bundle).key_set_id)

\* Parts of two bundles, down to the signatures of each algorithm: some of b, the
\* others of c.
Mixed(b, c, K, S, F) ==
  [f \in HybridFields |->
    CASE f = "keys" -> [x \in Algorithms |-> IF x \in K THEN b.keys[x] ELSE c.keys[x]]
      [] f = "signatures" ->
           [x \in Algorithms |-> IF x \in S THEN b.signatures[x] ELSE c.signatures[x]]
      [] OTHER -> IF f \in F THEN b[f] ELSE c[f]]

Mixtures(b, c) ==
  {Mixed(b, c, K, S, F) : K \in SUBSET Algorithms, S \in SUBSET Algorithms,
                          F \in SUBSET {"payload", "payload_hash"}}

\* Of all that can be put together from the parts of acknowledged bundles, the
\* registry of no revision accepts anything but those bundles, each under its
\* own key set only (verify, proof.cjs; matchesArchiveContext).
OnlySignedVerifies ==
  \A a, z \in acked : \A m \in Mixtures(a.bundle, z.bundle) :
    \A set \in Changes, n \in 0..MaxRevision :
      CliAccepts(m, set, n) =>
        /\ m \in {a.bundle, z.bundle}
        /\ set = Named(m).key_set_id

\* An artifact that the server needs is cut off or of another registry.
Blocked ==
  \/ files[PolicyFile] \notin {Absent, "report policy"}
  \/ files[TrustFile(Current.revision)] \notin {Absent, store}

\* It takes an interruption to block a start that is not writing (the exclusive
\* creation and comparison of retain).
BlockedByInterruption == Blocked /\ at \in {"stopped", "serving"} => stops > 0

\* The server comes to serve again and again, as long as it is started and
\* nothing blocks it: what earlier starts have left does not stop it.
EventuallyServes == []<>(at = "serving" \/ Blocked)

=============================================================================
