-------------------------- MODULE ProofArchiveProofs --------------------------
(***************************************************************************)
(* Type correctness and the properties of the retained verification        *)
(* material, for any changes of the key store and any number of crashes    *)
(* and power losses.                                                       *)
(***************************************************************************)
EXTENDS ProofArchive, TLAPS

-----------------------------------------------------------------------------
(***************************************************************************)
(* Types                                                                   *)
(***************************************************************************)
\* A change that has been made has a revision above the initial one, and its
\* active key set is one it knows.
RegistryInv ==
  /\ registry[Initial] = NoRegistry
  /\ \A c \in Made : registry[c].revision > 0
  /\ \A c \in Changes \cup {Initial} :
       registry[c].active \in registry[c].known \cup {NoKeySet}

TypeInv == TypeOK /\ RegistryInv

LEMMA BoundTyped == MaxRevision \in Nat /\ MaxStops \in Nat
BY ArchiveAssumption

LEMMA CurrentTyped == TypeInv => /\ store \in Changes \cup {Initial}
                                 /\ Current \in Registries
                                 /\ Current.revision \in 0..MaxRevision
BY DEF TypeInv, TypeOK, Made, Current, Registries

LEMMA PlaceTyped == TypeInv => Place \in Names /\ Value \in Values
<1>1. ASSUME TypeInv PROVE Place \in Names
  BY <1>1, CurrentTyped, ArchiveAssumption DEF Place, Artifacts
<1>2. ASSUME TypeInv PROVE Value \in Values
  BY <1>2, CurrentTyped DEF Value, Values
<1> QED BY <1>1, <1>2

LEMMA DrawnNew == Made # Changes => Drawn \in Changes /\ Drawn \notin Made
<1>1. Made \subseteq Changes BY DEF Made
<1>2. ASSUME Made # Changes PROVE \E c \in Changes : c \notin Made
  BY <1>1, <1>2
<1> QED BY <1>2 DEF Drawn

\* A registry that may follow another.
Follows(r, next) ==
  /\ next \in Registries
  /\ next.revision = r.revision + 1
  /\ r.known \subseteq next.known
  /\ next.active \in next.known \cup {NoKeySet}

LEMMA RotationFollows ==
  ASSUME NEW r \in Registries, NEW set \in Changes, r.revision < MaxRevision
  PROVE  Follows(r, [revision |-> r.revision + 1, active |-> set,
                     known |-> r.known \cup {set}, revoked |-> r.revoked])
<1> DEFINE next == [revision |-> r.revision + 1, active |-> set,
                    known |-> r.known \cup {set}, revoked |-> r.revoked]
<1>1. r.revision + 1 \in 0..MaxRevision BY BoundTyped DEF Registries
<1>2. next \in Registries BY <1>1 DEF Registries
<1> QED BY <1>2 DEF Follows

LEMMA RevocationFollows ==
  ASSUME NEW r \in Registries, NEW set \in Changes, r.revision < MaxRevision,
         r.active \in r.known \cup {NoKeySet}
  PROVE  Follows(r, [revision |-> r.revision + 1,
                     active |-> IF r.active = set THEN NoKeySet ELSE r.active,
                     known |-> r.known, revoked |-> r.revoked \cup {set}])
<1> DEFINE active == IF r.active = set THEN NoKeySet ELSE r.active
           next == [revision |-> r.revision + 1, active |-> active,
                    known |-> r.known, revoked |-> r.revoked \cup {set}]
<1>1. active \in Changes \cup {NoKeySet} /\ active \in r.known \cup {NoKeySet}
  BY DEF Registries
<1>2. r.revision + 1 \in 0..MaxRevision BY BoundTyped DEF Registries
<1>3. next \in Registries BY <1>1, <1>2 DEF Registries
<1> QED BY <1>1, <1>3 DEF Follows

\* A change of the key store adds a registry and touches no other.
LEMMA PersistMakes ==
  ASSUME TypeInv, NEW next, Follows(registry[store], next), Persist(next)
  PROVE  /\ registry' \in [Changes \cup {Initial} -> Registries]
         /\ registry'[Drawn] = next
         /\ \A c \in Changes \cup {Initial} : c # Drawn => registry'[c] = registry[c]
         /\ Made' = Made \cup {Drawn}
         /\ Drawn \in Changes /\ Drawn \notin Made
         /\ lineage'[Drawn] = lineage[store] \cup {Drawn}
         /\ \A c \in Changes \cup {Initial} : c # Drawn => lineage'[c] = lineage[c]
         /\ lineage' \in [Changes \cup {Initial} -> SUBSET (Made' \cup {Initial})]
<1>1. Drawn \in Changes /\ Drawn \notin Made BY DrawnNew DEF Persist
<1>2. next \in Registries /\ next.revision > 0
  BY CurrentTyped DEF Follows, Current
<1>3. next # NoRegistry BY <1>2 DEF NoRegistry
<1>4. registry' = [registry EXCEPT ![Drawn] = next] BY DEF Persist
<1>5. registry \in [Changes \cup {Initial} -> Registries] BY DEF TypeInv, TypeOK
<1>6. registry' \in [Changes \cup {Initial} -> Registries]
  BY <1>1, <1>2, <1>4, <1>5
<1>7. registry'[Drawn] = next BY <1>1, <1>4, <1>5
<1>8. \A c \in Changes \cup {Initial} : c # Drawn => registry'[c] = registry[c]
  BY <1>4, <1>5
<1>9. Made' = Made \cup {Drawn}
  <2>1. Made' = {c \in Changes : registry'[c] # NoRegistry} BY DEF Made, NoRegistry
  <2> QED BY <1>1, <1>3, <1>7, <1>8, <2>1 DEF Made
<1>10. /\ lineage'[Drawn] = lineage[store] \cup {Drawn}
       /\ \A c \in Changes \cup {Initial} : c # Drawn => lineage'[c] = lineage[c]
       /\ lineage' \in [Changes \cup {Initial} -> SUBSET (Made' \cup {Initial})]
  <2>1. lineage \in [Changes \cup {Initial} -> SUBSET (Made \cup {Initial})]
    BY DEF TypeInv, TypeOK
  <2>2. lineage' = [lineage EXCEPT ![Drawn] = lineage[store] \cup {Drawn}]
    BY DEF Persist
  <2>3. store \in Changes \cup {Initial} BY CurrentTyped
  <2> QED BY <1>1, <1>9, <2>1, <2>2, <2>3
<1> QED BY <1>1, <1>6, <1>7, <1>8, <1>9, <1>10

\* The disk keeps its types whatever is done to it.
DiskTyped ==
  /\ files \in [Names -> Values]
  /\ flushed \subseteq Names /\ linked \subseteq Names
  /\ directory \in {"created", "durable", "lost"}

LEMMA DiskKept ==
  ASSUME DiskTyped,
         \/ UNCHANGED fileVars
         \/ MakeDirectory
         \/ \E n \in Names : CreateExclusive(n) \/ Flush(n)
         \/ \E n \in Names, v \in Values : Fill(n, v)
         \/ FlushDirectory \/ FlushParent \/ PowerFails
  PROVE  DiskTyped'
<1>0. Absent \in Values /\ Partial \in Values BY DEF Values
<1>1. CASE UNCHANGED fileVars BY <1>1 DEF DiskTyped, fileVars
<1>2. CASE MakeDirectory BY <1>2 DEF DiskTyped, MakeDirectory
<1>3. CASE \E n \in Names : CreateExclusive(n)
  BY <1>0, <1>3 DEF DiskTyped, CreateExclusive
<1>4. CASE \E n \in Names : Flush(n) BY <1>4 DEF DiskTyped, Flush
<1>5. CASE \E n \in Names, v \in Values : Fill(n, v) BY <1>5 DEF DiskTyped, Fill
<1>6. CASE FlushDirectory BY <1>6 DEF DiskTyped, FlushDirectory
<1>7. CASE FlushParent BY <1>7 DEF DiskTyped, FlushParent
<1>8. CASE PowerFails
  <2>1. linked' \subseteq Names /\ flushed' \subseteq Names
    BY <1>8 DEF PowerFails
  <2>2. CASE LoseDirectory
    BY <1>0, <2>1, <2>2 DEF DiskTyped, LoseDirectory
  <2>3. CASE LoseFiles
    <3>1. PICK gone \in SUBSET (Names \ linked), torn \in SUBSET (Names \ flushed) :
            files' = [n \in Names |->
                        IF n \in gone THEN Absent
                        ELSE IF n \in torn /\ files[n] # Absent THEN Partial
                        ELSE files[n]]
      BY <2>3 DEF LoseFiles
    <3>2. files' \in [Names -> Values] BY <1>0, <3>1 DEF DiskTyped
    <3> QED BY <2>1, <2>3, <3>2 DEF DiskTyped, LoseFiles
  <2> QED BY <1>8, <2>2, <2>3 DEF PowerFails
<1> QED BY <1>1, <1>2, <1>3, <1>4, <1>5, <1>6, <1>7, <1>8

\* The same of the key store, for what makes no change of it.
LEMMA StoreKept ==
  ASSUME TypeInv, UNCHANGED <<registry, lineage>>,
         store' \in Made \cup {Initial}, synced' \in Made \cup {Initial},
         DiskTyped', at' \in Steps, artifact' \in {"policy", "trust"},
         stops' \in 0..MaxStops
  PROVE  TypeInv'
<1>1. Made' = Made BY DEF Made
<1>2. RegistryInv' BY <1>1 DEF TypeInv, RegistryInv, Initial, NoRegistry, NoKeySet
<1>3. TypeOK' BY <1>1 DEF TypeInv, TypeOK, DiskTyped, Registries, Values, Steps
<1> QED BY <1>2, <1>3 DEF TypeInv

LEMMA PersistTyped ==
  ASSUME TypeInv, NEW next, Follows(registry[store], next), Persist(next)
  PROVE  TypeInv'
<1>1. /\ registry' \in [Changes \cup {Initial} -> Registries]
      /\ registry'[Drawn] = next
      /\ \A c \in Changes \cup {Initial} : c # Drawn => registry'[c] = registry[c]
      /\ Made' = Made \cup {Drawn}
      /\ Drawn \in Changes /\ Drawn \notin Made
      /\ lineage' \in [Changes \cup {Initial} -> SUBSET (Made' \cup {Initial})]
  BY PersistMakes
<1>2. store' = Drawn /\ synced' = synced /\ at' = "changing"
  BY DEF Persist
<1>3. UNCHANGED <<fileVars, artifact, history>> BY DEF Persist
<1>4. Initial \notin Changes BY ArchiveAssumption DEF Initial
<1>5. next.revision > 0 /\ next.active \in next.known \cup {NoKeySet}
  BY CurrentTyped DEF Follows, Current
<1>6. RegistryInv'
  <2>1. registry'[Initial] = NoRegistry
    BY <1>1, <1>4 DEF TypeInv, RegistryInv
  <2>2. \A c \in Made' : registry'[c].revision > 0
    BY <1>1, <1>5 DEF TypeInv, RegistryInv, Made
  <2>3. \A c \in Changes \cup {Initial} :
          registry'[c].active \in registry'[c].known \cup {NoKeySet}
    BY <1>1, <1>5 DEF TypeInv, RegistryInv
  <2> QED BY <2>1, <2>2, <2>3 DEF RegistryInv, Initial, NoRegistry, NoKeySet
<1>7. TypeOK'
  BY <1>1, <1>2, <1>3
  DEF TypeInv, TypeOK, fileVars, history, Steps, Registries, Values
<1> QED BY <1>6, <1>7 DEF TypeInv

LEMMA RotateFollows ==
  ASSUME TypeInv, Rotate
  PROVE  \E next : Follows(registry[store], next) /\ Persist(next)
<1>1. PICK r \in Registries : r = registry[store]
  BY CurrentTyped DEF Current
<1>2. Drawn \in Changes BY DrawnNew DEF Rotate, Persist
<1>3. r.revision < MaxRevision BY <1>1 DEF Rotate, Persist, Current
<1> DEFINE next == [revision |-> r.revision + 1, active |-> Drawn,
                    known |-> r.known \cup {Drawn}, revoked |-> r.revoked]
<1>4. Follows(r, next) BY <1>1, <1>2, <1>3, RotationFollows
<1>5. Persist(next) BY <1>1 DEF Rotate, Current
<1> QED BY <1>1, <1>4, <1>5

LEMMA RevokeFollows ==
  ASSUME TypeInv, NEW set \in Changes, Revoke(set)
  PROVE  \E next : Follows(registry[store], next) /\ Persist(next)
<1>1. PICK r \in Registries : r = registry[store]
  BY CurrentTyped DEF Current
<1>2. r.active \in r.known \cup {NoKeySet}
  BY <1>1, CurrentTyped DEF TypeInv, RegistryInv
<1>3. r.revision < MaxRevision BY <1>1 DEF Revoke, Persist, Current
<1> DEFINE next == [revision |-> r.revision + 1,
                    active |-> IF r.active = set THEN NoKeySet ELSE r.active,
                    known |-> r.known, revoked |-> r.revoked \cup {set}]
<1>4. Follows(r, next) BY <1>1, <1>2, <1>3, RevocationFollows
<1>5. Persist(next) BY <1>1 DEF Revoke, Current
<1> QED BY <1>1, <1>4, <1>5

LEMMA InitTyped == Init => TypeInv
<1> SUFFICES ASSUME Init PROVE TypeInv OBVIOUS
<1>1. NoRegistry \in Registries BY BoundTyped DEF NoRegistry, Registries
<1>2. registry = [c \in Changes \cup {Initial} |-> NoRegistry] BY DEF Init
<1>3. Made = {} BY <1>2 DEF Made
<1>4. RegistryInv BY <1>2, <1>3 DEF RegistryInv, NoRegistry
<1>5. registry \in [Changes \cup {Initial} -> Registries] BY <1>1, <1>2
<1>6. stops \in 0..MaxStops BY BoundTyped DEF Init
<1>7. lineage \in [Changes \cup {Initial} -> SUBSET (Made \cup {Initial})]
  BY DEF Init
<1>8. TypeOK BY <1>5, <1>6, <1>7 DEF Init, TypeOK, Values, Steps
<1> QED BY <1>4, <1>8 DEF TypeInv

LEMMA StepTyped == TypeInv /\ [Next]_vars => TypeInv'
<1> SUFFICES ASSUME TypeInv, [Next]_vars PROVE TypeInv' OBVIOUS
<1>1. DiskTyped BY DEF TypeInv, TypeOK, DiskTyped
<1>2. Place \in Names /\ Value \in Values /\ Partial \in Values
  BY PlaceTyped DEF Values
<1>3. /\ store \in Made \cup {Initial} /\ synced \in Made \cup {Initial}
      /\ at \in Steps /\ artifact \in {"policy", "trust"}
      /\ stops \in 0..MaxStops
  BY DEF TypeInv, TypeOK
<1>4. CASE Rotate BY <1>4, RotateFollows, PersistTyped
<1>5. CASE \E set \in Changes : Revoke(set) BY <1>5, RevokeFollows, PersistTyped
<1>6. CASE SyncStore
  <2>1. DiskTyped' BY <1>1, <1>6, DiskKept DEF SyncStore
  <2> QED BY <1>3, <1>6, <2>1, StoreKept DEF SyncStore, history, Steps
<1>7. CASE Starting
  <2>1. DiskTyped'
    BY <1>1, <1>2, <1>7, DiskKept
    DEF Starting, Start, Create, Compare, Write, FlushArtifact, FlushRoot, FlushProofs
  <2>2. UNCHANGED <<registry, lineage, store, synced, stops>>
    BY <1>7
    DEF Starting, Start, Create, Compare, Write, FlushArtifact, FlushRoot,
        FlushProofs, keyVars, history
  <2>3. at' \in Steps /\ artifact' \in {"policy", "trust"}
    BY <1>3, <1>7
    DEF Starting, Start, Create, Compare, Write, FlushArtifact, FlushRoot,
        FlushProofs, Goto, Steps
  <2> QED BY <1>3, <2>1, <2>2, <2>3, StoreKept
<1>8. CASE Acknowledge
  <2>1. DiskTyped' BY <1>1, <1>8, DiskKept DEF Acknowledge
  <2> QED BY <1>3, <1>8, <2>1, StoreKept DEF Acknowledge, keyVars
<1>9. CASE Stop
  <2>1. DiskTyped' BY <1>1, <1>9, DiskKept DEF Stop
  <2> QED BY <1>3, <1>9, <2>1, StoreKept DEF Stop, keyVars, history, Goto, Steps
<1>10. CASE Crash
  <2>1. DiskTyped' BY <1>1, <1>10, DiskKept DEF Crash
  <2>2. stops' \in 0..MaxStops
    BY <1>3, <1>10, BoundTyped DEF Crash
  <2> QED BY <1>3, <1>10, <2>1, <2>2, StoreKept DEF Crash, keyVars, Steps
<1>11. CASE PowerLoss
  <2>1. DiskTyped' BY <1>1, <1>11, DiskKept DEF PowerLoss
  <2>2. stops' \in 0..MaxStops
    BY <1>3, <1>11, BoundTyped DEF PowerLoss
  <2>3. store' \in Made \cup {Initial} /\ synced' = store'
    BY <1>3, <1>11, CurrentTyped DEF PowerLoss, Survivors, TypeInv, TypeOK
  <2> QED BY <1>3, <1>11, <2>1, <2>2, <2>3, StoreKept DEF PowerLoss, Steps
<1>12. CASE UNCHANGED vars
  <2>1. DiskTyped' BY <1>1, <1>12, DiskKept DEF vars
  <2> QED BY <1>3, <1>12, <2>1, StoreKept DEF vars, keyVars, history
<1> QED
  BY <1>4, <1>5, <1>6, <1>7, <1>8, <1>9, <1>10, <1>11, <1>12 DEF Next

\* Registries, artifacts and the points of the server's start keep their types,
\* for any changes and any number of crashes and power losses.
THEOREM TypeCorrect == Spec => []TypeOK
<1>1. Init => TypeInv BY InitTyped
<1>2. TypeInv /\ [Next]_vars => TypeInv' BY StepTyped
<1>3. TypeInv => TypeOK BY DEF TypeInv
<1> QED BY <1>1, <1>2, <1>3, PTL DEF Spec

-----------------------------------------------------------------------------
(***************************************************************************)
(* What a start has reached                                                *)
(***************************************************************************)
StageInv ==
  /\ at = "write" => files[Place] = Partial
  /\ at \in {"flush", "root", "parent", "serving"} => files[Place] = Value
  /\ at \in {"root", "parent", "serving"} => artifact = "trust" /\ Place \in flushed
  /\ at \in {"parent", "serving"} => Place \in linked
  /\ at = "serving" => directory = "durable"

LEMMA PlaceKept ==
  UNCHANGED <<keyVars, artifact>> => Place' = Place /\ Value' = Value
BY DEF keyVars, Place, Value, Current, TrustFile, PolicyFile

LEMMA StageStep == TypeInv /\ StageInv /\ [Next]_vars => StageInv'
<1> SUFFICES ASSUME TypeInv, StageInv, [Next]_vars PROVE StageInv' OBVIOUS
<1>0. at' \in {"stopped", "changing", "open"} => StageInv' BY DEF StageInv
<1>1. Place \in Names /\ files \in [Names -> Values]
  BY PlaceTyped DEF TypeInv, TypeOK
<1>2. CASE Rotate BY <1>0, <1>2 DEF Rotate, Persist
<1>3. CASE \E set \in Changes : Revoke(set) BY <1>0, <1>3 DEF Revoke, Persist
<1>4. CASE SyncStore BY <1>0, <1>4 DEF SyncStore
<1>5. CASE Start BY <1>0, <1>5 DEF Start, Goto
<1>6. CASE Create
  <2>1. Place' = Place /\ at' = "write" BY <1>6, PlaceKept DEF Create, Goto
  <2>2. files'[Place] = Partial BY <1>1, <1>6 DEF Create, CreateExclusive
  <2> QED BY <2>1, <2>2 DEF StageInv
<1>7. CASE Compare
  <2>1. Place' = Place /\ Value' = Value /\ files' = files
    BY <1>7, PlaceKept DEF Compare, fileVars
  <2>2. CASE files[Place] = Value
    <3>1. at' = "flush" BY <1>7, <2>2 DEF Compare, Goto
    <3> QED BY <2>1, <2>2, <3>1 DEF StageInv
  <2>3. CASE files[Place] # Value
    <3>1. at' = "stopped" BY <1>7, <2>3 DEF Compare, Goto
    <3> QED BY <1>0, <3>1
  <2> QED BY <2>2, <2>3
<1>8. CASE Write
  <2>1. Place' = Place /\ Value' = Value /\ at' = "flush"
    BY <1>8, PlaceKept DEF Write, Goto
  <2>2. files'[Place] = Value BY <1>1, <1>8 DEF Write, Fill
  <2> QED BY <2>1, <2>2 DEF StageInv
<1>9. CASE FlushArtifact
  <2>1. CASE artifact = "policy"
    BY <1>0, <1>9, <2>1 DEF FlushArtifact, Goto
  <2>2. CASE artifact = "trust"
    <3>1. Place' = Place /\ Value' = Value
      BY <1>9, <2>2, PlaceKept DEF FlushArtifact
    <3>2. at = "flush" /\ at' = "root" /\ artifact' = "trust"
      BY <1>9, <2>2 DEF FlushArtifact, Goto
    <3>3. files' = files /\ Place \in flushed' BY <1>9 DEF FlushArtifact, Flush
    <3> QED BY <3>1, <3>2, <3>3 DEF StageInv
  <2> QED BY <2>1, <2>2 DEF TypeInv, TypeOK
<1>10. CASE FlushRoot
  <2>1. Place' = Place /\ Value' = Value /\ artifact' = artifact
    BY <1>10, PlaceKept DEF FlushRoot
  <2>2. at = "root" /\ at' = "parent" BY <1>10 DEF FlushRoot, Goto
  <2>3. files' = files /\ flushed' = flushed
    BY <1>10 DEF FlushRoot, FlushDirectory
  <2>4. files[Place] = store /\ artifact = "trust" BY <2>2 DEF StageInv, Value
  <2>5. store # Absent BY CurrentTyped, ArchiveAssumption DEF Initial, Absent
  <2>6. Place \in linked'
    BY <1>1, <1>10, <2>4, <2>5 DEF FlushRoot, FlushDirectory
  <2> QED BY <2>1, <2>2, <2>3, <2>6 DEF StageInv
<1>11. CASE FlushProofs
  <2>1. Place' = Place /\ Value' = Value /\ artifact' = artifact
    BY <1>11, PlaceKept DEF FlushProofs
  <2>2. at = "parent" /\ at' = "serving" BY <1>11 DEF FlushProofs, Goto
  <2>3. /\ files' = files /\ flushed' = flushed /\ linked' = linked
        /\ directory' = "durable"
    BY <1>11 DEF FlushProofs, FlushParent
  <2> QED BY <2>1, <2>2, <2>3 DEF StageInv
<1>12. CASE Acknowledge
  <2>1. Place' = Place /\ Value' = Value BY <1>12, PlaceKept DEF Acknowledge
  <2>2. UNCHANGED <<fileVars, at, artifact>> BY <1>12 DEF Acknowledge
  <2> QED BY <2>1, <2>2 DEF StageInv, fileVars
<1>13. CASE Stop BY <1>0, <1>13 DEF Stop, Goto
<1>14. CASE Crash BY <1>0, <1>14 DEF Crash
<1>15. CASE PowerLoss BY <1>0, <1>15 DEF PowerLoss
<1>16. CASE UNCHANGED vars
  <2>1. Place' = Place /\ Value' = Value BY <1>16, PlaceKept DEF vars
  <2> QED BY <1>16, <2>1 DEF StageInv, vars, fileVars
<1> QED
  BY <1>2, <1>3, <1>4, <1>5, <1>6, <1>7, <1>8, <1>9, <1>10, <1>11, <1>12, <1>13,
     <1>14, <1>15, <1>16 DEF Next, Starting

-----------------------------------------------------------------------------
(***************************************************************************)
(* The bundle of a record under a key set and a revision                   *)
(***************************************************************************)
SignedMessage(set, revision) ==
  Message(Payload(Record(set, revision), "plain"), KeysOf(set))

Bundle(set, revision) ==
  [kind |-> KindV3, payload_type |-> "v3",
   payload |-> Payload(Record(set, revision), "plain"), keys |-> KeysOf(set),
   signatures |->
     [a \in Algorithms |-> Signature(KeysOf(set)[a], SignedMessage(set, revision))],
   payload_hash |-> SignedMessage(set, revision)]

LEMMA RecordValid ==
  ASSUME NEW set, NEW revision PROVE ValidRecord(3, Record(set, revision))
<1> DEFINE r == Record(set, revision)
<1>1. DOMAIN r = RecordFields(3) BY DEF Record, RecordFields, SharedFields
<1>2. r.decision = "ALLOWED" /\ r.reason_code = "POLICY_SATISFIED" BY DEF Record
<1>3. r.intent # {} BY DEF Record
<1>4. r.policy_digest[1] = 3 BY DEF Record, Digest
<1>5. r.action_digest = {Digest(3, a) : a \in r.action} BY DEF Record
<1> QED BY <1>1, <1>2, <1>3, <1>4, <1>5 DEF ValidRecord

LEMMA OnlyBundle ==
  ASSUME NEW set, NEW revision
  PROVE  SignV3(Record(set, revision), KeysOf(set)) = {Bundle(set, revision)}
BY RecordValid DEF SignV3, Bundle, SignedMessage

LEMMA BundleVerifies ==
  ASSUME NEW set, NEW revision
  PROVE  VerifyV3(Bundle(set, revision), KeysOf(set))
<1> DEFINE b == Bundle(set, revision)
<1>1. DOMAIN b = HybridFields BY DEF Bundle, HybridFields
<1>2. /\ b.kind = KindV3 /\ b.payload_type = "v3"
      /\ b.payload = Payload(Record(set, revision), "plain")
      /\ b.keys = KeysOf(set)
      /\ b.payload_hash = SignedMessage(set, revision)
      /\ b.signatures =
           [a \in Algorithms |-> Signature(KeysOf(set)[a], SignedMessage(set, revision))]
  BY DEF Bundle
<1>3. b.payload.record = Record(set, revision) /\ Parses(b.payload)
  BY <1>2 DEF Payload, Parses
<1>4. Message(b.payload, b.keys) = SignedMessage(set, revision)
  BY <1>2 DEF SignedMessage
<1>5. \A a \in Algorithms :
        IsSignature(b.signatures[a], KeysOf(set)[a], SignedMessage(set, revision))
  BY <1>2 DEF IsSignature
<1>6. ValidRecord(3, b.payload.record) BY <1>3, RecordValid
<1>7. \A a \in Algorithms :
        /\ b.keys[a] = KeysOf(set)[a]
        /\ IsSignature(b.signatures[a], KeysOf(set)[a], Message(b.payload, b.keys))
  BY <1>2, <1>4, <1>5
<1> QED BY <1>1, <1>2, <1>3, <1>4, <1>6, <1>7 DEF VerifyV3

LEMMA BundleNames ==
  ASSUME NEW set, NEW revision
  PROVE  /\ Bundle(set, revision).payload.record.evidence =
              {[key_set_id |-> set, key_revision |-> revision]}
         /\ Named(Bundle(set, revision)) =
              [key_set_id |-> set, key_revision |-> revision]
<1>1. Bundle(set, revision).payload.record = Record(set, revision)
  BY DEF Bundle, Payload
<1>2. Bundle(set, revision).payload.record.evidence =
        {[key_set_id |-> set, key_revision |-> revision]}
  <2>1. Record(set, revision).evidence =
          {[key_set_id |-> set, key_revision |-> revision]}
    BY DEF Record
  <2> QED BY <1>1, <2>1
<1> DEFINE context == [key_set_id |-> set, key_revision |-> revision]
<1>3. Named(Bundle(set, revision)) = context
  <2>1. (CHOOSE c \in {context} : TRUE) = context OBVIOUS
  <2> HIDE DEF context
  <2> QED BY <1>2, <2>1 DEF Named, context
<1> QED BY <1>2, <1>3

\* A registry accepts the bundle of a key set it knows and of a revision that it
\* has reached.
LEMMA RegistryAccepts ==
  ASSUME NEW r, NEW set \in r.known, NEW n \in 1..r.revision
  PROVE  Accepts(r, Bundle(set, n), set)
<1>1. MatchesArchiveContext(Bundle(set, n).payload.record, set, r.revision)
  BY BundleNames DEF MatchesArchiveContext
<1> QED BY <1>1, BundleVerifies DEF Accepts

-----------------------------------------------------------------------------
(***************************************************************************)
(* Acknowledged bundles and what is retained for them                      *)
(***************************************************************************)
\* The artifact of a change's revision holds that change, and no power loss can
\* take it.
Retained(c) ==
  LET n == TrustFile(registry[c].revision) IN
  /\ n \in Names
  /\ files[n] = c /\ n \in flushed /\ n \in linked

SignedUnder(a) ==
  /\ a.change \in Made
  /\ \E set \in registry[a.change].known :
       a.bundle = Bundle(set, registry[a.change].revision)

AckInv ==
  /\ \A a \in acked : SignedUnder(a) /\ Retained(a.change)
  /\ acked # {} => directory = "durable"

\* Artifacts that hold something and are down on the disk stay, whatever is done.
LEMMA DurableKept ==
  ASSUME NEW n \in Names, NEW c, c \notin {Absent, Partial},
         files \in [Names -> Values],
         files[n] = c, n \in flushed, n \in linked, directory = "durable",
         \/ UNCHANGED fileVars
         \/ MakeDirectory
         \/ \E m \in Names : CreateExclusive(m) \/ Flush(m)
         \/ \E m \in Names, v \in Values : files[m] = Partial /\ Fill(m, v)
         \/ FlushDirectory \/ FlushParent \/ PowerFails
  PROVE  files'[n] = c /\ n \in flushed' /\ n \in linked' /\ directory' = "durable"
<1>1. CASE UNCHANGED fileVars BY <1>1 DEF fileVars
<1>2. CASE MakeDirectory BY <1>2 DEF MakeDirectory
<1>3. ASSUME NEW m \in Names, CreateExclusive(m)
      PROVE  files'[n] = c /\ n \in flushed' /\ n \in linked' /\ directory' = "durable"
  <2>1. m # n BY <1>3 DEF CreateExclusive
  <2> QED BY <1>3, <2>1 DEF CreateExclusive
<1>4. CASE \E m \in Names : Flush(m) BY <1>4 DEF Flush
<1>5. ASSUME NEW m \in Names, NEW v \in Values, files[m] = Partial, Fill(m, v)
      PROVE  files'[n] = c /\ n \in flushed' /\ n \in linked' /\ directory' = "durable"
  <2>1. m # n BY <1>5
  <2> QED BY <1>5, <2>1 DEF Fill
<1>6. CASE FlushDirectory BY <1>6 DEF FlushDirectory
<1>7. CASE FlushParent BY <1>7 DEF FlushParent
<1>8. CASE PowerFails
  <2>1. LoseFiles BY <1>8 DEF PowerFails, LoseDirectory
  <2>2. PICK gone \in SUBSET (Names \ linked), torn \in SUBSET (Names \ flushed) :
          files' = [m \in Names |->
                      IF m \in gone THEN Absent
                      ELSE IF m \in torn /\ files[m] # Absent THEN Partial
                      ELSE files[m]]
    BY <2>1 DEF LoseFiles
  <2>3. files'[n] = c BY <2>2
  <2>4. linked' = {m \in Names : files'[m] # Absent} /\ flushed' = Names
    BY <1>8 DEF PowerFails
  <2>5. directory' = "durable" BY <2>1 DEF LoseFiles
  <2> QED BY <2>3, <2>4, <2>5
<1> QED BY <1>1, <1>2, <1>3, <1>4, <1>5, <1>6, <1>7, <1>8

\* The disk steps that this module takes are of those kinds.
LEMMA NextOnDisk ==
  ASSUME TypeInv, StageInv, [Next]_vars
  PROVE  \/ UNCHANGED fileVars
         \/ MakeDirectory
         \/ \E m \in Names : CreateExclusive(m) \/ Flush(m)
         \/ \E m \in Names, v \in Values : files[m] = Partial /\ Fill(m, v)
         \/ FlushDirectory \/ FlushParent \/ PowerFails
<1>1. Place \in Names /\ Value \in Values BY PlaceTyped
<1>2. CASE Starting
  <2>1. CASE Start BY <2>1 DEF Start
  <2>2. CASE Create BY <1>1, <2>2 DEF Create
  <2>3. CASE Compare BY <2>3 DEF Compare
  <2>4. CASE Write BY <1>1, <2>4 DEF Write, Goto, StageInv
  <2>5. CASE FlushArtifact BY <1>1, <2>5 DEF FlushArtifact
  <2>6. CASE FlushRoot BY <2>6 DEF FlushRoot
  <2>7. CASE FlushProofs BY <2>7 DEF FlushProofs
  <2> QED BY <1>2, <2>1, <2>2, <2>3, <2>4, <2>5, <2>6, <2>7 DEF Starting
<1>3. CASE Rotate BY <1>3 DEF Rotate, Persist
<1>4. CASE \E set \in Changes : Revoke(set) BY <1>4 DEF Revoke, Persist
<1>5. CASE SyncStore BY <1>5 DEF SyncStore
<1>6. CASE Acknowledge BY <1>6 DEF Acknowledge
<1>7. CASE Stop BY <1>7 DEF Stop
<1>8. CASE Crash BY <1>8 DEF Crash
<1>9. CASE PowerLoss BY <1>9 DEF PowerLoss
<1>10. CASE UNCHANGED vars BY <1>10 DEF vars
<1> QED BY <1>2, <1>3, <1>4, <1>5, <1>6, <1>7, <1>8, <1>9, <1>10 DEF Next

\* No step changes a registry once it is made.
LEMMA RegistriesKept ==
  ASSUME TypeInv, [Next]_vars
  PROVE  /\ \A c \in Made : c \in Made' /\ registry'[c] = registry[c]
         /\ registry'[Initial] = registry[Initial]
<1>1. ASSUME NEW next, Follows(registry[store], next), Persist(next)
      PROVE  /\ \A c \in Made : c \in Made' /\ registry'[c] = registry[c]
             /\ registry'[Initial] = registry[Initial]
  <2>1. Initial \notin Changes BY ArchiveAssumption DEF Initial
  <2> QED BY <1>1, <2>1, PersistMakes DEF Made
<1>2. CASE Rotate BY <1>1, <1>2, RotateFollows
<1>3. CASE \E set \in Changes : Revoke(set) BY <1>1, <1>3, RevokeFollows
<1>4. CASE UNCHANGED registry
  BY <1>4 DEF Made
<1>5. CASE SyncStore \/ Starting \/ Acknowledge \/ Stop \/ Crash \/ PowerLoss
  BY <1>4, <1>5
  DEF SyncStore, Starting, Start, Create, Compare, Write, FlushArtifact, FlushRoot,
      FlushProofs, Acknowledge, Stop, Crash, PowerLoss, keyVars
<1>6. CASE UNCHANGED vars BY <1>4, <1>6 DEF vars, keyVars
<1> QED BY <1>2, <1>3, <1>5, <1>6 DEF Next

\* Only an acknowledgment adds to what is acknowledged.
LEMMA AckedGrows ==
  ASSUME [Next]_vars
  PROVE  \/ acked' = acked
         \/ /\ Acknowledge
            /\ acked' = acked \cup
                 {[bundle |-> Bundle(Current.active, Current.revision),
                   change |-> store]}
<1>1. ASSUME NEW next, Persist(next) PROVE acked' = acked
  BY <1>1 DEF Persist, history
<1>2. CASE Rotate BY <1>1, <1>2 DEF Rotate
<1>3. CASE \E set \in Changes : Revoke(set) BY <1>1, <1>3 DEF Revoke
<1>4. CASE SyncStore \/ Starting \/ Stop \/ Crash \/ PowerLoss
  BY <1>4
  DEF SyncStore, Starting, Start, Create, Compare, Write, FlushArtifact, FlushRoot,
      FlushProofs, Stop, Crash, PowerLoss, history
<1>5. CASE Acknowledge
  <2>1. SignV3(Record(Current.active, Current.revision), KeysOf(Current.active)) =
          {Bundle(Current.active, Current.revision)}
    BY OnlyBundle
  <2> QED BY <1>5, <2>1 DEF Acknowledge
<1>6. CASE UNCHANGED vars BY <1>6 DEF vars, history
<1> QED BY <1>2, <1>3, <1>4, <1>5, <1>6 DEF Next

LEMMA RetainedKept ==
  ASSUME TypeInv, StageInv, [Next]_vars, directory = "durable",
         NEW c \in Made, Retained(c)
  PROVE  Retained(c)' /\ directory' = "durable"
<1> DEFINE n == TrustFile(registry[c].revision)
<1>1. registry'[c] = registry[c] BY RegistriesKept
<1>2. TrustFile(registry'[c].revision) = n BY <1>1
<1>3. c \notin {Absent, Partial}
  BY ArchiveAssumption DEF Made, Absent, Partial
<1>4. n \in Names /\ files[n] = c /\ n \in flushed /\ n \in linked BY DEF Retained
<1>5. files \in [Names -> Values] BY DEF TypeInv, TypeOK
<1> HIDE DEF n
<1>6. files'[n] = c /\ n \in flushed' /\ n \in linked' /\ directory' = "durable"
  BY <1>3, <1>4, <1>5, NextOnDisk, DurableKept
<1>7. n = TrustFile(registry[c].revision)' BY <1>2 DEF n, TrustFile
<1> QED BY <1>4, <1>6, <1>7 DEF Retained

LEMMA AckStep == TypeInv /\ StageInv /\ AckInv /\ [Next]_vars => AckInv'
<1> SUFFICES ASSUME TypeInv, StageInv, AckInv, [Next]_vars PROVE AckInv' OBVIOUS
<1>1. ASSUME NEW a \in acked
      PROVE  SignedUnder(a)' /\ Retained(a.change)' /\ directory' = "durable"
  <2>1. SignedUnder(a) /\ Retained(a.change) /\ directory = "durable"
    BY DEF AckInv
  <2>2. a.change \in Made BY <2>1 DEF SignedUnder
  <2>3. Retained(a.change)' /\ directory' = "durable" BY <2>1, <2>2, RetainedKept
  <2>4. a.change \in Made' /\ registry'[a.change] = registry[a.change]
    BY <2>2, RegistriesKept
  <2>5. SignedUnder(a)' BY <2>1, <2>4 DEF SignedUnder, Bundle, SignedMessage,
          Message, Payload, Record, KeysOf, Digest, Signature, Pae, Algorithms, KindV3
  <2> QED BY <2>3, <2>5
<1>2. CASE acked' = acked BY <1>1, <1>2 DEF AckInv
<1>3. ASSUME Acknowledge,
             acked' = acked \cup
               {[bundle |-> Bundle(Current.active, Current.revision),
                 change |-> store]}
      PROVE  AckInv'
  <2>1. at = "serving" /\ Current.active # NoKeySet BY <1>3 DEF Acknowledge
  <2>2. PICK c : c = store OBVIOUS
  <2>3. PICK set : set = registry[c].active OBVIOUS
  <2>4. PICK n : n = registry[c].revision OBVIOUS
  <2> DEFINE new == [bundle |-> Bundle(set, n), change |-> c]
  <2>5. acked' = acked \cup {new} BY <1>3, <2>2, <2>3, <2>4 DEF Current
  <2>6. c \in Made
    BY <2>1, <2>2, CurrentTyped DEF TypeInv, TypeOK, RegistryInv, Current, NoRegistry
  <2>7. set \in registry[c].known
    BY <2>1, <2>2, <2>3, CurrentTyped DEF TypeInv, RegistryInv, Current
  <2>8. Retained(c) /\ directory = "durable"
    <3>1. Place = TrustFile(registry[c].revision) /\ Value = c
      BY <2>1, <2>2 DEF StageInv, Place, Value, Current
    <3> QED BY <2>1, <3>1, PlaceTyped DEF StageInv, Retained
  <2>9. Retained(c)' /\ directory' = "durable" BY <2>6, <2>8, RetainedKept
  <2>10. c \in Made' /\ registry'[c] = registry[c] BY <2>6, RegistriesKept
  <2>11. new.change = c /\ new.bundle = Bundle(set, registry'[c].revision)
    BY <2>4, <2>10
  <2>12. set \in registry'[c].known BY <2>7, <2>10
  <2> HIDE DEF new
  <2>13. SignedUnder(new)'
    BY <2>10, <2>11, <2>12 DEF SignedUnder, Bundle, SignedMessage,
       Message, Payload, Record, KeysOf, Digest, Signature, Pae, Algorithms, KindV3
  <2> QED BY <1>1, <2>5, <2>9, <2>11, <2>13 DEF AckInv
<1> QED BY <1>2, <1>3, AckedGrows

ArchiveInv == TypeInv /\ StageInv /\ AckInv

LEMMA InitArchive == Init => ArchiveInv
<1> SUFFICES ASSUME Init PROVE ArchiveInv OBVIOUS
<1>1. TypeInv BY InitTyped
<1>2. StageInv BY DEF Init, StageInv
<1>3. AckInv BY DEF Init, AckInv
<1> QED BY <1>1, <1>2, <1>3 DEF ArchiveInv

LEMMA StepArchive == ArchiveInv /\ [Next]_vars => ArchiveInv'
BY StepTyped, StageStep, AckStep DEF ArchiveInv

LEMMA ArchiveAlways == Spec => []ArchiveInv
BY InitArchive, StepArchive, PTL DEF Spec

LEMMA MadeTyped ==
  ASSUME TypeInv, NEW c \in Made
  PROVE  /\ c \in DOMAIN registry /\ registry[c] \in Registries
         /\ registry[c].revision \in 1..registry[c].revision
<1>1. c \in Changes /\ registry[c] \in Registries BY DEF TypeInv, TypeOK, Made
<1>2. registry[c].revision \in Nat /\ registry[c].revision > 0
  BY <1>1 DEF TypeInv, RegistryInv, Registries
<1> QED BY <1>1, <1>2 DEF TypeInv, TypeOK

\* Every acknowledged bundle is accepted with the artifact retained for its
\* revision, which is of the registry it was signed under, after any crashes and
\* power losses.
THEOREM Acknowledged == Spec => []AcknowledgedVerifies
<1>1. ASSUME ArchiveInv PROVE AcknowledgedVerifies
  <2> SUFFICES ASSUME NEW a \in acked
               PROVE  LET n == Named(a.bundle) IN
                      /\ files[TrustFile(n.key_revision)] = a.change
                      /\ CliAccepts(a.bundle, n.key_set_id, n.key_revision)
    BY DEF AcknowledgedVerifies
  <2>1. SignedUnder(a) /\ Retained(a.change) BY <1>1 DEF ArchiveInv, AckInv
  <2>2. PICK r : r = registry[a.change] OBVIOUS
  <2>3. PICK set \in r.known : a.bundle = Bundle(set, r.revision)
    BY <2>1, <2>2 DEF SignedUnder
  <2>4. Named(a.bundle) = [key_set_id |-> set, key_revision |-> r.revision]
    BY <2>3, BundleNames
  <2>5. a.change \in DOMAIN registry /\ r.revision \in 1..r.revision
    BY <1>1, <2>1, <2>2, MadeTyped DEF ArchiveInv, SignedUnder
  <2>6. Accepts(r, a.bundle, set) BY <2>3, <2>5, RegistryAccepts
  <2>7. files[TrustFile(r.revision)] = a.change BY <2>1, <2>2 DEF Retained
  <2>8. CliAccepts(a.bundle, set, r.revision)
    BY <2>2, <2>5, <2>6, <2>7 DEF CliAccepts
  <2> QED BY <2>4, <2>7, <2>8
<1> QED BY <1>1, ArchiveAlways, PTL

\* A change knows the key sets of the changes that it includes and has a later
\* revision.
Grown ==
  \A c \in Made \cup {Initial} : \A b \in lineage[c] :
    /\ registry[b].known \subseteq registry[c].known
    /\ registry[b].revision <= registry[c].revision

LEMMA GrownPersist ==
  ASSUME TypeInv, Grown,
         NEW next, Follows(registry[store], next), Persist(next)
  PROVE  Grown'
<1>1. /\ registry'[Drawn] = next
      /\ \A c \in Changes \cup {Initial} : c # Drawn => registry'[c] = registry[c]
      /\ Made' = Made \cup {Drawn}
      /\ Drawn \in Changes /\ Drawn \notin Made
      /\ lineage'[Drawn] = lineage[store] \cup {Drawn}
      /\ \A c \in Changes \cup {Initial} : c # Drawn => lineage'[c] = lineage[c]
  BY PersistMakes
<1>2. /\ Made \subseteq Changes /\ store \in Made \cup {Initial}
      /\ \A c \in Made \cup {Initial} : lineage[c] \subseteq Made \cup {Initial}
      /\ registry \in [Changes \cup {Initial} -> Registries]
  BY DEF TypeInv, TypeOK, Made
<1>3. Drawn \notin Made \cup {Initial}
  BY <1>1, ArchiveAssumption DEF Initial
<1>4. next \in Registries BY DEF Follows
<1> SUFFICES ASSUME NEW c \in Made \cup {Drawn, Initial}, NEW b \in lineage'[c]
             PROVE  /\ registry'[b].known \subseteq registry'[c].known
                    /\ registry'[b].revision <= registry'[c].revision
  BY <1>1 DEF Grown, Initial
<1>5. CASE c # Drawn
  <2>1. c \in Made \cup {Initial} /\ b \in lineage[c] BY <1>1, <1>2, <1>5
  <2>2. b \in Made \cup {Initial} /\ b # Drawn BY <1>2, <1>3, <2>1
  <2>3. registry'[b] = registry[b] /\ registry'[c] = registry[c]
    BY <1>1, <1>2, <1>5, <2>1, <2>2
  <2> QED BY <2>1, <2>3 DEF Grown
<1>6. CASE c = Drawn /\ b = Drawn
  <2>1. next.revision <= next.revision BY <1>4, BoundTyped DEF Registries
  <2> QED BY <1>1, <1>6, <2>1
<1>7. CASE c = Drawn /\ b # Drawn
  <2>1. b \in lineage[store] BY <1>1, <1>7
  <2>2. b \in Made \cup {Initial} BY <1>2, <2>1
  <2>3. registry'[b] = registry[b] /\ registry'[c] = next
    BY <1>1, <1>2, <1>7, <2>2
  <2>4. /\ registry[b].known \subseteq registry[store].known
        /\ registry[b].revision <= registry[store].revision
    BY <1>2, <2>1 DEF Grown
  <2>5. PICK q \in Registries : q = registry[b] BY <1>2, <2>2
  <2>6. PICK r \in Registries : r = registry[store] BY <1>2
  <2>7. r.known \subseteq next.known /\ next.revision = r.revision + 1
    BY <2>6 DEF Follows
  <2>8. q.known \subseteq next.known /\ q.revision <= next.revision
    BY <2>4, <2>5, <2>6, <2>7, BoundTyped DEF Registries
  <2> QED BY <2>3, <2>5, <2>8
<1> QED BY <1>5, <1>6, <1>7

LEMMA GrownStep == TypeInv /\ Grown /\ [Next]_vars => Grown'
<1> SUFFICES ASSUME TypeInv, Grown, [Next]_vars PROVE Grown' OBVIOUS
<1>1. CASE Rotate BY <1>1, RotateFollows, GrownPersist
<1>2. CASE \E set \in Changes : Revoke(set) BY <1>2, RevokeFollows, GrownPersist
<1>3. CASE UNCHANGED <<registry, lineage>>
  <2>1. Made' = Made BY <1>3 DEF Made
  <2> QED BY <1>3, <2>1 DEF Grown, Initial
<1>4. CASE SyncStore \/ Starting \/ Acknowledge \/ Stop \/ Crash \/ PowerLoss
  BY <1>3, <1>4
  DEF SyncStore, Starting, Start, Create, Compare, Write, FlushArtifact, FlushRoot,
      FlushProofs, Acknowledge, Stop, Crash, PowerLoss, keyVars
<1>5. CASE UNCHANGED vars BY <1>3, <1>5 DEF vars, keyVars
<1> QED BY <1>1, <1>2, <1>4, <1>5 DEF Next

\* The key store itself goes on accepting every acknowledged bundle whose change it
\* still includes, through any rotations, revocations, crashes and power losses,
\* whatever other changes have been undone.
THEOREM LaterTrust == Spec => []LaterTrustVerifies
<1>1. ASSUME Init PROVE Grown
  <2>1. Made = {} BY <1>1 DEF Init, Made
  <2>2. registry[Initial] = NoRegistry /\ lineage[Initial] = {Initial}
    BY <1>1 DEF Init
  <2> QED BY <2>1, <2>2 DEF Grown, NoRegistry
<1>2. TypeInv /\ Grown /\ [Next]_vars => Grown' BY GrownStep
<1>3. Spec => []Grown BY <1>1, <1>2, InitTyped, StepTyped, PTL DEF Spec
<1>4. ASSUME ArchiveInv, Grown PROVE LaterTrustVerifies
  <2> SUFFICES ASSUME NEW a \in acked, a.change \in lineage[store]
               PROVE  VerifyHistorical(a.bundle, Named(a.bundle).key_set_id)
    BY DEF LaterTrustVerifies
  <2>1. SignedUnder(a) BY <1>4 DEF ArchiveInv, AckInv
  <2>2. PICK q \in Registries : q = registry[a.change]
    BY <1>4, <2>1, MadeTyped DEF ArchiveInv, SignedUnder
  <2>3. PICK set \in q.known : a.bundle = Bundle(set, q.revision)
    BY <2>1, <2>2 DEF SignedUnder
  <2>4. PICK r \in Registries : r = Current
    BY <1>4, CurrentTyped DEF ArchiveInv
  <2>5. store \in Made \cup {Initial} BY <1>4 DEF ArchiveInv, TypeInv, TypeOK
  <2>6. set \in r.known /\ q.revision <= r.revision
    BY <1>4, <2>2, <2>3, <2>4, <2>5 DEF Grown, Current
  <2>7. q.revision \in 1..q.revision
    BY <1>4, <2>1, <2>2, MadeTyped DEF ArchiveInv, SignedUnder
  <2>8. q.revision \in 1..r.revision BY <2>6, <2>7 DEF Registries
  <2>9. Accepts(r, a.bundle, set) BY <2>3, <2>6, <2>8, RegistryAccepts
  <2>10. Named(a.bundle).key_set_id = set BY <2>3, BundleNames
  <2> QED BY <2>4, <2>9, <2>10 DEF VerifyHistorical
<1> QED BY <1>3, <1>4, ArchiveAlways, PTL

-----------------------------------------------------------------------------
(***************************************************************************)
(* What is on disk until the first crash or power loss                     *)
(***************************************************************************)
\* An artifact of this kind is being written.
Writing(kind) == at = "write" /\ artifact = kind

\* No registry is retained ahead of its revision, and what there is of the
\* current one, or of the policy, is complete unless it is being written.
Undisturbed ==
  stops = 0 =>
    /\ files[PolicyFile] \in {Absent, "report policy"} \/ Writing("policy")
    /\ files[TrustFile(Current.revision)] \in {Absent, store} \/ Writing("trust")
    /\ \A n \in 0..MaxRevision :
         n > Current.revision => files[TrustFile(n)] = Absent

LEMMA PlacesDiffer ==
  /\ PolicyFile \in Names
  /\ \A n \in 0..MaxRevision : TrustFile(n) \in Names /\ TrustFile(n) # PolicyFile
  /\ \A n, k \in 0..MaxRevision : TrustFile(n) = TrustFile(k) => n = k
BY ArchiveAssumption DEF Artifacts, PolicyFile, TrustFile

\* What changes neither files nor the store, and writes nothing, disturbs nothing.
LEMMA UndisturbedKept ==
  ASSUME Undisturbed, UNCHANGED <<registry, store, files>>, stops' = 0 => stops = 0,
         at # "write" \/ UNCHANGED <<at, artifact>>
  PROVE  Undisturbed'
BY DEF Undisturbed, Writing, Current, PolicyFile, TrustFile, Absent

\* A file that is created or filled is the one that the start has come to.
LEMMA UndisturbedPut ==
  ASSUME TypeInv, Undisturbed, UNCHANGED <<registry, store, artifact, stops>>,
         NEW v, files' = [files EXCEPT ![Place] = v],
         v = Value \/ (v = Partial /\ at' = "write")
  PROVE  Undisturbed'
<1> SUFFICES ASSUME stops = 0
             PROVE  /\ \/ files'[PolicyFile] \in {Absent, "report policy"}
                       \/ Writing("policy")'
                    /\ \/ files'[TrustFile(Current.revision)] \in {Absent, store}
                       \/ Writing("trust")'
                    /\ \A n \in 0..MaxRevision :
                         n > Current.revision => files'[TrustFile(n)] = Absent
  BY DEF Undisturbed, Current, PolicyFile, TrustFile, Absent
<1>1. files \in [Names -> Values] /\ artifact \in {"policy", "trust"}
  BY DEF TypeInv, TypeOK
<1>2. PICK k \in 0..MaxRevision : k = Current.revision BY CurrentTyped
<1>3. CASE artifact = "policy"
  <2>1. Place = PolicyFile /\ Value = "report policy"
    BY <1>3 DEF Place, Value
  <2>2. \A n \in 0..MaxRevision : files'[TrustFile(n)] = files[TrustFile(n)]
    BY <1>1, <2>1, PlacesDiffer
  <2>3. files'[PolicyFile] = v BY <1>1, <2>1, PlacesDiffer
  <2>4. ~Writing("trust") BY <1>3 DEF Writing
  <2> QED BY <1>2, <1>3, <2>1, <2>2, <2>3, <2>4 DEF Undisturbed, Writing
<1>4. CASE artifact = "trust"
  <2>1. Place = TrustFile(k) /\ Value = store
    BY <1>2, <1>4 DEF Place, Value
  <2>2. files'[PolicyFile] = files[PolicyFile] BY <1>1, <2>1, PlacesDiffer
  <2>3. files'[TrustFile(k)] = v BY <1>1, <2>1, PlacesDiffer
  <2>4. \A n \in 0..MaxRevision : n # k => files'[TrustFile(n)] = files[TrustFile(n)]
    BY <1>1, <2>1, PlacesDiffer
  <2>5. ~Writing("policy") BY <1>4 DEF Writing
  <2>6. \A n \in 0..MaxRevision : n > k => n # k BY BoundTyped
  <2> QED
    BY <1>2, <1>4, <2>1, <2>2, <2>3, <2>4, <2>5, <2>6 DEF Undisturbed, Writing
<1> QED BY <1>1, <1>3, <1>4

LEMMA UndisturbedStep == TypeInv /\ Undisturbed /\ [Next]_vars => Undisturbed'
<1> SUFFICES ASSUME TypeInv, Undisturbed, [Next]_vars PROVE Undisturbed' OBVIOUS
<1>1. ASSUME NEW next, Follows(registry[store], next), Persist(next)
      PROVE  Undisturbed'
  <2> SUFFICES ASSUME stops = 0
               PROVE  /\ files[PolicyFile] \in {Absent, "report policy"}
                      /\ files[TrustFile(registry'[store'].revision)] = Absent
                      /\ \A n \in 0..MaxRevision :
                           n > registry'[store'].revision => files[TrustFile(n)] = Absent
    BY <1>1
    DEF Undisturbed, Persist, Current, PolicyFile, TrustFile, Absent, fileVars, history
  <2>1. registry'[store'] = next BY <1>1, PersistMakes DEF Persist
  <2>2. ~Writing("policy") BY <1>1 DEF Persist, Writing
  <2>3. PICK k \in 0..MaxRevision : k = Current.revision BY CurrentTyped
  <2>4. next.revision = k + 1 /\ next.revision \in 0..MaxRevision
    BY <1>1, <2>3 DEF Follows, Current, Registries
  <2>5. \A n \in 0..MaxRevision : n > k => files[TrustFile(n)] = Absent
    BY <2>3 DEF Undisturbed
  <2>6. k + 1 > k /\ \A n \in 0..MaxRevision : n > k + 1 => n > k
    BY BoundTyped
  <2>7. files[TrustFile(next.revision)] = Absent BY <2>4, <2>5, <2>6
  <2>8. \A n \in 0..MaxRevision : n > next.revision => files[TrustFile(n)] = Absent
    BY <2>4, <2>5, <2>6
  <2> QED BY <2>1, <2>2, <2>7, <2>8 DEF Undisturbed
<1>2. CASE Rotate BY <1>1, <1>2, RotateFollows
<1>3. CASE \E set \in Changes : Revoke(set) BY <1>1, <1>3, RevokeFollows
<1>4. CASE SyncStore
  BY <1>4, UndisturbedKept DEF SyncStore, fileVars, history
<1>5. CASE Start \/ Compare \/ FlushArtifact \/ FlushRoot \/ FlushProofs
  BY <1>5, UndisturbedKept
  DEF Start, Compare, FlushArtifact, FlushRoot, FlushProofs, Goto, MakeDirectory,
      Flush, FlushDirectory, FlushParent, fileVars, keyVars, history
<1>6. CASE Create
  BY <1>6, UndisturbedPut
  DEF Create, CreateExclusive, Goto, keyVars, history
<1>7. CASE Write
  BY <1>7, UndisturbedPut DEF Write, Fill, Goto, keyVars, history
<1>8. CASE Acknowledge
  BY <1>8, UndisturbedKept DEF Acknowledge, fileVars, keyVars
<1>9. CASE Stop
  BY <1>9, UndisturbedKept DEF Stop, Goto, fileVars, keyVars, history
<1>10. CASE Crash \/ PowerLoss
  <2>1. stops' # 0
    BY <1>10, BoundTyped DEF Crash, PowerLoss, TypeInv, TypeOK
  <2> QED BY <2>1 DEF Undisturbed
<1>11. CASE UNCHANGED vars
  BY <1>11, UndisturbedKept DEF vars, fileVars, keyVars, history
<1> QED
  BY <1>2, <1>3, <1>4, <1>5, <1>6, <1>7, <1>8, <1>9, <1>10, <1>11 DEF Next, Starting

\* Without a crash or a power loss, no artifact that a start needs is cut off or
\* of another registry.
THEOREM Interruption == Spec => []BlockedByInterruption
<1>1. ASSUME Init PROVE Undisturbed
  <2>1. \A n \in Names : files[n] = Absent BY <1>1 DEF Init
  <2>2. Current.revision \in 0..MaxRevision BY <1>1, InitTyped, CurrentTyped
  <2> QED BY <2>1, <2>2, PlacesDiffer DEF Undisturbed
<1>2. TypeInv => stops \in Nat BY BoundTyped DEF TypeInv, TypeOK
<1>3. ASSUME TypeInv, Undisturbed PROVE BlockedByInterruption
  <2> SUFFICES ASSUME Blocked, at \in {"stopped", "serving"}, stops = 0 PROVE FALSE
    BY <1>2, <1>3 DEF BlockedByInterruption
  <2>1. ~Writing("policy") /\ ~Writing("trust") BY DEF Writing
  <2> QED BY <1>3, <2>1 DEF Undisturbed, Blocked
<1>4. Spec => []Undisturbed
  BY <1>1, InitTyped, StepTyped, UndisturbedStep, PTL DEF Spec
<1>5. ArchiveInv => TypeInv BY DEF ArchiveInv
<1> QED BY <1>3, <1>4, <1>5, ArchiveAlways, PTL

-----------------------------------------------------------------------------
(***************************************************************************)
(* What can be put together from the parts of acknowledged bundles         *)
(***************************************************************************)
\* A message says which key set and which revision it is of.
LEMMA MessageNames ==
  ASSUME NEW set, NEW n, NEW payload, NEW keys,
         Message(payload, keys) = SignedMessage(set, n)
  PROVE  payload = Payload(Record(set, n), "plain") /\ keys = KeysOf(set)
BY DEF Message, SignedMessage, Pae

\* One signature of a bundle is enough to make what verifies equal to it.
LEMMA SignatureDetermines ==
  ASSUME NEW set, NEW n, NEW m, NEW keys, VerifyV3(m, keys),
         NEW x \in Algorithms, m.signatures[x] = Bundle(set, n).signatures[x]
  PROVE  /\ m.payload = Bundle(set, n).payload
         /\ m.keys = Bundle(set, n).keys
         /\ m.payload_hash = Bundle(set, n).payload_hash
         /\ \A a \in Algorithms : m.signatures[a] = Bundle(set, n).signatures[a]
         /\ keys[x] = KeysOf(set)[x]
<1> DEFINE message == Message(m.payload, m.keys)
<1>1. \A a \in Algorithms :
        m.keys[a] = keys[a] /\ m.signatures[a] = Signature(keys[a], message)
  BY DEF VerifyV3, IsSignature
<1>2. /\ Bundle(set, n).payload = Payload(Record(set, n), "plain")
      /\ Bundle(set, n).keys = KeysOf(set)
      /\ Bundle(set, n).payload_hash = SignedMessage(set, n)
      /\ Bundle(set, n).signatures =
           [a \in Algorithms |-> Signature(KeysOf(set)[a], SignedMessage(set, n))]
  BY DEF Bundle
<1>3. Signature(keys[x], message) = Signature(KeysOf(set)[x], SignedMessage(set, n))
  BY <1>1, <1>2
<1>4. keys[x] = KeysOf(set)[x] /\ message = SignedMessage(set, n)
  BY <1>3 DEF Signature
<1>5. m.payload = Payload(Record(set, n), "plain") /\ m.keys = KeysOf(set)
  BY <1>4, MessageNames
<1>6. m.payload_hash = SignedMessage(set, n) BY <1>4 DEF VerifyV3
<1>7. \A a \in Algorithms :
        m.signatures[a] = Signature(KeysOf(set)[a], SignedMessage(set, n))
  BY <1>1, <1>4, <1>5
<1> QED BY <1>2, <1>4, <1>5, <1>6, <1>7

LEMMA MixtureParts ==
  ASSUME NEW b, NEW c, b.kind = KindV3, c.kind = KindV3,
         b.payload_type = "v3", c.payload_type = "v3", NEW m \in Mixtures(b, c)
  PROVE  /\ m = [f \in HybridFields |-> m[f]]
         /\ m.kind = KindV3 /\ m.payload_type = "v3"
         /\ m.signatures = [x \in Algorithms |-> m.signatures[x]]
         /\ \A x \in Algorithms : m.signatures[x] \in {b.signatures[x], c.signatures[x]}
<1>1. PICK K, S, F : m = Mixed(b, c, K, S, F) BY DEF Mixtures
<1>2. m = [f \in HybridFields |-> m[f]] BY <1>1 DEF Mixed
<1>3. m.signatures = [x \in Algorithms |->
        IF x \in S THEN b.signatures[x] ELSE c.signatures[x]]
  BY <1>1 DEF Mixed, HybridFields
<1>4. m.kind \in {b.kind, c.kind} /\ m.payload_type \in {b.payload_type, c.payload_type}
  BY <1>1 DEF Mixed, HybridFields
<1> QED BY <1>2, <1>3, <1>4

\* What verifies and has the parts of a bundle is that bundle.
LEMMA PartsAreWhole ==
  ASSUME NEW set, NEW n, NEW m,
         m = [f \in HybridFields |-> m[f]],
         m.kind = KindV3, m.payload_type = "v3",
         m.signatures = [x \in Algorithms |-> m.signatures[x]],
         m.payload = Bundle(set, n).payload,
         m.keys = Bundle(set, n).keys,
         m.payload_hash = Bundle(set, n).payload_hash,
         \A a \in Algorithms : m.signatures[a] = Bundle(set, n).signatures[a]
  PROVE  m = Bundle(set, n)
<1> DEFINE b == Bundle(set, n)
<1>1. b = [f \in HybridFields |-> b[f]] BY DEF Bundle, HybridFields
<1>2. b.kind = KindV3 /\ b.payload_type = "v3"
      /\ b.signatures = [x \in Algorithms |-> b.signatures[x]]
  BY DEF Bundle
<1>3. m.signatures = b.signatures BY <1>2
<1>4. \A f \in HybridFields : m[f] = b[f] BY <1>2, <1>3 DEF HybridFields
<1> HIDE DEF b
<1>5. m = b BY <1>1, <1>4
<1> QED BY <1>5 DEF b

\* No mixture of acknowledged bundles, down to single signatures, is accepted with
\* any artifact, except the bundles themselves under their own key sets.
THEOREM OnlySigned == Spec => []OnlySignedVerifies
<1>1. ASSUME ArchiveInv PROVE OnlySignedVerifies
  <2> SUFFICES ASSUME NEW a \in acked, NEW z \in acked,
                      NEW m \in Mixtures(a.bundle, z.bundle),
                      NEW set \in Changes, NEW n \in 0..MaxRevision,
                      CliAccepts(m, set, n)
               PROVE  m \in {a.bundle, z.bundle} /\ set = Named(m).key_set_id
    BY DEF OnlySignedVerifies
  <2>1. PICK sa, na, sz, nz : a.bundle = Bundle(sa, na) /\ z.bundle = Bundle(sz, nz)
    BY <1>1 DEF ArchiveInv, AckInv, SignedUnder
  <2>2. VerifyV3(m, KeysOf(set)) BY DEF CliAccepts, Accepts
  <2>3. PICK x : x \in Algorithms BY DEF Algorithms
  <2>4. /\ m = [f \in HybridFields |-> m[f]]
        /\ m.kind = KindV3 /\ m.payload_type = "v3"
        /\ m.signatures = [y \in Algorithms |-> m.signatures[y]]
        /\ \/ m.signatures[x] = Bundle(sa, na).signatures[x]
           \/ m.signatures[x] = Bundle(sz, nz).signatures[x]
    <3>1. /\ a.bundle.kind = KindV3 /\ a.bundle.payload_type = "v3"
          /\ z.bundle.kind = KindV3 /\ z.bundle.payload_type = "v3"
      BY <2>1 DEF Bundle
    <3> QED BY <2>1, <2>3, <3>1, MixtureParts
  <2>5. PICK so, no : /\ (so = sa /\ no = na) \/ (so = sz /\ no = nz)
                      /\ m.signatures[x] = Bundle(so, no).signatures[x]
    BY <2>4, Zenon
  <2>6. /\ m.payload = Bundle(so, no).payload
        /\ m.keys = Bundle(so, no).keys
        /\ m.payload_hash = Bundle(so, no).payload_hash
        /\ \A y \in Algorithms : m.signatures[y] = Bundle(so, no).signatures[y]
        /\ KeysOf(set)[x] = KeysOf(so)[x]
    BY <2>2, <2>3, <2>5, SignatureDetermines
  <2>7. m = Bundle(so, no) BY <2>4, <2>6, PartsAreWhole
  <2>8. set = so BY <2>3, <2>6 DEF KeysOf
  <2>9. Named(m).key_set_id = so BY <2>7, BundleNames
  <2> QED BY <2>1, <2>5, <2>7, <2>8, <2>9
<1> QED BY <1>1, ArchiveAlways, PTL

===============================================================================
