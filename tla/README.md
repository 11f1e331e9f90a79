# Verification of vella-substrate in TLA+

vella-substrate puts a deterministic gate in front of consequential actions.
A caller proposes an action; the gate resolves evidence, evaluates a policy,
stores a signed authorization durably, checks once more that everything it
relied on still holds, calls the handler at most once and then issues a receipt.
This directory holds TLA+ models of that gate and of the parts it relies on,
TLC runs that explore every interleaving of small instances, and TLAPS
proofs that hold for every instance.

Source paths below are relative to the repository (`sdk/...` is `src/sdk/...` in
`PROJECT.json`).

## 1. Inventory

| Component | State it keeps | Operations | Talks to |
|---|---|---|---|
| **Execution gate** `sdk/node/execution.js` | per attempt: `stopped`, `stop`, `started`, `evidence`, `session`, `epoch`, retention flags; two timers and an abort listener | `createAuthorityBoundary`, `execute` | all below, by awaited calls it may abandon |
| **Local key store** `sdk/node/pqc/local-keys.mjs` | `.writer-lock`, `state.json`, in memory `state`, `busy`, `closed`, `faulted`, `maxTime` | open, `rotate`, `revoke`, `capture`, `assertCurrent`, `verifyHistorical`, `close`, `recoverLocalKeyLock` | file system; other processes; operators |
| **Local proof sink** `sdk/node/local-proof-sink.js` | one file per record | `retain` | file system |
| **Operator evidence** `sdk/node/operator-evidence.js` | none; reads an operator's document per call | `resolve`, `assertCurrent` | files rewritten by operators |
| **Governor** `sdk/node/governor.js`, `sdk/python/vella/governor.py` | keys, the compiled snapshot of a policy and its digest | `govern`, proof production | evaluator, proof formats |
| **Policy evaluator** `sdk/node/evaluator.js`, `policy.js`, Python twins | none | `evaluate`, policy validation | - |
| **Proof formats** `proof.js`, `proof-v2.cjs`, `proof-profile.js`, Python twins | none | build, sign, verify | - |
| **Post-quantum proofs and profile** `sdk/node/pqc/*.cjs`, `profile.mjs` | none | build, sign, verify, bounded JSON | - |
| **Archive trust and material** `archive-trust.cjs`, `archive-material.mjs` | registry and policy files per revision | `retainVerificationMaterial`, `matchesArchiveContext` | file system, key store |
| **MCP binding** `integrations/mcp-server/index.js` | registered definition digest | register, call | gate, MCP SDK |
| **Admission limit** `example/pqc/admission.mjs` | number of admitted attempts | admit, release | gate |
| **Reference servers and harness** `example/*.mjs` | report files, evidence file, request journal | lookup, submit, approve, approveBatch | gate, evidence |
| **GitHub Action gate** `integrations/github-action/gate.mjs` | proof file, outputs, exit code | one run | governor |
| **Verification commands** `verify/verify.js`, `verify/verify.py`, `sdk/node/pqc/verify-cli.mjs`, `verify_cli.py` | none | verify one file | proof formats, archive |
| Experiments, operational harness, release scripts, benchmarks | - | - | - |

### What is hard in this code, and what makes each part correct

* **Execution gate.** Every dependency is called through `guardedCall`, which races
  the call against an abort signal. When the abort wins, the call goes on
  without the gate: an authorization can be written after the attempt has ended,
  a handler can act after the result has said `unknown`. Evidence and keys are read
  long before they are acted on. The process can die at any `await`. Correct
  means: no handler is called without a durable authorization, on stale
  evidence, with keys that are no longer current, after an abort, or twice; no
  receipt or result ever says something that is not, or does not stay, true; and
  `execute` returns whatever its dependencies do.
* **Local key store.** Several processes may open a directory. A lock file keeps
  all but one out, an operator removes the lock of a writer that crashed, and the
  steps `write temporary / fsync / rename / fsync directory` may be cut by an error,
  a crash or a power loss at any point. Correct means: one writer; an
  acknowledged revocation is never taken back; the store never signs with a
  state that is not the one on disk; a crashed writer's lock can be recovered.
* **Proof sink, archive material.** Exclusive creation, `fsync` of file then of
  directory, a retry that meets a partial file of an earlier attempt.
* **Operator evidence.** Three independent validity intervals combined into one
  answer, and a second comparison at dispatch that looks at time only.
* **Evaluator.** 32-bit masks with JavaScript's signed `&`, and a Python twin on
  unbounded integers that has to agree for every input.
* **MCP binding, admission, servers.** A tool definition that changes while a
  precondition is awaited; a counter whose slot is released while the handler it
  admitted may still run; files looked up and created in different steps.
* **GitHub gate.** A sequence of file writes and outputs that may stop half way, over
  whatever earlier gates and runs have left in the workspace. Correct means: no
  consequence without an allowing decision and, with a key, its complete proof in place.
* **Archive.** A registry is retained before the proofs that name its revision; a power
  loss may take the key store's change back and not the artifact. Correct means:
  an acknowledged proof verifies for good, and nothing but it does.
* **Proof formats.** Three formats, two languages, and verifiers that choose between
  formats by fields of the file. Correct means: what verifies is what was signed.

The hazards, each with the line where it bites and the properties that guard
it, are listed in `PROJECT.json`. Two windows are left out there, because no property is
claimed of them. The MCP binding compares a tool's definition when a call arrives and when its
precondition begins (`index.js:41`); a definition that changes while the precondition is
awaited goes unnoticed by this call, and no check made before an `await` can close that
window (`ChangeDefinition` of `ReportServer` happens in it). `releaseLock`
(`local-keys.mjs:76`) reads the lock's token and then unlinks the path; see `LocalKeyStore`.

## 2. Modules

| Module | Models | Extends |
|---|---|---|
| `ExecutionGate` | `execution.js` with its dependencies as they look from the gate | - |
| `AuthorityBoundary` | abstract specification: what the gate promises | - |
| `ExecutionGateBoundary` | refinement mapping from the gate to the promise; the module that TLC runs | `ExecutionGate` |
| `ExecutionGateProofs` | type correctness, six properties of the gate and the refinement theorem | `ExecutionGateBoundary` |
| `KeyStates` | the states of a key store and which follows which | - |
| `KeyRegister` | abstract specification: what signers and those who revoke rely on | `KeyStates` |
| `LocalKeyStore` | `local-keys.mjs`: processes, lock, persistence, recovery, crashes; its refinement of `KeyRegister` | `KeyStates` |
| `LocalKeyStoreProofs` | type correctness, the properties of the store and the refinement theorem | `LocalKeyStore` |
| `RecordStore` | abstract specification: what the gate relies on when it retains a record | - |
| `LocalFiles` | external: files, `fsync` and power loss in one directory | - |
| `LocalProofSink` | `local-proof-sink.js`, and its refinement of `RecordStore` | `LocalFiles` |
| `MCLocalProofSink` | instance for TLC | `LocalProofSink` |
| `LocalProofSinkProofs` | the sink's properties and refinement | `LocalProofSink` |
| `ReportServer` | MCP binding, admission limit and the report tools around a gate | - |
| `MCReportServer` | instance for TLC | `ReportServer` |
| `ReportServerProofs` | type correctness and the safety properties of the server | `ReportServer` |
| `Evaluator` | operators: compilation and evaluation of policies, JavaScript and Python | - |
| `Governor` | a governor of each language on the same policy and requests | `Evaluator` |
| `MCGovernor` | instances for TLC | `Governor` |
| `GovernorProofs` | every property of the governor and of the evaluators | `Governor` |
| `OperatorEvidence` | `operator-evidence.js`, the operator's tools, and the attempts that ask twice | - |
| `MCOperatorEvidence` | symmetry of the requests for TLC | `OperatorEvidence` |
| `OperatorEvidenceProofs` | type correctness and both properties | `OperatorEvidence` |
| `ProofFormats` | operators: what each proof format signs and each verifier compares | - |
| `GithubGate` | `gate.mjs` and the documented job around it | `ProofFormats` |
| `MCGithubGate` | what a job may find at its proof path | `GithubGate` |
| `GithubGateProofs` | type correctness and every property of the job | `GithubGate` |
| `ProofArchive` | `archive-material.mjs`, the key store's registries, and who accepts archived proofs | `ProofFormats`, `LocalFiles` |
| `ProofArchiveProofs` | type correctness and every safety property of the archive | `ProofArchive` |

### ExecutionGate

`execute()` is an async function: between two `await`s nothing else in the process
runs. One action is one such uninterrupted segment, from the settlement of the
awaited call to the next `await`, the catch and finally blocks and the
construction of the receipt included. `pc` names the await at which an attempt
is suspended (`evidence`, `retain`, `revalidate`, `precondition`, `invoke`,
`receipt`), the other local variables keep their names from the code. `started`
stands for `started` and `eligible`, which the code sets together.

`guardedCall` appears in three places: `EnterStage` (it refuses to call once
the signal is aborted), the promise `call` (answered or rejected by the
dependency), and `StageInterrupted` / `InvokeUnresolved` (the abort listener
settles the await while the call goes on). The abandoned call keeps running:
`SinkStores`, `SinkSettles` and `HandlerSettles` ignore whether anyone still waits.

The dependencies are modelled by what the gate can observe of them, with the
failures their code has: the evidence provider answers with the operator's
current state or rejects; the sink may store and then fail, or never answer; the
handler may succeed, report a failure, throw or never end; the key store can
change, become unusable and come back. The process may crash at any await.

`seen` is the one history variable: the evidence that was current at some
moment since the authorization was acknowledged. `DispatchIsFresh` needs it to
say what the second resolution buys.

Abstractions. The content of actions, proofs and receipts beyond the fields the
properties use is left out; the policy is the set `Permitted`. `SinkStores` is one
step (the order of its `fsync`s is the subject of `LocalProofSink`). The expiry of
a key's validity interval is one of the reasons for `KeysUnusable`. Evidence that
is revoked after the second resolution is not seen at dispatch, in the code as in
the model: `assertCurrent` compares expiry times only. `DispatchIsFresh` claims
just that, and not that evidence is valid when the handler runs.

### AuthorityBoundary and the refinement

The abstract specification has four variables: what is recorded, what has become of
each effect, each attempt's verdict, and which verdicts are published. It says
that an effect needs a record, happens once and before the verdict, that a
verdict agrees with the effect, and that it is published only beside the
record. `ExecutionGateBoundary` maps `authFile`, `handler`, `receipt`/`pc` and
`receiptFile` onto them. It allows what the code allows: a record that lands
after the verdict, and a verdict `unknown` for an effect that later succeeds.

### LocalKeyStore

A process opens the directory step by step (`CreateLock`, `WriteLock`,
`LoadState`, or `Initialize`, `LinkState`, `UnlinkTemporary`, `PublishFirst`), then
rotates and revokes keys (`Rotate`, `Revoke`: compute and validate; `CheckDisk`,
`Rename`, `Publish`: `persist`), and closes. Every one of these may fail
(`OpenFails`, `PersistFails`), the clock may go back, a process may crash anywhere,
and an operator may recover a lock (`ReadLock`, `ConfirmStopped`, `CompareLock`,
`RemoveLock`: the four points of `recoverLocalKeyLock` between which something else
can happen). `PowerLoss` kills every process that has the store and may undo
directory changes that no directory `fsync` made durable: `survivors` holds the
contents `state.json` may have afterwards.

Abstractions. Key material, digests and signatures are left out: a state is a
revision number and the status of each key pair. `releaseLock` reads the lock's
token and then unlinks it; the two are one step, because nobody but a second operator (run
`keystore_two_recoveries`) replaces the lock of a live writer. Inodes are not reused. A power loss may remove
the lock file, and never brings an unlinked one back. A process that has not
opened the store when the power fails stands for one started later. `capture()`
and its `assertCurrent` are the `session` and `epoch` of `ExecutionGate`;
`verifyHistorical`, which only reads, is in `ProofArchive`, which
also has the content of the registry. `HasRoom` is the limit of `rotate`, which `validateState`
tests once more.

The comparison of disk and memory before a change is written (`CheckDisk`) is a second guard: with one
recovering operator the lock and the fault flag keep every usable store at the state on disk
(`LiveStateIsCurrent`), and without the comparison the runs find nothing. With two operators
(`keystore_two_recoveries`) it narrows the window, and the other writer can still rename after it.

### KeyRegister and the refinement

The abstract specification has three variables: the register of key states, who serves it,
and what was acknowledged last. One holder at a time serves the register as it is; it
changes by one revision at a time, to a valid state that follows the present one, and only while
nobody serves it; changes that are not acknowledged may be undone, with the service, and
acknowledged ones never. `LocalKeyStore` maps `disk` onto the register and its usable stores with
what they have in memory onto `served`. Rename and link are `Change` and `Create`; opening is
`Serve`; `Publish` is `Acknowledge`; a power loss is `Undo`; a failed or closed store
and the start of a change are `Withdraw`. That a file replaced under a live store would show as a
second holder or a stale one is what the lock and the comparison with the disk prevent.

### LocalProofSink

`retain()` has one action per await that changes the file system or the result:
`Create` (exclusively), `Write`, `FlushRecord`, `FlushRoot`, `FlushRootParent`,
`Acknowledge`; `Reject` ends a call at any of them and leaves on disk what there is.
Calls overlap freely; `Crash` ends those that run and `PowerLoss` also undoes what
no `fsync` has covered. `LocalFiles` says what that is: the content of a file,
its name, and the directory itself are made durable by three different `fsync`s. An
`fsync` of the directory covers every name in it, so that calls may profit from each other's.

`RecordStore` is the contract between sink and gate: an acknowledged record is
kept, of others nothing is promised. `ExecutionGate` uses no more than this:
its `SinkStores` is `Keep`, its `SinkSettles` is `Acknowledge` or `Reject`. A
record that is written and not acknowledged may get lost in a power loss; no
receipt and no result of the gate claims such a record.

Abstractions. Records are told apart by the call that writes them. The
test of the directory's type is one with the first step, and symbolic links
are left out; an error is raised before the step has an effect or after it, as at the
step before. A call is never given a partial acknowledgment.

### ReportServer

A server process with calls that overlap. The callback of `registerGovernedTool`
refuses a call (`Refuse`) or resolves its action (`Receive`); `withAdmissionLimit`
takes it in (`Admit`) or turns it away (`TurnAway`), and gives the slot back when
`execute()` settles (`Answer`). The precondition has two halves: it looks at
the definition (`EnterPrecondition`) and then for the report (`FindAbsent`). The
handler opens the report exclusively, writes and syncs it, or fails at any of these
(`OpenReport`, `WriteReport`, `SyncReport`, `HandlerFails`), whether or not anyone
still waits for it. `ChangeDefinition` is the application changing the schema it
has exported, `Restart` a crash and a new launch.

`execute()` is reduced to what a caller of `AuthorityBoundary` relies on: `Stop`
ends a call before its dispatch, `Dispatch` calls the handler once, `Complete`
and `Unresolved` end it with the handler's answer or without. `receipt` is the
stage after the verdict, in which the slot is still held. The full gate is the
subject of `ExecutionGate`.

Abstractions. Reasons of refusals and stops are merged. A definition is the
registered one or another; the binding compares digests. A call goes by one
definition: the two tool names of a server have definitions of their own, and
share the reports. Each connection's server has its own limit; one of them is modelled.
Nobody removes a report (the server never does), and power loss for reports
is left out. A retry after a crash is a further call for the same report.

### Evaluator and Governor

`Evaluator` holds the algorithms: `Compile` (compilePolicy: every entry is tested against
those before it in insertion order, and one that fails makes the whole policy fail),
`NodeMask`/`PythonMask` (toEvidenceMask) and `NodeEvaluate`/`PythonEvaluate`. Values are tagged
tuples, a text is its trimmed upper-case stem and the form it is written in. An integer is the
set of the positions of its ones, as in its binary representation, so that `&` and `|` are
intersection and union and nothing has to be computed by recursion. The languages differ in two
places: what `||` and `or` pass over (`NodeFalsy`, `PythonFalsy`), and the
arithmetic: JavaScript's `&` and `|` yield signed numbers (`Signed`: with the highest bit come
the ones beyond it, for which `Sign` stands), which `>>> 0` (`ToUnsigned`) takes back;
Python's do not. Which bits are single is decided as the code does it, by `n & (n - 1)`
(`Decrement` borrows up to the lowest one).

`Governor` runs both on one policy: `Create` takes the snapshot, `Edit` is the
application changing its own object afterwards, `Govern` decides and (with a
key) builds the record to sign, `Evaluate` is the bare evaluator, which
accepts the intent in three fields. What a policy *means* is written a second time,
as a reference: `WellFormed` and `Permits` speak of sets of declarations and sets
of bits, and know neither compilation nor arithmetic. Agreement and permission are claimed of
`Plain` requests: those with an intent in one field, as `govern()` makes them, or with texts in
several. Of others the languages choose differently (disagreement 4 below).

Abstractions. A digest is the policy it identifies. A record has the fields a
verifier can evaluate again. Left out: a request that is not an object (JavaScript denies with
`E_INTENT_REQUIRED`, Python with `E_EVALUATOR_INTERNAL`), input whose getters
throw, the action and evidence contents of a record, lengths of texts, and
Unicode case mappings.

### OperatorEvidence

The provider reads the operator's file (`FirstLoad`, `SecondLoad`), then decides by the clock
of that moment (`Resolve`, `ResolveAgain`): reading and deciding are separate steps,
with the operator at work between them. `Grounds` and `References` are `resolve()`: one session,
the first valid permission, and an approval that counts only if it is the only one
that matches. `ResolveAgain` compares the two answers as the gate does, and `Dispatch` has
`assertCurrent`, which looks at expiry times only. The operator's tools are `Approve`
(truncates, then `FinishWriting`), `ApproveBatch` (renames a complete file over the old
one) and `Amend`: a withdrawal, a second permission, a second approval. `since` is
the history variable: every content the file has had since the attempt signed.

`DispatchIsLet` says what the two resolutions and the time check buy together: at the very time
of dispatch, some file that was in place since the signature lets the request
through, although its records may be picked anew, prolonged or withdrawn in between. It does
not claim that the *present* file does: the code does not look.

Abstractions. The principal, session and policy of a record are one flag or the request
itself. The clock is a small number and does not go back. Signing and retention are one with the
first answer; what the gate does in between is in `ExecutionGate`.

### ProofFormats

Operators only. A hash or a digest is what it is computed from, a signature is a term that
only the key's holder makes, and canonical JSON is modelled by what it does where the
languages or the formats differ: Node's v1 serialization drops the fields of nested values,
Python's keeps them and escapes what is not ASCII; a v2 payload is signed as bytes, so that one record
may be spelled in several ways and a spelling that repeats a key does not parse. `NodeVerify` and
`PythonVerify` choose the format as `verify.js` and `verify.py` do.

The verifiers of v1 differ where the languages serialize differently (nested or non-ASCII
fields), and also for a `kind` that is null and for a `key_id` that is not a text, which only
Python passes over. `VerifiersAgree` excludes exactly these (`LanguagesDiffer`);
`spec/threat-model.md` and `spec/icd.md` record the limits of v1, and v2 has no such difference.
`pqc/proof.py`, `pqc/record.py` and `verify_cli.py` make the same v3 checks as
their JavaScript twins and are not modelled a second time.

### GithubGate

One action per step of the program that can be interrupted: `Adjudicate` (inputs, policy, key,
`govern`), `CheckPlace`, `Open` and `Write` (`writeProof`), `Append` per output,
`Exit`. `Interrupt` is a write that fails or a signal at any of them. The job around a gate
is the documented one: verification of the proof (`always()`, or none), a consequence
under the normal condition or under one that reads the `decision` output, a further
gate in the same workspace, and retention of what is at the path in the end. The path may
hold a file of an earlier run, a symbolic or a hard link, a directory, or lie outside. A write
through any link goes elsewhere (`LeadsElsewhere`): the open is taken to follow symbolic links,
as it does where there is no `O_NOFOLLOW`, so that the checks of `writeProof` have to hold alone.

Abstractions. Text handling of the inputs is one choice, valid or not; a key is usable or not.
The policy is the set `Permitted`. Paths are the kind of what is found there. Nothing else writes
to the workspace while the gate runs.

### ProofArchive

The server's start (`Start`, `Create` or `Compare`, `Write`, `FlushArtifact`, for the policy and
then for the registry; `FlushRoot`, `FlushProofs`) is `retainVerificationMaterial()`, one
action per file operation. The key store is changed between starts (`Rotate`, `Revoke`,
then `SyncStore`: the rename and the directory `fsync` of `persist`). `Acknowledge`
is the gate's sink acknowledging an authorization that was signed with the captured key set.
`Crash` ends whatever runs; `PowerLoss` undoes names and contents of files that are not
flushed and changes of the key store that are not synced: all of them or only the later ones
(`Survivors`). `lineage` records which changes each change includes, so that a property can say of
every bundle for itself whether the change it was signed under has been undone
(`LaterTrustVerifies`). A change draws
fresh identifiers, so that the registries of two changes differ even if a power loss has
made the store use one revision twice; then the artifact of the first refuses the start
under the second (`Blocked`), and never is a proof of one checked against the other.

`CliAccepts` and `VerifyHistorical` are the two verifiers: `verify-cli.mjs` with the artifact
of a revision, and the key store with its present registry. `Mixtures` are all bundles that can
be put together from parts of two, down to single signatures.

Abstractions. A proof's record is reduced to the key set and revision it names; the lifetime of
keys is left to `ExecutionGate`. The single writer of the key store (`LocalKeyStore`)
makes server and maintenance take turns. Owner and mode of the files are right.

## 3. Runs

| Run | Question | Bounds |
|---|---|---|
| `gate_one_attempt` | Is every dispatch recorded, fresh and single, and everything the gate says true, under all failures? Does `execute` return whatever its dependencies do? Does the gate implement the boundary? | one attempt, two pieces of evidence (one permitted), two key changes |
| `keystore_safety` | Is there one writer with the state on disk, and do acknowledged changes survive? Do the processes together implement one register of key states? Does recovery remove the complete lock of a crashed writer? | two processes, one operator, three keys, capacity two, three revisions, two locks |
| `keystore_two_recoveries` | *violated*: two operators recover one lock | two processes, two operators, one key, one revision, three locks |
| `keystore_stale_lock` | *violated*: a lock whose writer crashed half way | two processes, one operator, one key, one revision, two locks |
| `keystore_published` | *violated*: a revision that is loaded, then lost | as `keystore_stale_lock`, three locks |
| `proof_sink` | Do acknowledged records survive, and does the sink do what the gate relies on? | three calls, two of them for the same file |
| `reports` | Are slots counted exactly, and do results stay true with abandoned handlers and restarts? Is every slot given back? | three calls, two of them for one report; capacity two; one change of the definition |
| `operator_evidence` | Does a dispatch have an operator's document behind it, however the file is rewritten, and exactly the answer that was signed? | two requests, records that live two ticks, a clock up to three, two edits |
| `github_gate` | Does a job act on authorized decisions with their proofs only, whatever was found at the path and wherever a gate stops? Is what verifies signed, and do the verifiers agree? | two gates, two requests (one permitted), two keys; earlier files: genuine bundles of both versions, every mixture of two, altered, respelled and cut-off ones |
| `archive` | Do acknowledged proofs verify, and nothing else, after crashes, power losses and later changes? Does the server come to serve again? | four changes, three revisions, two crashes or power losses |
| `governor` | Which policies are activated? Do both languages decide every request alike and as the policy says? Does a signed authorization replay? | 1,514 policies: up to two declarations each for evidence, intents and scopes, good and bad; under two of them 975 requests, with every presentation of evidence of up to two items, under the others 15; masks of 3 bits |
| `governor_non_text` | *violated*: an empty list as intent | three requests |

Why the bounds are enough. Attempts share only the world (evidence, keys, the
crash); each has its own files and timers, so one attempt in the most hostile world
shows what can happen to it, and `GateImplementsBoundary` is proved for any set of
attempts. Two pieces
of evidence are needed for a change between the two resolutions, and an `A, B, A`
change is possible with two. Two key changes suffice for a change that goes
unnoticed only if epochs were compared by anything but equality. For the key
store, two processes are the least that can disagree about the lock, and a
process that is closed opens again; three keys with capacity two fill the history and
offer one key set more; two locks let one be released or recovered before the other is made, and a
third lets a lock be recovered twice.

For the sink, calls meet in a shared file name or in the `fsync`
of their directory; three calls have both, and `LocalProofSinkProofs` proves the
same properties for any number.

For the report server, two calls for one report meet in the file and three exceed the
capacity of two; the definition may change at any point of a call.
`ReportServerProofs` proves the same properties for any number.

For the governor, three bits are the fewest with a highest bit, a bit that is neither
lowest nor highest and a number (8) that does not fit; collisions and duplicates
need two declarations, and their order matters for two. A behaviour has one request, because answering keeps no state.

For operator evidence, a lifetime of two ticks and a clock up to three let a record
written at the start expire while another, written a tick later, is still valid; the second request gives
batches something to differ in. Two edits are a replacement and an amendment of it. For the GitHub gate,
two gates are the least in which one finds the proof of another, with a denial or
another key between them. For the archive, four changes within three revisions let a
revision be used twice (two changes, a power loss, two further ones), and two
interruptions let one strike the recovery from the other. The proofs of these three
modules are for any bounds.

Deadlock is checked in the runs of the gate, the key store, the sink and the report server: the world
can always move. The other runs say `CHECK_DEADLOCK FALSE`: a governor stops after its one request, or
after a policy that does not compile, and a job at its end, as the programs do; operator
evidence stops when every attempt has ended and the clock and the edits have reached their
bounds; an archive stops when its server is blocked and changes and interruptions have.

The type invariants of the other six components are checked as theorems only; those of `Governor`
and `ProofArchive` are among the runs as well.

### Fairness

* `gate_one_attempt` assumes that the event loop runs a segment whose promise is
  settled (`WF(Segment)`) and that Node's timers fire (`WF(Timeout)`,
  `WF(ReceiptTimeout)`). It assumes nothing of the provider, the sink, the
  precondition, the handler or the caller, so a call that never answers is among
  the behaviours.
* `keystore_safety` and `keystore_stale_lock` assume a diligent operator (`DiligentSpec`): a
  started recovery ends, and it is started again whenever it can be. Nothing is
  assumed of the processes.

* `reports` assumes that `execute()` settles (`GateSettles`), which
  `gate_one_attempt` shows of the gate: its timers end every stage. It assumes nothing
  of handlers, preconditions or callers.

* `archive` assumes that whoever launches the server launches it again and that a start
  goes on (`WF(Starting)`), and that a begun change of the key store ends or is
  interrupted (`WF(SyncStore)`). Nothing makes a server acknowledge, stop or crash. Since changes and
  interruptions are bounded, an endless alternation of maintenance and failed starts is not a behaviour
  of the run.

### Disagreements between code and documentation

1. **Two recoveries.** `sdk/node/pqc/README.md:31` promises that a key directory
   has a single writer. `recoverLocalKeyLock` compares the lock's inode, awaits,
   and unlinks a *path* (`local-keys.mjs:219`). Two operators who both compared the
   old lock remove it twice; the second removal takes the lock of a writer that
   opened in between. Run `keystore_two_recoveries`.
2. **A lock that cannot be recovered.** The lock file is created and then written.
   A crash in between leaves a lock that does not parse; opening says
   `KEY_STORE_LOCKED` and recovery rejects it (`local-keys.mjs:211`), so the documented
   recovery path does not apply to it. Run `keystore_stale_lock`.
3. **Loaded, then lost.** A change is durable when the directories are synced. A
   process that fails after the rename and before the sync leaves the revision on
   disk; the next process loads it without syncing and signs with it, and a power
   loss brings the older revision back (`local-keys.mjs:130`). The change was never
   acknowledged to the caller who made it, but a store has gone by it. Run
   `keystore_published`.
4. **An intent that is not a text.** `spec/input-validation.md:29` says that a
   non-text intent yields `E_INTENT_REQUIRED`. The Python evaluator chooses the
   intent with `or` (`evaluator.py:206`), which passes over an empty list or
   object, and decides the request by the next field; JavaScript's `||` does not,
   and denies. The governors pass one field only and are not affected. Run
   `governor_non_text`.

## 4. Proofs

The theorems hold for every value of the constants: any set of attempts, any
evidence and policy, any number of processes, keys, revisions, gates, crashes and power losses. They assume
the named assumptions of the modules (`GateAssumption`, `StoreAssumption`,
`SinkAssumption`, `ServerAssumption`, `EvidenceAssumption`, `GateAssumption` of
`GithubGate`, `ArchiveAssumption`: bounds are naturals, model values are distinct from proper values,
the sets of keys and of tool calls are finite, every call has a file name or a report;
`SignatureAssumption` and `EnvelopeAssumption` of `GithubGate`: in what lies in the workspace
signatures are of earlier signings, and v1 envelopes have the fields of an envelope;
`EvaluatorAssumption` and `GovernorAssumption`: masks have a positive width, policies and requests
have the fields the code reads, and the keys of an object are distinct), and nothing else unless
said below. TLC evaluates each of them in the runs.

**Gate.** None of the properties is inductive. `ExecutionGateProofs` proves one
invariant per attempt, `Sound(a)`, from which each follows:

* `Progress` - where the attempt is, its receipt, its dispatch flag and its handler
  agree (a receipt exists exactly at the end, the handler runs only once
  started, an answered invocation has a settled handler);
* `Durability` - whoever is past retention has its record on disk, the decision is
  ALLOWED on permitted evidence, and an acknowledgment stands for something stored;
* `Truth` - the receipt agrees with the locals and the handler;
* `Freshness` - past revalidation, the reply and the bound evidence are in `seen`.

`Freshness` is what makes `DispatchIsFresh` go through: the last check in the code
compares times only, and that the evidence itself was current after retention
has to be carried along from the second resolution. TLC checked `Inv` before it was
proved. The refinement (`GateImplementsBoundary`) then has one step per action:
each maps to a step of `AuthorityBoundary` or changes nothing it can see.

**Key store.** `TypeInv` is `TypeOK` and the fact that a usable store has a state.
`LockInv` says that live writers hold the lock, and that a recovery past its
process check has seen a lock whose process is dead and, past its comparison, that this
lock is still there: nobody but the operator can take it away. It is inductive only while there is one
recovering operator, so the theorems on the lock, on `LiveStateIsCurrent`,
`AcknowledgedSurvives` and `AcknowledgedInOrder` state `OneOperator` (at most one
element in `Operators`) as a hypothesis; run `keystore_two_recoveries` shows that it
cannot be dropped. `StoreInv` adds what is on disk at each point of `persist` and
that `Follows` holds between the last acknowledged revision and everything
that may survive. `StatesValid` needs none of this: valid states only lead to
valid states, whoever holds the lock. `EndedKeysNotServed` draws the conclusion that those who
revoke care about: no usable store of any process has an active key that an acknowledged
change has ended.

The refinement (`StoreImplementsRegister`, under `OneOperator`) puts these together.
`RegisterInv` adds that a busy store is not faulted, that the state a change is about to write is
exactly one revision ahead of the store's memory, and that whatever may survive a power loss
precedes what is on disk; `ValidInv` adds that every state kept anywhere is valid. From
`LockInv` comes that nobody else is live while a store opens, renames or
publishes (`OthersNotLive`), so that `served` is empty when the register changes, and from
`StoreInv` that a power loss falls back to a state between the acknowledged one and the present.

**Sink.** `Owns(c)` says, from the exclusive creation on, that no other running or
acknowledged call has the file of `c`, and what `c` has flushed is durable. Exclusive creation
makes it inductive: a call that creates finds no file, and one that owns a
file has it on disk. A power loss ends all calls that are running, and those that are
acknowledged have flushed everything (`PowerKeeps`). The refinement maps `Write`
to `Keep`, and a power loss to `Lose` of records that were not acknowledged.

**Report server.** `Progress(c)` relates the stage of a call, its effect and its
result: before the dispatch there is no effect, and a result `not_started` is only
given there, so that no abandoned handler can belie it. `Content(c)` says that at
most one handler per report has got past the exclusive creation, and what the
file contains at each of its steps. The counter's invariant is proved with the
finite set of calls inside the gate, to which each action adds or from which it
takes one element; the capacity is arbitrary.

**Operator evidence.** `HistoryInv` says that, while an attempt holds an answer, the present
file belongs to its history, and so does whatever it has read the second time. `AnswerInv` says that a
confirmed attempt holds the answer that the document it has read last gave at some moment.
Neither property is inductive: the dispatch looks at three expiry
times only, and that they belong to a session, a permission and an approval of one document in the
history has to be carried along.

**GitHub gate.** `StageInv` relates how far a gate has come, its result and the path: past
`Write` the complete proof is at the path (`ProofInPlace`), outputs exist only there, and a job
that has not failed has an allowing decision (`Adjudicated`). `linked = Cut` is part of the
invariant, because without it what is at the path could be another's file. `RetainedProves` also needs that both
verifiers accept what `SignV2` makes, which is proved of the operators. `VerifiedSigned` and
`VerifiersAgreed` hold of any files in the workspace, not only of the mixtures in the
run: `FoundAtPath` says that what is at the path was there before or is a gate's bundle, and
then the formats decide. A v1 text and the pre-authentication encoding of v2 are never the same
(`MessagesDiffer`), the text of either language determines the signed part of an envelope
(`TextDetermines`), and where an envelope is neither nested nor beyond ASCII the two texts are one
(`TextsAgree`).

**Governor.** `SingleBit` shows that `n & (n - 1)` is 0 just for one position, from the
existence of a lowest one (well-foundedness of the naturals). Testing each declaration against those before it
compares every two (`NamesPairwise`, `BitsPairwise`), for which the keys of an object
have to be distinct; hence `Acceptable` is `WellFormed`. `TableEntry` and `ScopeEntry` say
what a compiled table holds, `MaskIsPresented` that both languages read the mask that the value presents,
`RequiredByScope` what the chosen scope requires, and `Satisfaction` that the signed
comparison is inclusion of sets of bits. `Decision` combines them: both evaluators give one
answer, and it is what the policy permits. `ReplayPermits` shows that the record of an
authorization asks what the request asked. The invariant `Inv` of a governor is that it holds
what was compiled from its source, and that its answer is the evaluators' under that source;
TLC checked it before it was proved.

**Archive.** `TypeInv` adds to the types that revisions of changes are positive and active
key sets known. `StageInv` says what a start has reached: from `root` on the registry's
artifact is complete and flushed, then its name is durable, then the directory. `AckInv` says of each
acknowledged bundle that it was signed under its change (`SignedUnder`) and that this change's artifact is
retained beyond the reach of a power loss (`Retained`); lemma `DurableKept` is the
step: what is flushed, linked and in a durable directory is changed by nothing, since
creation is exclusive. `Acknowledged` follows with lemmas on `VerifyV3`. `LaterTrust` needs
`Grown`: a change knows all key sets of the changes that its `lineage` has, and has a later
revision than they; power losses change neither registries nor lineages, and what they leave
is in the lineage of what was there. `Interruption` needs `Undisturbed` (no artifact is ahead of its revision, and incomplete
ones are being written). `OnlySigned` is about the format: one signature determines the message, the
message payload and keys, and these the whole bundle (`SignatureDetermines`, `PartsAreWhole`).

**Only model-checked.** `EveryAttemptSettles`, `CompleteLockRecovered`, `SlotsAreReturned` and
`EventuallyServes`, which are liveness under fairness and outside the prover's reach, and the
violations. Every invariant, action property and refinement of the passing runs is a theorem.

## 5. Not modelled, and why

* **Cryptography and the bytes of canonical JSON.** Digests and signatures are taken to
  identify what they are computed from. The parsers and the limits of size and depth in
  `proof-v2.cjs`, `pqc/bounded-json.cjs` and their Python twins are functions over strings that a
  model checker would only enumerate; the repository's cross-language vectors test them.
* **The Python twins of the post-quantum proofs** (`pqc/proof.py`, `pqc/record.py`,
  `verify_cli.py`): the same comparisons in the same order. The twins of the evaluator, the governor
  and the v1 and v2 verifiers are modelled.
* **Lifetimes of keys.** Expiry is an event that may happen at any moment (`EvidenceExpires`,
  `KeysUnusable`). Only `OperatorEvidence` has a clock.
* **Power loss for reports, and the request journal of the harness**, which nothing reads but the
  operator.
* **Experiments, operational drivers, release scripts, benchmarks.** They measure or drive the
  parts above and keep no state that another part relies on.

## 6. What is left

1. **Gate and key store composed:** `capture()` and `assertCurrent()` of one process with the
   store's `rotate`, `revoke` and faults in place of the gate's abstract key epochs.
   Property: nothing is signed or dispatched with a key that has been
   revoked by an acknowledged change. Theorem: the gate's view of its keys follows from `KeyRegister`.
2. **Operator evidence as a refinement:** the provider of `OperatorEvidence` implements the
   evidence provider that `ExecutionGate` assumes (one current piece of evidence that expires and is
   replaced).
3. **Reports under power loss**, on `LocalFiles` as the sink is.
