# Formal models of the Pneuma framework

TLA+ modules, TLC configurations and TLAPS proofs for the framework in `src/packages`.
Pneuma builds applications in a governed loop: a Creation Host makes a Generated App
from a profile, the Builder previews it, an agent drafts changes, guardrails and a
verify gate check them, the Builder approves, the change is applied, and the app is
published or rolled back. What must not go wrong is the same everywhere in that loop:
nothing takes effect without consent, what takes effect is what was consented to, and
what is there can always be explained by what the records say. The models are about
that.

1. [The system](#1-the-system)
2. [Plan](#2-plan)
3. [Definition mutation](#3-definition-mutation)
4. [Code change lane](#4-code-change-lane)
5. [App history](#5-app-history)
6. [Permission prompts](#6-permission-prompts)
7. [Dev lifecycle](#7-dev-lifecycle)
8. [Release rollout](#8-release-rollout)
9. [Runs](#9-runs)
10. [Proofs](#10-proofs)
11. [What is not modelled](#11-what-is-not-modelled)

Run `tlc -config X.cfg M` on a configuration of section 9 and `tlapm M.tla` on a module
of section 10.

## 1. The system

TypeScript on Bun, one event loop per process: code between two `await`s is atomic, and
everything else interleaves. The processes are the Host (Creation Host or CLI), the
framework process with its lifecycle orchestrator, the dev process (the runtime of the
Generated App), the agent backend, the browser viewer, and published runtimes.

| component (`src/packages/...`) | state | operations | interacts with | what makes it correct | model |
|---|---|---|---|---|---|
| Definition mutation orchestrator, `core/src/lifecycle.ts` | writer slot, guard (memory and file), approval slots, live prompts | `definition.apply`, `rollback.prepare`, `rollback.execute`, change sets, `reset_to_last_good` | runtime over HTTP, dev process, viewer, ledger | one mutation at a time, consent, a guard that survives crashes, clean means verified | `DefinitionMutation` |
| Permission prompts and ledger, `core/src/permission-ledger*.ts`, `tools/action.ts`, `tools/approval-token-store.ts` | prompt events, live prompts, tokens | ask, respond, expire, authorize, derive requests | orchestrator, viewer | each prompt ends once, tokens are used once, live prompts can be answered | `PermissionPrompts`; the slots of applies and rollbacks in `DefinitionMutation` |
| Authorization kernel, `core-domain/src/services/authorization-kernel.ts` | none | verdict | tools, executor | no token, no execution | its one verdict on that path in `PermissionPrompts` |
| Dev process lifecycle, `core/src/lifecycle.ts`, `process-manager.ts`, `operation-tool-bridge.ts` | process, markers, stop ladder, registered op tools, deploy gate | run, stop, build, deploy, confirm | orchestrator, agent tools | tools belong to the live process, gates are answered once | `DevLifecycle`; one variable in `DefinitionMutation` |
| Framework operations and app history, `runtime/src/framework-operations.ts`, `core-domain/src/lifecycle/bun-sqlite-app-history.ts` | system tables, history snapshots | `add_*`, policy, rollback validate and execute, prune | storage, orchestrator | history explains storage, rollback ends at its target | `AppHistory`; seen from the caller in `DefinitionMutation` |
| Runtime boot, `runtime/src/definition-loader.ts`, `runtime.ts`, `http.ts` | registries | load, serve | storage, orchestrator | serves what is stored | `Restart` in `AppHistory`, one step of `DefinitionMutation` |
| Code change lane, `core/src/code-change-lane.ts`, `host-kit/src/code-change.ts` | source, drafts, proposals in the Host's hands | prepare, apply, reject | Host, agent, BuildThread, command runner | reviewed contents on the reviewed base, inside the boundary, explained by receipts | `CodeChangeLane` |
| BuildThread store, `core/src/build-thread.ts` | threads and turns in one JSON file | start, append, list, close | lane, agent turns | no turn lost, closed threads refuse | open flag and receipts in `CodeChangeLane`; planned |
| Governed change, `host-kit/src/governed-change.ts`, `workspace.ts` | draft workspace | agent turn, diff, verify, observe | agent, lane | the evidence describes one draft | planned |
| Release rollout and publish, `core/src/release-rollout*.ts`, `host-kit/src/publish.ts` | active, previous, candidate | stage, promote, roll back | runtime adapters | one active release, the state knows every runtime | `ReleaseRollout` |
| Build assurance, `core/src/build-assurance*.ts`, `agent-debug-loop.ts` | cases, evidence, store | open, record, recover, close | threads, release | cases close once, on evidence | planned |
| Operation executor, storage, `core-domain/src/services` | rows, events | execute, save, cascade delete | repositories | no dangling reference, events match effects | planned |
| Policy evaluator, where clauses, line diff | none | evaluate | executor, storage, lane | agree with their reference definition | planned |
| Sessions, OAuth, credentials; agent turns and wire protocol | sessions, states; session cache, text deltas | sign in, expire; launch, send, dispatch | viewer, backends | single use, expiry; one session per thread | planned |
| Semantic index, sharing, data and enterprise governance, CLI, viewer, adapters, utilities, examples | - | - | - | - | no, see section 11 |

`PROJECT.json` lists every component with its files, and under `hazards` the lines where
this code is hard to test: interleavings between awaits, answers matched to the wrong
prompt, a stale check used after an await, crashes between an effect and its record,
multi-row changes that fail halfway.

## 2. Plan

In the order of what matters most to the governed loop:

1. `DefinitionMutation` with the abstract `GovernedDefinition` - done, checked, proved.
2. `CodeChangeLane` with the abstract `GovernedSource` - done, checked, proved.
3. `AppHistory` (framework operations as read, append, save, with rollback and boot) -
   done, checked, proved.
4. `PermissionPrompts` with the abstract `ApprovalGate` - done, checked, proved.
5. `DevLifecycle` - done, checked, proved.
6. `ReleaseRollout` with publish - done, checked and proved.
7. What is left, in this order: `BuildThreadStore` and the assurance store (two processes
   that load, change and rename one file), `GovernedChange` (agent turn with a timeout,
   diff, verify, observe on one draft), `AgentTurns` (the session cache), `StorageService`
   (cascades against saves) and `OperationExecutor`; then the pure algorithms: policy
   evaluation, where clauses, the line diff.

Runs stay small: two concurrent calls show every pairwise race of handlers that hold no
other shared state than these variables; a third call only pays for slots shared by three.
There is one run for each module that is modelled and one for each knob the code breaks,
not one for each instance that could be tried.

## 3. Definition mutation

`DefinitionMutation.tla` models the tools of the orchestrator in
`core/src/lifecycle.ts`. A tool call is a record whose `step` is its program counter and
every action is the code between two awaits.

| TLA+ | code |
|---|---|
| `writer` | `definitionMutationWriterActive` |
| `guard` | `definitionMutationGuard` and its file; `running` or `dirty`, with the last known good summary |
| `slot`, `live` | the approval resolvers with their outstanding prompt ids; `liveFrameworkPrompts` |
| `dev`, `served` | the dev process and what it answers on `/api/config` (loaded at boot) |
| `overlay`, `history` | the runtime's stored definition and its snapshots |
| `BeginMutation` ... `Verified` | `runDefinitionApply` and `runDefinitionRollbackExecute`: fetch, validate, ask, answer, POST, stop, restart, verify |
| `BeginPrepare`, `PrepareDone` | the public `rollback.prepare` |
| `BeginRepair`, `RepairClears`, `RepairRefuses` | `resetDefinitionToLastKnownGood` |
| `Commit`, `HistoryAfterFailure`, `HalfRolledBack` | the framework operation handlers, seen from the caller |
| `DevStart`, `DevReady`, `DevStops`, `FrameworkRestarts` | processes starting, getting ready, crashing |

`trusted` and `consent` are auxiliary: the definition last declared clean, and the calls
whose own prompt was allowed. Properties:

- `WriterHeldByOneCall`: at most one mutation, and the slot is taken exactly while there is one.
- `GuardCoversMutation`: from POST to verification a running guard is on disk.
- `CleanMeansTrusted`: no guard means the stored definition is the one last verified.
- `MutationHasConsent`: a gated mutation runs only on the allow of its own prompt.
- `DirtyBlocks`: a dirty guard freezes the stored definition.
- `LivePromptsAnswerable`, `WriterReleased`: every live prompt can be answered; the writer is released.
- `ImplementsGoverned`: the whole refines `GovernedDefinition` (clean, mutating, dirty).

`Repairers` says which calls may run the repair and `DirtyPosts` whether a POST may fail
after having changed the definition; each is a knob because the code breaks a property
with it (runs `repairs` and `lost`).

Abstractions: a definition is a set of items, changes add one and rollbacks remove;
policy rows, validate-only applies, the read-only repair status and change sets are left
out; an in-flight POST that has not committed is dropped when the framework dies; the
service-ready and ready markers are one event; the dev process keeps its port; a row that
does not parse is never skipped at boot; guard file I/O does not fail; stops of
the dev process do not overlap.

## 4. Code change lane

`CodeChangeLane.tla` models `core/src/code-change-lane.ts`. Guardrails run one at a time,
each behind an await, and also the resumption of the call after the last one is an await.

| TLA+ | code |
|---|---|
| `source`, `draft` | the files under `source_root` and `draft_root`; a file's text is an abstract content, absence is one of them |
| `proposal` | what `prepareCodeChangeProposal` returned and the Host keeps |
| `call` | the locals of a running call: phase, check reached, diff state, base snapshot, backup, failed |
| `open`, `recorded` | the BuildThread: open, and what its completed receipts say of each file |
| `BeginPrepare`, `RunCheck`, `Prepared`, `NotPrepared` | `prepareCodeChangeProposal`, `runGuardrails` |
| `Decide`, `Rejected` | the `user_decision` turn; `rejectCodeChangeProposal` |
| `BeginPreApply`, `ApplyRefused` | pre_apply guardrails, `checkWritableFiles`, `checkDraftSnapshotUnchanged` |
| `Apply`, `Completed`, `RolledBack` | backup and copy; post_apply guardrails passed with the receipt, or failed with `restoreBackup` |
| `CheckThrows`, `CopyFails`, `HostRestarts`, `CloseThread` | exceptions, I/O errors, crashes, a closed thread on which `appendTurn` throws |
| `EditDraft`, `CopyDraft` | the agent, at any time; `copyTree` |

`Verdicts` gives the answer of each guardrail: free for commands and delegated checks,
computed for `diff-computable`, `protected-paths-unchanged` (from the diff taken when the
phase began) and `base-snapshot-unchanged` (from the source as it is when the check runs).

`Trouble` names what the Host or its environment may do wrong: overlap applies that share
a file, close the thread during an apply, die between copy and receipt, run a check that
throws after the copy, fail in the middle of a copy. Properties:

- `AppliesWhatWasReviewed` and `BoundaryKept` hold under all of these: the code compares the
  draft with the reviewed snapshot, and the files with the writable roots, without an await
  before the copy. That is one step here, and one for everything in the Host's own event
  loop. The agent is a process of its own: if it writes a draft file between that
  comparison and `copyFileSync`, what it wrote is copied. This is not modelled, and the
  theorems do not speak of it.
- `AppliesOnReviewedBase` needs only that the Host does not overlap: the base is
  compared by an awaited guardrail and not looked at again (run `stale`).
- `ReceiptsExplainSource` (a file nobody applies to holds what the last completed receipt
  says of it) and the refinement `ImplementsGovernedSource` need `Trouble = {}`: the code
  has neither a lock on the source nor a recovery of an apply without a receipt, and
  documents none. Adding any single trouble to `CodeChangeLane_serial.cfg` makes TLC
  violate `ReceiptsExplainSource`.

Abstractions: the thread store is always supplied and the proposal turn recorded; the
Host keeps the evidence over restarts; guardrail commands do not write the source or the
draft; diff rendering and path exclusion are left out; a `BuildThread` is open or closed,
its file is reliable, and after a close the Host continues on a new thread.

## 5. App history

`AppHistory.tla` models the framework operations of
`runtime/src/framework-operations.ts`, the history store and the loader. Every operation
reads the definition tables, appends the overlay it is about to reach and then saves or
deletes one row; the audit comes first so that no row lacks one. An entry is a stored row:
its row id, the definition it declares and a value that stands for all its other fields.

| TLA+ | code |
|---|---|
| `rows`, `history` | the six system tables; `app_history`, with the index as version |
| `served`, `posture` | the registry and the evaluator's default, as of the last boot |
| `AddTable` ... `AddPolicyRule` | the duplicate checks of the `add_*` handlers |
| `UpdatePolicyRule`, `DeletePolicyRule`, `SetDefaultPosture` | the handlers that change a policy |
| `ReadOverlay`, `ReadVersion`, `Insert`, `Save` | reading the tables, `history.append` (read the latest version, insert; a version that was taken throws), `saveRow` |
| `Rollback`, `ReadCurrent`, `DeleteOne`, `RestoreOne` | `definition_rollback_execute`: validation, backup, deletes in the handler's order, restores, the target snapshot |
| `WriteFails`, `Restart` | a write that throws (a rollback then appends a failure entry); the runtime dying and booting |

- `AuditFirst`: every stored row is described by a snapshot of the history, through any
  overlap, failure, restart and rollback.
- `SerialCallRecorded`: a call that met no other leaves stored exactly its own snapshot.
- `RollbackReachesTarget`: a rollback that met no other call and says that it is done
  has restored the target, also when it finishes what another left half done.
- `WritesRecorded`: each write of a row leads to the overlay that its call has recorded or
  that the rollback returns to, and takes out no definition that this overlay has, whoever
  else is writing. `AuditFirst` says it of what comes, this also of what goes.
- `OverlayLoads`: the loader skips nothing that is stored.

The last four say where they hold, and that is what the code gives. Two overlapping calls
append snapshots that lack each other's row. `RollbackReachesTarget` needs `OneRowEach`: a
policy rule that was deleted and added again has a new row id, and a rollback beyond that
point saves the old row beside the new one (`framework-operations.ts:1712`), although the
executor (1465) and ADR-0017 say that the target is reached; dropping `OneRowEach` from the
property makes TLC show it. `WritesRecorded` needs it for rollbacks: an add that overlaps a
rollback can record a column without its table, and once that table is declared anew, a
rollback to that record deletes the column with the table (TLC shows it when five entries
fit in the history). `OverlayLoads` needs that no rollback was cut short and that no call
began on a registry older than a rollback (`calm`), since a column may be added to a table
that is served and no longer stored.

`DefinitionMutation` sees all of this as one POST: what it takes for granted in `Commit` (the
definition that was recorded is the one stored) is `SerialCallRecorded` and
`RollbackReachesTarget`, and in `HalfRolledBack` (a failed rollback has lost nothing that its
target has) it is `WritesRecorded`. The orchestrator's calls come one at a time
(`WriterHeldByOneCall`).

`DeclaredOnAssumption` says what `add_table_column` and `add_view` make sure of: they look
up what they declare on in the registry of tables and of operations, so that a column is on
a table and a view on an operation.

Abstractions: steps end at awaits. With the synchronous SQLite of production requests
rarely interleave there, but nothing in the handlers relies on that. The five consecutive
reads of `add_table` and `add_table_column` are one step; which of two twin rows the loader
takes is left open; `definition_version`, the app rows and cells a rollback deletes, the
refusal of a cascade into a removed table and `prune` are left out.

## 6. Permission prompts

`PermissionPrompts.tla` models the prompts of change sets and gated deploys in
`core/src/lifecycle.ts`, and what `core/src/permission-ledger.ts` derives of them.

| TLA+ | code |
|---|---|
| `changeSetSlot`, `deployPrompt`, `deployResolver` | the outstanding prompt ids and resolvers |
| `live`, `deferred`, `terminal` | `liveFrameworkPrompts`, `deferredDefinitionChangeSets`, `permissionLedgerTerminalPromptIds` |
| `ledger`, `lost` | the events of each prompt; which of them missed one (appends are best-effort) |
| `Request`, `Prompt`, `Respond`, `RespondTooLate` | asking for a change set, in wait or defer mode, and `handleFrameworkPermissionResponse` |
| `StartDeploy`, `RespondDeploy`, `Confirm` | `runDeploy` with a gate, its prompt, `lifecycle.confirm` |
| `StartDeployFails`, `SpawnDeployFails` | the push of its prompt throws, leaving resolver and id behind; the spawn after the yes throws |
| `Authorize`, `BeginChild` ... `Completes` | the token, then the children one by one under the writer |
| `OtherMutation`, `Close`, `Crash` | another mutation (or the guard a failed child left), `close()`, the framework dying |
| `Status` | `deriveOne`: what the Permission Center says |

- `Consent` refines `ApprovalGate`: asked once, decided once, effects only while granted,
  none after the call was refused, given up or ended.
- `OwnAnswer`: whoever executes has the Builder's yes to its own prompt.
- `StatusHonest`, `FinalStatus`: what the Permission Center says is what happened, although
  events are lost; what it calls over changes nothing more.
- `EveryoneSettles`: every call that asked ends. Calls whose slot was taken by a later prompt are
  excepted: no answer reaches them, and in wait mode their tool call never returns.

Abstractions: events are ordered as they are appended (the code sorts by `at_ms`, whose
ties it does not break); the token is minted and consumed in one step, so that the kernel
always allows; the script of a deploy is its end; `close()` may be called more than once.

## 7. Dev lifecycle

`DevLifecycle.tla` models `runDev`, `runStop`, `close()` and the restart inside an apply or
a rollback. The orchestrator has one of everything, and several calls and two processes may
share it; the model numbers the calls of `runDev` as cycles.

| TLA+ | code |
|---|---|
| `process` | the OS process of each cycle, with its pipe and what it was told |
| `execution`, `stateDev` | `VerbExecution` objects and which one `state.dev` holds |
| `devProc`, `stdin`, `stopInvoked`, `operationsFetched` | the fields of these names |
| `tools` | the registered `op.*` tools (`onDevStopped` clears them) |
| `Start`, `Stop`, `Close`, `RunDev`, `RunStop` | the tools and `close()` |
| `ScriptEnds`, `Escalate` | the two waits of `runStop`: stop.sh, then SIGTERM and SIGKILL |
| `BeginApply`, `ConfigRecorded`, `StopForApply` | the restart that an apply or a rollback does |
| `Exit`, `PipeCloses`, `ServiceReady`, `Ready`, `SaysStopping`, `OperationsLoaded` | exits, markers and `/api/config` answers, in any order |

- `NothingForgotten`: a process nobody told to stop is the one `runStop` would signal.
- `LatchCovers`: when the latch lets `close()` skip the teardown, nothing keeps running.
- `OwnCycle`: a cycle that began clean has its own tools, fetch and stdin.
- `StopTakesEffect`: after `runStop` no process keeps running, unless dev starts again.

`mixed` and `clean` are history variables that say where these hold: `mixed` becomes true
when a process is started while a stop is on its way, which the latch lets a restart or an
apply do, and a cycle is `clean` when nothing of another was left as it began. Without `~mixed`
TLC violates `NothingForgotten` and `LatchCovers`, without `clean` it violates `OwnCycle`:
the code does not isolate cycles that overlap.

Abstractions: death and reported exit are one step, `exited` also stands for `crashed`, and one
service-ready is heard per process; an apply stands for `definition.apply` and
`rollback.execute`, one at a time by the writer; needs-confirm is kept only as whose stdin
is reached; a missing dev script and a failing spawn are the same return; other verbs,
ports and the death of the Host are left out.

## 8. Release rollout

`ReleaseRollout.tla` models `core/src/release-rollout.ts`, its file store, the `release.*`
tools and the publish and rollback of `host-kit/src/publish.ts` with the docker adapter.

| TLA+ | code |
|---|---|
| `store` | `release-rollout.json`: active, previous, candidate, timeline |
| `NameOf` | `containerName`: what the docker adapter makes of a version; versions may share a name |
| `up` | what the published container of each name serves, if it runs |
| `Staged`, `Promoted`, `RolledBack`, `MayPromote`, `MayRollBack` | the pure transitions and their refusals |
| `Stage`, `Promote`, `Rollback` | the tools and `rollbackPublishedVersion`: load, then |
| `Save`, `Refused`, `SaveFails` | save, or not |
| `Publish`, `RemoveOld`, `Runs`, `RunFails` | `publishVerifiedVersion` and `startPublished`: remove what has the name, run |
| `Ready`, `NotReady`, `Stops`, `StopFails` | `waitUntilReady`, `stopPublishedBestEffort` |
| `Crash`, `RuntimeEnds` | the Host dies, runtimes do not; a runtime ends by itself |

- `TimelineExplains`: the slots are what the timeline says, and every move in it starts where the
  one before ended, whoever saved over whom.
- `HealthyOnly`: no release with a failed check gets to be active or previous.
- `SlotsServed`: the container of an active or previous release runs and serves that version,
  whatever has been published to other container names, successfully or not.
- `ReportedRecorded`: a publish that reported success is in the timeline.
- `NoOrphan`: what runs is being published or is in the timeline.

`stale` and `shaken` say where the last three hold. Load and save are not one step, so that of
two operations the later save wins (`stale`): the release of the other is lost, and its
runtime unknown. A crash, a failing save or a failing stop leaves a runtime that nothing
looks for, and publishing to a name again first removes the container that has it (`shaken`).

Names. `containerName` lower-cases and replaces every character outside of `[a-zA-Z0-9_.-]`,
so that `V1` and `v1`, or `1+a` and `1-a`, have one container. The model takes any `NameOf`, and
`shaken` and `SlotsServed` speak of names: a name is shaken when it is published to while it
is in use, by whichever version. Only if every version has a name of its own does that
mean that the same version is published again. Nothing in the code compares names, so
with a shared one publishes of different versions meet. If a publish of another version
did not count as publishing to the name again, TLC would violate `SlotsServed`: `v1` is published
and active; a publish of `v2`, whose container has the same name, removes that of `v1`;
the state still has `v1` as active, and will go on to if `v2` never gets ready.

Abstractions: every publish of the docker adapter maps its one host port, so that a second
container runs only when the port is free, and whatever answers there is what
`waitUntilReady` hears: `Ready` asks only that some runtime is up, and `Runs` does not ask
for the port. Previews, whose names end in `-preview`, are left out, and so are versions
named like one. Nobody
stops the runtime of a release that drops out of `previous`, in the code or here;
the data receipt only refuses and the rejection of a promotion inside a publish cannot
happen, and both are left out, as is a state file that does not parse.

## 9. Runs

| run | configuration | shows |
|---|---|---|
| `safety` | two calls, two items, all tools, one of the calls may repair, crashes anywhere; 592k states | all safety properties of `DefinitionMutation` and its refinement |
| `live` | two calls, two items, `DirtyPosts`, no public prepare, `FairSpec`; 157k states | `WriterReleased`, `LivePromptsAnswerable` |
| `lost` (violation) | `DirtyPosts` | `runDefinitionApply` clears the guard on a failed POST that did change the definition: `CleanMeansTrusted` fails |
| `repairs` (violation) | both calls may repair | the second repair clears the guard of a mutation started after the first: `GuardCoversMutation` fails |
| `prompts` (violation) | public prepare in use | a second prepare overwrites the approval slot of the first: `LivePromptsAnswerable` fails |
| `serial` | two calls, one draft, two writable files with two contents, guardrails as in `MCGuardrails`, no trouble; 523k states | all properties of `CodeChangeLane` and its refinement |
| `troubled` | one writable file and one outside, every trouble; 857k states | `BoundaryKept`, `AppliesWhatWasReviewed` |
| `stale` (violation) | overlap only | a base that changes after its check is overwritten: `AppliesOnReviewedBase` fails |
| `history` | two callers, a definition of each kind, three row ids, two values; 624k states | all properties of `AppHistory` |
| `asking` | two calls of any mode, two children, `FairSpec`; 136k states | all properties of `PermissionPrompts`, its refinement and its liveness |
| `dev` | two callers, two calls of `runDev`, `FairSpec`; 629k states | all properties of `DevLifecycle` |
| `rollout` | two callers, three versions, two of which share a container name; 2.54M states | all properties of `ReleaseRollout` |

Bounds. Two calls are enough for each race named in the hazards: every one is between two
handlers, and slots are reused, so that a call can follow any number of earlier ones. Two
items tell a change from another and a rollback from the last good definition; in runs
with one item an item is added and removed again. One draft and two
proposals prepared from it one after the other (a call keeps its own copy of the evidence)
give two applies with different contents, equal or overlapping files; two contents tell
old from new. `pre_apply` has a command after the base check because that is
the await the hazard is about. Nothing is bounded by a constraint; the
state spaces of the first two modules are finite as they are.

Bounds named in the modules: in `AppHistory` no call begins with `MaxHistory` = 4 entries
in the history and none meets another with `MaxOverlap` = 2 (a rollback appends two
entries, so that a rollback of a rollback that failed halfway still fits); in
`DevLifecycle` there are `MaxCycles` = 2 calls of `runDev`, since every race is between a
cycle and the next one; in `ReleaseRollout` a timeline holds `MaxStaged` = 2 stagings and
`MaxRolledBack` = 2 rollbacks: two releases are published over each other and swapped
twice, of versions with one container name or with two. `PermissionPrompts` needs none: a call has one prompt.

Symmetry: calls (lane), items (definition), row ids and callers (history), callers and
the two versions with one name (rollout) are interchangeable in the specifications and the properties; it is
used in safety runs only.

Fairness. In `live`, a call whose await has resolved goes on and the runtime answers a
POST, since the event loop runs every ready continuation; a spawned dev process gets ready
or exits; the Builder answers the outstanding prompt. The last two are assumptions on the
environment: the code has no timeout for either. Nothing is assumed of new calls, crashes, or
dev starts and stops asked for by others. In `asking`, a call that has been answered goes
on, and the Builder answers a prompt that he can still answer; that is again an assumption,
as no prompt has a timeout. In `dev`, only what the code or the system guarantees: both waits of
`runStop` have a timeout (10 s and 5 s), and a process that was sent SIGKILL ends and is
reported, 500 ms after its end at the latest even if a child keeps the pipe open.

Deadlock is checked in every run. Each property of a passing run has a mutant in
`PROJECT.json`: a changed form of one definition, written just before it in the module,
under which TLC finds the property violated.

## 10. Proofs

`DefinitionMutationProofs.tla` proves for any sets of calls and items, any tools:

- `TypeCorrect`, `OneWriter`, `ConsentedMutation`, from the inductive `ExclusionInv`. The
  writer property alone is not inductive: a call must also be in a step its tool can reach
  (`StepFitsKind`), and consent needs that a call waiting in a slot is the one its
  prompt names and that a call past its approval has the consent;
- `PromptsAnswerable`, assuming that the public prepare is not in use (the knob of the run
  `prompts`), from `LiveInv`: a live prompt belongs to a waiting call that its slot names.
  Whoever waits then holds the writer, so that no second call can take a slot.

`DefinitionMutationGuardProofs.tla`, assuming at most one repairing call:

- `GuardedMutation` from `GuardInv`, which adds that a repair under way and a mutation exclude
  each other by the guard.
- assuming also that no failed POST has changed the definition: `CleanIsTrusted`,
  `DirtyGuardBlocks` and `Implementation` (the refinement) from `TrustInv`, which adds
  what the dev process serves, what the last known good summary is, and which calls have
  committed. The two assumptions are exactly the knobs of the runs `repairs` and `lost`.

`CodeChangeLaneProofs.tla`, for any calls, drafts, files, contents and guardrails:

- `LaneTypeCorrect`, from `TypeInv` (the backup and the reviewed contents of an apply
  under validation are there for its files, all of them writable);
- `ReviewedApplied` and `Boundary`, with any trouble: only `Apply` takes a call from the
  checks to the copy, and its guard compares the draft in the same step;
- `ReviewedBaseOverwritten`, assuming `"overlap" \notin Trouble` and the base check among
  the `pre_apply` guardrails: from `BaseInv`, applies under way are disjoint, and a call
  whose base check has passed keeps its base under every step of the others;
- `ReceiptsExplain` and `LaneImplementsGovernedSource`, assuming `Trouble = {}`: from
  `ReceiptInv`, which adds to the disjointness that the thread of an apply is open, that
  the source holds what the apply copied, and that the backup is what the receipts say.

`AppHistoryProofs.tla`, for any definitions, rows, values and callers:

- `HistoryTypeCorrect`, `AuditFirstCorrect` and `SerialCallCorrect`, from `Inv`. No row without
  an audit is not inductive: `Sound` adds, of every call under way, that what it will save is
  in the snapshot it is about to append, and past the append in one of the history, and that
  what a rollback will write comes from a snapshot. For the serial call `Lone` says that
  a call that met no other is alone, and `Intended` that its snapshot is what writing its row
  will leave, which needs that rows are keyed by row id (`Keyed`).

`AppHistoryRollbackProofs.tla` goes on from there, about what rollbacks leave behind. All of
it rests on `OwnInv`: a row id never changes its definition, in all that the history holds
(`Snap`), in the store and in what calls have in hand; a call that adds has a row id nobody
else has; and while a rollback is alone the rows it is to delete are still there.

- `OverlayLoadsCorrect`, from `CalmInv`. That what is stored loads is not inductive, because a
  rollback deletes tables before what is declared on them: in its place there stands
  `Final`, the definitions that will be there when the rollback is done, which are closed
  under what they are declared on from the step in which it reads the store. Every
  snapshot it could return to is closed too (`ClosedSnapshots`).
- `WritesRecordedCorrect`, from `WayInv`: a call that saves has its snapshot in the history
  (`Leads`), and nothing a rollback is to delete is in its target (`Spares`), which again needs
  `OrphanInv`.
- `RollbackTargetCorrect`, from `PlanInv` and `OrphanInv`. `Plan` says that the store without
  what is left to delete and with what is left to write back means what the target
  means; deleting or writing one row keeps this. That it is so when the rollback starts
  (`PlanReaches`) is not obvious: columns of a removed table go with it, also those that the
  target has, and the validation did not list them. `OrphanInv` shows that there are none: as long
  as no definition has had two row ids, a table that a column was ever declared on does not
  come back once it has left the store, so that a target with the column and without
  the table is only reached when the table is gone already.

`PermissionPromptsProofs.tla`, for any calls and children:

- `PromptsTypeCorrect`, `OwnAnswerCorrect`, `StatusHonestCorrect`, `FinalStatusCorrect` and
  `ConsentCorrect` (the refinement of `ApprovalGate`), from `Inv`, which relates
  each call to its slot and to the events of its prompt. What a status says depends on the
  order of the events, so that `Good` has every ledger `Ordered`: each event occurs at most
  once, in the order of its rank, and at most one of them ends the prompt. The refinement
  goes by `Moves`, what a step may do to one call, and `GateStep`.

`DevLifecycleProofs.tla`, for any callers and any number of cycles:

- `TypeCorrect`; `FreshCorrect`, from `FreshInv` (cycles not begun yet have no process, and
  the references point to cycles that have begun), on which the others rest;
- `NothingForgottenCorrect` and `LatchCoversCorrect`, from `StopInv`. Neither property is
  inductive: as long as no start met a stop, at most one call is stopping or about to
  start, the latch is set while one stops, and past the script every process has been told;
- `OwnCycleCorrect`, from `OwnInv`: a clean cycle is alone (nothing of another process or
  fetch can come back) and the fetch flag is free until its own service is there.

`ReleaseRolloutProofs.tla`, for any callers, versions, bounds and container names (`NameOf` is any
function, so nothing here rests on a name per version):

- `RolloutTypeCorrect`, from `TypeInv`, which adds what a call has in hand at each of its
  steps (`Planned`: who saves has loaded a state, and brings a release if it needs one);
- `HealthyCorrect`, from `SaneInv`: the slots are healthy in the saved state and in every
  copy that a call in flight has loaded and may save over a newer one;
- `SlotsServedCorrect`, `ReportedCorrect` and `NoOrphanCorrect`, from `Accounts`, which says of
  the container names no trouble has touched that one publish at a time has them in hand
  (`Alone`), that only the first publish to a name can fail (`First`), that what was reported
  runs (`Runtimes`), and that the timeline has it and knows what else runs (`Known`), where
  what runs under a name is a version of that name (`Labelled`);
- `TimelineCorrect`, from `SoundInv`: `Explains` for the saved state and for every loaded copy.
  A copy that is saved late carries its own timeline, so the lost update loses a move and
  never leaves slots that no timeline explains.

The proofs rest on the modules' named assumptions on constants, which TLC evaluates in every run.

Checked but not proved: `WriterReleased`, `EveryoneSettles` and `StopTakesEffect` (liveness
under fairness, out of the prover's reach). Every safety invariant and every action property that
a run checks, and each of the three refinements, is stated by a theorem.

## 11. What is not modelled

- Planned components: section 2. Until then their interplay with the other modules is
  abstracted as described in sections 3 to 8.
- Semantic index, identity registry, repositories: thin layers over SQLite.
- Sharing, runtime data and enterprise governance, host authoring: pure builders and
  validators of records.
- CLI, viewer, provider and deployment adapters, process, git, log and manifest utilities:
  I/O around other systems.
- `src/examples`, `src/templates`: sample applications.
