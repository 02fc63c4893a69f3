------------------------- MODULE DefinitionMutation -------------------------
(***************************************************************************)
(* The governed app-definition mutations of LifecycleOrchestrator          *)
(* (packages/core/src/lifecycle.ts): definition.apply,                     *)
(* definition.rollback.execute, definition.rollback.prepare and            *)
(* definition.repair.reset_to_last_good, as tool calls that interleave at  *)
(* every await, share one in-memory writer slot, one durable guard file    *)
(* and one approval slot per tool, and drive one dev process.              *)
(*                                                                         *)
(* A call is its program counter (step), and each action is the code       *)
(* between two awaits.  An app definition is the set of definition items   *)
(* (tables, columns, operations, views) it holds.  The durable             *)
(* overlay is what the runtime has in its system tables; a dev process     *)
(* serves the overlay it loaded when it booted, because /api/config        *)
(* answers from the registries definition-loader.ts filled at boot.        *)
(***************************************************************************)
EXTENDS FiniteSets

CONSTANTS
  Calls,         \* slots for concurrent tool calls, reused when a call ends
  Items,         \* definition items the changes add and the rollbacks remove
  Kinds,         \* the tools in use, a subset of AllKinds
  Repairers,     \* the calls that may run definition.repair.reset_to_last_good
  DirtyPosts,    \* may a POST that fails have changed the definition: its reply
                 \* lost, or a rollback half done?
  NoCall,        \* no outstanding prompt in an approval slot
  NoSummary      \* a guard that could not be parsed has no last-good summary

AllKinds == {"apply", "rollback", "prepare", "repair"}

ASSUME KindsAssumption == Kinds \subseteq AllKinds
ASSUME RepairersAssumption == Repairers \subseteq Calls
ASSUME DirtyPostsAssumption == DirtyPosts \in BOOLEAN
ASSUME NoCallAssumption == NoCall \notin Calls
ASSUME NoSummaryAssumption == \A d \in SUBSET Items : NoSummary # d

VARIABLES
  writer,   \* definitionMutationWriterActive: the operation that holds it
  guard,    \* definitionMutationGuard, in memory and on disk alike
  call,     \* the tool calls
  slot,     \* the outstanding prompt of each approval slot and its resolver
  live,     \* liveFrameworkPrompts, named by the call that raised the prompt
  dev,      \* the dev process: absent (or never ready), starting, ready, down
  served,   \* the definition the dev process answers on /api/config
  overlay,  \* the definition overlay in the runtime's durable storage
  history,  \* the definitions app history has snapshots of; version 0 is empty
  trusted,  \* auxiliary: the definition last declared clean
  consent   \* auxiliary: calls whose own prompt was answered "allow"

vars == <<writer, guard, call, slot, live, dev, served, overlay, history,
          trusted, consent>>

Definition == SUBSET Items
Slots == {"apply", "rollback"}

Step == {"idle", "fetching", "validating", "asking", "waiting", "denied",
         "decided", "posting", "dropped", "stopping", "restarting",
         "restarted", "exited", "observing"}

IdleCall == [step |-> "idle", kind |-> "apply", gated |-> FALSE,
             goal |-> {}, before |-> {}, removed |-> {}, committed |-> FALSE]

NoGuard == [status |-> "none", lkg |-> NoSummary]

Call == [step : Step, kind : AllKinds, gated : BOOLEAN, goal : Definition,
         before : {NoSummary} \cup Definition, removed : Definition,
         committed : BOOLEAN]

Guard == [status : {"none", "running", "dirty"},
          lkg : {NoSummary} \cup Definition]

TypeOK ==
  /\ writer \in {"none", "apply", "rollback"}
  /\ guard \in Guard
  /\ call \in [Calls -> Call]
  /\ slot \in [Slots -> Calls \cup {NoCall}]
  /\ live \in SUBSET Calls
  /\ dev \in {"absent", "starting", "ready", "down"}
  /\ served \in Definition
  /\ overlay \in Definition
  /\ history \in SUBSET Definition
  /\ trusted \in Definition
  /\ consent \in SUBSET Calls

Init ==
  /\ writer = "none"
  /\ guard = NoGuard
  /\ call = [c \in Calls |-> IdleCall]
  /\ slot = [s \in Slots |-> NoCall]
  /\ live = {}
  /\ dev = "absent"
  /\ served = {}
  /\ overlay = {}
  /\ history = {{}}
  /\ trusted = {}
  /\ consent = {}

-----------------------------------------------------------------------------
(* Helpers: what one synchronous stretch of the code does to a call, to    *)
(* the writer and to the guard.                                            *)

Mutating(c) == call[c].kind \in {"apply", "rollback"}

SlotOf(c) == IF call[c].kind = "apply" THEN "apply" ELSE "rollback"

\* state.dev is the last process spawned; it has a URL once it was ready.
HasServiceUrl == dev \in {"ready", "down"}

StoppedDev == IF HasServiceUrl THEN "down" ELSE "absent"

Goto(c, s) == call' = [call EXCEPT ![c].step = s]

\* The call returns or throws: its record, its consent and its live prompt go.
End(c) ==
  /\ call' = [call EXCEPT ![c] = IdleCall]
  /\ consent' = consent \ {c}

\* Mutant: an operation that does not hold the writer takes it on its way out.
EndWriterTakes(c) ==
  writer' = IF writer = call[c].kind THEN "none" ELSE call[c].kind

\* endDefinitionMutationWriter: only if the named operation still holds it.
EndWriter(c) ==
  writer' = IF writer = call[c].kind THEN "none" ELSE writer

\* fail(): the writer, if the call took it, is released and the call throws.
Abort(c) == End(c) /\ EndWriter(c)

MarkDirty ==
  guard' = IF guard.status = "none" THEN guard
                                    ELSE [guard EXCEPT !.status = "dirty"]

ClearGuard == guard' = NoGuard

Matches(c) ==
  IF call[c].kind = "apply"
  THEN call[c].goal \subseteq served \ call[c].before
  ELSE call[c].removed \cap served = {}

\* What the calls see of a dev process that exits: a restart in progress
\* resolves to EXITED, a POST it has not executed will never be.
StepAfterDevGone(r) ==
  IF r.step = "restarting" THEN "exited"
  ELSE IF r.step = "posting" /\ ~r.committed THEN "dropped" ELSE r.step

AfterDevGone ==
  [c \in Calls |-> [call[c] EXCEPT !.step = StepAfterDevGone(call[c])]]

StepAfterDevReady(r) ==
  IF r.step = "restarting" THEN "restarted" ELSE r.step

AfterDevReady ==
  [c \in Calls |-> [call[c] EXCEPT !.step = StepAfterDevReady(call[c])]]

-----------------------------------------------------------------------------
(* definition.apply and definition.rollback.execute up to their approval   *)

\* Mutant: the guard a failed mutation left behind is not looked at.
MayBeginIgnoresGuard == writer = "none"

\* ensureNoDefinitionMutationGuard: refused while a writer or a guard exists.
MayBegin == writer = "none" /\ guard.status = "none"

\* beginDefinitionMutationWriter takes the writer before the first await;
\* refused, or without a service URL, the call fails and leaves no trace.
BeginMutation(c) ==
  /\ call[c].step = "idle"
  /\ MayBegin
  /\ HasServiceUrl
  /\ \E kind \in Kinds \cap {"apply", "rollback"}, gated \in BOOLEAN :
       \E goal \in IF kind = "apply" THEN {{i} : i \in Items} ELSE history :
         /\ writer' = kind
         /\ call' = [call EXCEPT ![c] =
              [IdleCall EXCEPT !.step = "fetching", !.kind = kind,
                               !.gated = gated, !.goal = goal]]
  /\ UNCHANGED <<guard, slot, live, dev, served, overlay, history, trusted,
                 consent>>

\* The public definition.rollback.prepare takes no writer.
BeginPrepare(c) ==
  /\ "prepare" \in Kinds
  /\ call[c].step = "idle"
  /\ HasServiceUrl
  /\ \E gated \in BOOLEAN, goal \in history :
       call' = [call EXCEPT ![c] =
         [IdleCall EXCEPT !.step = "validating", !.kind = "prepare",
                          !.gated = gated, !.goal = goal]]
  /\ UNCHANGED <<writer, guard, slot, live, dev, served, overlay, history,
                 trusted, consent>>

\* GET /api/config answered: apply validates the change against it, rollback
\* goes on to POST definition.rollback.validate.
FetchBefore(c) ==
  /\ call[c].step = "fetching"
  /\ dev = "ready"
  /\ call[c].kind = "apply" => call[c].goal \cap served = {}
  /\ call' = [call EXCEPT ![c].before = served,
                          ![c].step = IF call[c].kind = "rollback"
                                      THEN "validating"
                                      ELSE IF call[c].gated THEN "asking"
                                                            ELSE "decided"]
  /\ UNCHANGED <<writer, guard, slot, live, dev, served, overlay, history,
                 trusted, consent>>

\* definition.rollback.validate computes the removals from the stored overlay.
Validate(c) ==
  /\ call[c].step = "validating"
  /\ dev = "ready"
  /\ call' = [call EXCEPT ![c].removed = overlay \ call[c].goal,
                          ![c].step = IF call[c].gated THEN "asking"
                                                       ELSE "decided"]
  /\ UNCHANGED <<writer, guard, slot, live, dev, served, overlay, history,
                 trusted, consent>>

\* The fetch or the validation failed.
PreparationFails(c) ==
  /\ call[c].step \in {"fetching", "validating"}
  /\ Abort(c)
  /\ UNCHANGED <<guard, slot, live, dev, served, overlay, history, trusted>>

\* The request is in the ledger: the prompt becomes the outstanding one of
\* its slot, whatever was there, and is pushed to the viewer.
Ask(c) ==
  /\ call[c].step = "asking"
  /\ slot' = [slot EXCEPT ![SlotOf(c)] = c]
  /\ live' = live \cup {c}
  /\ Goto(c, "waiting")
  /\ UNCHANGED <<writer, guard, dev, served, overlay, history, trusted,
                 consent>>

\* Mutant: the prompt whose push failed stays live.
AskFailsKeepsPrompt(c) ==
  /\ call[c].step = "asking"
  /\ slot' = [slot EXCEPT ![SlotOf(c)] = NoCall]
  /\ live' = live \cup {c}
  /\ Abort(c)
  /\ UNCHANGED <<guard, dev, served, overlay, history, trusted>>

\* No hook or a rejected ledger append leaves the slot alone; a push hook
\* that throws leaves it empty.
AskFails(c) ==
  /\ call[c].step = "asking"
  /\ slot' \in {slot, [slot EXCEPT ![SlotOf(c)] = NoCall]}
  /\ Abort(c)
  /\ UNCHANGED <<guard, live, dev, served, overlay, history, trusted>>

\* Mutant: the answer to any live prompt resolves the outstanding one.
AnswerIgnoresId(c, decision) ==
  /\ c \in live
  /\ slot[SlotOf(c)] # NoCall
  /\ slot' = [slot EXCEPT ![SlotOf(c)] = NoCall]
  /\ live' = live \ {c}
  /\ consent' = IF decision = "allow" THEN consent \cup {c} ELSE consent
  /\ Goto(slot[SlotOf(c)], IF decision = "allow" THEN "decided" ELSE "denied")
  /\ UNCHANGED <<writer, guard, dev, served, overlay, history, trusted>>

\* handleFrameworkPermissionResponse: an answer counts only if its prompt is
\* the outstanding one of its slot.
Answer(c, decision) ==
  /\ slot[SlotOf(c)] = c
  /\ slot' = [slot EXCEPT ![SlotOf(c)] = NoCall]
  /\ live' = live \ {c}
  /\ consent' = IF decision = "allow" THEN consent \cup {c} ELSE consent
  /\ Goto(c, IF decision = "allow" THEN "decided" ELSE "denied")
  /\ UNCHANGED <<writer, guard, dev, served, overlay, history, trusted>>

\* Mutant: the early return forgets the writer.
DeniedKeepsWriter(c) ==
  /\ call[c].step = "denied"
  /\ End(c)
  /\ UNCHANGED <<writer, guard, slot, live, dev, served, overlay, history,
                 trusted>>

\* The call returns "denied".
Denied(c) ==
  /\ call[c].step = "denied"
  /\ Abort(c)
  /\ UNCHANGED <<guard, slot, live, dev, served, overlay, history, trusted>>

\* The approval token is refused for the framework_system execution.
AuthorizationRefused(c) ==
  /\ call[c].step = "decided"
  /\ call[c].gated
  /\ Mutating(c)
  /\ Abort(c)
  /\ UNCHANGED <<guard, slot, live, dev, served, overlay, history, trusted>>

\* rollback.prepare ends "ready_to_execute".
PrepareDone(c) ==
  /\ call[c].step = "decided"
  /\ call[c].kind = "prepare"
  /\ End(c)
  /\ UNCHANGED <<writer, guard, slot, live, dev, served, overlay, history,
                 trusted>>

-----------------------------------------------------------------------------
(* The mutation proper: guard, POST, restart, verification                 *)

\* Mutant: the POST is sent before the guard is written.
StartMutationUnguarded(c) ==
  /\ call[c].step = "decided"
  /\ Mutating(c)
  /\ Goto(c, "posting")
  /\ UNCHANGED <<writer, guard, slot, live, dev, served, overlay, history,
                 trusted, consent>>

\* startDefinitionMutationGuard persists the guard, then the POST is sent.
StartMutation(c) ==
  /\ call[c].step = "decided"
  /\ Mutating(c)
  /\ guard' = [status |-> "running", lkg |-> call[c].before]
  /\ Goto(c, "posting")
  /\ UNCHANGED <<writer, slot, live, dev, served, overlay, history, trusted,
                 consent>>

\* The runtime's handler: a change must be new, a rollback only removes.
Commit(c) ==
  /\ call[c].step = "posting"
  /\ ~call[c].committed
  /\ dev = "ready"
  /\ IF call[c].kind = "apply"
     THEN /\ call[c].goal \cap overlay = {}
          /\ overlay' = overlay \cup call[c].goal
     ELSE /\ call[c].goal \subseteq overlay
          /\ overlay' = call[c].goal
  /\ history' = history \cup {overlay'}
  /\ call' = [call EXCEPT ![c].committed = TRUE]
  /\ UNCHANGED <<writer, guard, slot, live, dev, served, trusted, consent>>

Reply(c) ==
  /\ call[c].step = "posting"
  /\ call[c].committed
  /\ Goto(c, "stopping")
  /\ UNCHANGED <<writer, guard, slot, live, dev, served, overlay, history,
                 trusted, consent>>

\* The add_* handlers append the snapshot to app history before they save the
\* definition row, so that a failure in between leaves a snapshot of a
\* definition that never was.
HistoryAfterFailure(c) ==
  {history} \cup
    IF call[c].kind = "apply" /\ ~call[c].committed
    THEN {history \cup {overlay \cup call[c].goal}} ELSE {}

\* The POST ends in an error: apply clears the guard, rollback marks it dirty.
PostFails(c) ==
  /\ \/ call[c].step = "posting" /\ (~call[c].committed \/ DirtyPosts)
     \/ call[c].step = "dropped"
  /\ IF call[c].kind = "apply" THEN ClearGuard ELSE MarkDirty
  /\ history' \in HistoryAfterFailure(c)
  /\ Abort(c)
  /\ UNCHANGED <<slot, live, dev, served, overlay, trusted>>

\* One of the rollback's deletions fails after others were done.
HalfRolledBack(c) ==
  /\ DirtyPosts
  /\ call[c].step = "posting"
  /\ call[c].kind = "rollback"
  /\ ~call[c].committed
  /\ dev = "ready"
  /\ overlay' \in {d \in SUBSET overlay : call[c].goal \subseteq d}
  /\ MarkDirty
  /\ Abort(c)
  /\ UNCHANGED <<slot, live, dev, served, history, trusted>>

\* runStop has stopped the dev process and runDev has spawned a new one.
Restart(c) ==
  /\ call[c].step = "stopping"
  /\ dev' = "starting"
  /\ Goto(c, "restarting")
  /\ UNCHANGED <<writer, guard, slot, live, served, overlay, history, trusted,
                 consent>>

\* runDev throws after the stop: dirtyFail("restart_failed").
RestartThrows(c) ==
  /\ call[c].step = "stopping"
  /\ dev' = StoppedDev
  /\ MarkDirty
  /\ Abort(c)
  /\ UNCHANGED <<slot, live, served, overlay, history, trusted>>

\* The definition fetched after the restart shows the change.
Verified(c) ==
  /\ call[c].step = "restarted"
  /\ dev = "ready"
  /\ Matches(c)
  /\ ClearGuard
  /\ trusted' = served
  /\ Abort(c)
  /\ UNCHANGED <<slot, live, dev, served, overlay, history>>

\* Mutant: a failed verification clears the guard like a failed POST does.
DirtyFailClears(c) ==
  /\ call[c].step \in {"exited", "restarted"}
  /\ ClearGuard
  /\ Abort(c)
  /\ UNCHANGED <<slot, live, dev, served, overlay, history, trusted>>

\* The dev process exited, the fetch failed or the diff does not match.
DirtyFail(c) ==
  /\ call[c].step \in {"exited", "restarted"}
  /\ MarkDirty
  /\ Abort(c)
  /\ UNCHANGED <<slot, live, dev, served, overlay, history, trusted>>

-----------------------------------------------------------------------------
(* definition.repair.reset_to_last_good                                    *)

\* Only a dirty guard is worth observing; its last-good summary is captured
\* before the fetch.
BeginRepair(c) ==
  /\ "repair" \in Kinds
  /\ c \in Repairers
  /\ call[c].step = "idle"
  /\ guard.status = "dirty"
  /\ HasServiceUrl
  /\ call' = [call EXCEPT ![c] =
       [IdleCall EXCEPT !.step = "observing", !.kind = "repair",
                        !.before = guard.lkg]]
  /\ UNCHANGED <<writer, guard, slot, live, dev, served, overlay, history,
                 trusted, consent>>

\* The summary observed equals the captured one: the guard is cleared,
\* whichever guard that is by now.
RepairClears(c) ==
  /\ call[c].step = "observing"
  /\ dev = "ready"
  /\ served = call[c].before
  /\ ClearGuard
  /\ trusted' = served
  /\ End(c)
  /\ UNCHANGED <<writer, slot, live, dev, served, overlay, history>>

\* The summaries differ or the fetch failed: manual repair is required.
RepairRefuses(c) ==
  /\ call[c].step = "observing"
  /\ MarkDirty
  /\ End(c)
  /\ UNCHANGED <<writer, slot, live, dev, served, overlay, history, trusted>>

-----------------------------------------------------------------------------
(* The environment: the dev process and the framework process              *)

\* lifecycle.dev.start is refused while the process runs.
DevStart ==
  /\ dev \in {"absent", "down"}
  /\ dev' = "starting"
  /\ UNCHANGED <<writer, guard, call, slot, live, served, overlay, history,
                 trusted, consent>>

\* bootAppRuntime loads the overlay, then the script prints service-ready.
DevReady ==
  /\ dev = "starting"
  /\ dev' = "ready"
  /\ served' = overlay
  /\ call' = AfterDevReady
  /\ UNCHANGED <<writer, guard, slot, live, overlay, history, trusted,
                 consent>>

\* The process crashes or lifecycle.dev.stop stops it.
DevStops ==
  /\ dev \in {"starting", "ready"}
  /\ dev' = StoppedDev
  /\ call' = AfterDevGone
  /\ UNCHANGED <<writer, guard, slot, live, served, overlay, history, trusted,
                 consent>>

\* Mutant: the guard lives in memory only.
LoadedGuardForgets == {NoGuard}

\* The framework process dies and a new orchestrator loads the guard file: a
\* running guard comes back dirty, a torn file dirty with no summary.
LoadedGuard ==
  IF guard.status = "none" THEN {NoGuard}
  ELSE {[status |-> "dirty", lkg |-> guard.lkg],
        [status |-> "dirty", lkg |-> NoSummary]}

FrameworkRestarts ==
  /\ writer' = "none"
  /\ guard' \in LoadedGuard
  /\ call' = [c \in Calls |-> IdleCall]
  /\ slot' = [s \in Slots |-> NoCall]
  /\ live' = {}
  /\ dev' = "absent"
  /\ consent' = {}
  /\ UNCHANGED <<served, overlay, history, trusted>>

-----------------------------------------------------------------------------

CallStep(c) ==
  \/ FetchBefore(c) \/ Validate(c) \/ PreparationFails(c)
  \/ Ask(c) \/ AskFails(c)
  \/ Denied(c) \/ AuthorizationRefused(c) \/ PrepareDone(c)
  \/ StartMutation(c) \/ Reply(c) \/ PostFails(c) \/ HalfRolledBack(c)
  \/ Restart(c) \/ RestartThrows(c) \/ Verified(c) \/ DirtyFail(c)
  \/ RepairClears(c) \/ RepairRefuses(c)

Next ==
  \/ \E c \in Calls :
       \/ BeginMutation(c) \/ BeginPrepare(c) \/ BeginRepair(c)
       \/ CallStep(c) \/ Commit(c)
       \/ \E decision \in {"allow", "deny"} : Answer(c, decision)
  \/ DevStart \/ DevReady \/ DevStops
  \/ FrameworkRestarts

Spec == Init /\ [][Next]_vars

\* A call whose await has resolved runs on; the runtime answers a POST; a
\* spawned dev process gets ready or exits; the builder answers the prompt
\* that is outstanding.  Nothing is assumed of new calls, of crashes, or of
\* lifecycle.dev.start and stop.
Fairness ==
  /\ \A c \in Calls : WF_vars(CallStep(c))
  /\ \A c \in Calls : WF_vars(\E d \in {"allow", "deny"} : Answer(c, d))
  /\ WF_vars(DevReady \/ DevStops)

FairSpec == Spec /\ Fairness

-----------------------------------------------------------------------------
(* Properties                                                              *)

HoldsWriter(c) ==
  Mutating(c) /\ call[c].step # "idle"

\* The steps during which the definition stored may differ from the one last
\* declared clean.
InMutation(c) ==
  /\ Mutating(c)
  /\ call[c].step \in {"posting", "dropped", "stopping", "restarting",
                        "restarted", "exited"}

\* One definition mutation at a time, and the writer slot is taken exactly
\* while a mutation is in progress: no early return, denial, error or crash
\* of a call leaves it taken, which would block every later mutation.
WriterHeldByOneCall ==
  /\ \A c, d \in Calls : HoldsWriter(c) /\ HoldsWriter(d) => c = d
  /\ \A c \in Calls : HoldsWriter(c) => writer = call[c].kind
  /\ writer # "none" => \E c \in Calls : HoldsWriter(c)

\* From the POST to the verification the durable guard is there and running,
\* so that a crash at any point of the mutation is found at the next start.
GuardCoversMutation ==
  \A c \in Calls : InMutation(c) => guard.status = "running"

\* Without a guard, what the runtime has stored is the definition last
\* verified: no failed, lost or interrupted mutation goes unnoticed.
CleanMeansTrusted == guard.status = "none" => overlay = trusted

\* A gated mutation is under way only if the builder allowed its own prompt,
\* however many prompts have shared the approval slot.
MutationHasConsent ==
  \A c \in Calls : InMutation(c) /\ call[c].gated => c \in consent

\* Every live prompt can still be answered: it is the outstanding one of its
\* approval slot.
LivePromptsAnswerable == \A c \in live : slot[SlotOf(c)] = c

\* A dirty guard blocks: the stored definition does not change under it.
DirtyBlocks == [][guard.status = "dirty" => overlay' = overlay]_vars

Standing == CASE guard.status = "none" -> "clean"
              [] guard.status = "running" -> "mutating"
              [] OTHER -> "dirty"

Governed == INSTANCE GovernedDefinition WITH
  standing <- Standing, stored <- overlay, clean <- trusted

\* The calls, prompts, restarts and crashes implement the abstract mutation:
\* the guard moves from clean to mutating and on to clean or dirty, and only
\* in between does the stored definition change.
ImplementsGoverned == Governed!Spec

\* A mutation that took the writer releases it.
WriterReleased == writer # "none" ~> writer = "none"
=============================================================================
