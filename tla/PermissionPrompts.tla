------------------------- MODULE PermissionPrompts -------------------------
(***************************************************************************)
(* The framework's own permission prompts for change sets and deploys: how *)
(* a call asks, who is answered when prompts overlap, what an answer or    *)
(* the closing of the framework sets off, and what the permission ledger   *)
(* tells of it afterwards.                                                 *)
(*                                                                         *)
(* A change set asks before its first child and then applies its children  *)
(* one by one, each under the writer of definition mutations, which other  *)
(* mutations take in between.  In wait mode the tool call waits for the    *)
(* answer; in defer mode it has long returned, and the answer itself       *)
(* starts the execution.  A gated deploy waits for its own prompt, or for  *)
(* the confirm tool.  The prompts of definition.apply and of rollbacks are *)
(* in DefinitionMutation.  A prompt's id is the call it belongs to.        *)
(***************************************************************************)
EXTENDS Naturals, Sequences

CONSTANTS
  Calls,         \* tool calls, one prompt each
  Modes,         \* what they may be: subset of {"wait", "defer", "deploy"}
  Children,      \* the number of changes in a change set
  None,          \* no call
  Other          \* another definition mutation, which may hold the writer

ASSUME ConstantsAssumption ==
  /\ Modes \subseteq {"wait", "defer", "deploy"}
  /\ Children \in Nat \ {0}
  /\ None \notin Calls
  /\ Other \notin Calls \cup {None}

VARIABLES
  call,           \* where each call stands
  changeSetSlot,  \* outstandingDefinitionChangeSetPromptId and its resolver
  deployPrompt,   \* outstandingDeployPromptId
  deployResolver, \* deployConfirmResolver
  live,           \* liveFrameworkPrompts
  deferred,       \* deferredDefinitionChangeSets
  terminal,       \* permissionLedgerTerminalPromptIds
  writer,         \* who holds the writer of definition mutations
  ledger,         \* the events of each prompt, in the order they were appended
  answer,         \* the first answer the Builder gave to each prompt
  superseded,     \* the calls whose slot was taken by a later prompt
  lost            \* the calls of which the ledger has missed an event

vars == <<call, changeSetSlot, deployPrompt, deployResolver, live, deferred,
          terminal, writer, ledger, answer, superseded, lost>>

slots == <<changeSetSlot, deployPrompt, deployResolver>>
record == <<ledger, lost>>

(***************************************************************************)
(* step  "recording"  the request is being appended to the ledger          *)
(*       "waiting"    a prompt is shown and not answered                   *)
(*       "allowed"    the answer was yes: the execution is about to begin  *)
(*       "children"   between two changes of the set                       *)
(*       "applying"   inside a change, with the writer                     *)
(*       "deploying"  the deploy script runs                               *)
(*       "applied", "denied", "failed", "gone"  the call has ended         *)
(***************************************************************************)
Steps == {"idle", "recording", "waiting", "allowed", "children", "applying", "deploying",
          "applied", "denied", "failed", "gone"}
Call == [step : Steps, mode : {"wait", "defer", "deploy"}, done : 0 .. Children]

Events == {"requested", "allowed", "denied", "authorized", "completed", "failed", "expired"}

TypeOK ==
  /\ call \in [Calls -> Call]
  /\ changeSetSlot \in Calls \cup {None}
  /\ deployPrompt \in Calls \cup {None}
  /\ deployResolver \in Calls \cup {None}
  /\ live \subseteq Calls
  /\ deferred \subseteq Calls
  /\ terminal \subseteq Calls
  /\ writer \in Calls \cup {None, Other}
  /\ ledger \in [Calls -> Seq(Events)]
  /\ answer \in [Calls -> {"none", "allow", "deny"}]
  /\ superseded \subseteq Calls
  /\ lost \subseteq Calls

Ended == {"applied", "denied", "failed", "gone"}
At(c, s) == call[c].step = s
Goes(c, s) == call' = [call EXCEPT ![c].step = s]

(* appendBestEffortPermissionLedgerEvent: events may be lost unnoticed. *)
Kept(events) == {events, <<>>} \cup {<<events[i]>> : i \in DOMAIN events}
Records(c, events) ==
  \E kept \in Kept(events) :
    /\ ledger' = [ledger EXCEPT ![c] = @ \o kept]
    /\ lost' = IF kept = events THEN lost ELSE lost \cup {c}

(***************************************************************************)
(* recordPermissionExecutionTerminal: one terminal event for each prompt,  *)
(* and the prompt is live no more.                                         *)
(***************************************************************************)
RecordsTerminal(c, event) ==
  IF c \in terminal THEN UNCHANGED <<record, terminal, live>>
  ELSE /\ Records(c, <<event>>)
       /\ terminal' = terminal \cup {c}
       /\ live' = live \ {c}

-----------------------------------------------------------------------------
Init ==
  /\ call = [c \in Calls |-> [step |-> "idle", mode |-> "wait", done |-> 0]]
  /\ changeSetSlot = None
  /\ deployPrompt = None
  /\ deployResolver = None
  /\ live = {}
  /\ deferred = {}
  /\ terminal = {}
  /\ writer = None
  /\ ledger = [c \in Calls |-> <<>>]
  /\ answer = [c \in Calls |-> "none"]
  /\ superseded = {}
  /\ lost = {}

(***************************************************************************)
(* A change set has read the definition and been validated; the request is *)
(* recorded before anything is shown.  That append is not best-effort: if  *)
(* it fails, so does the call.                                             *)
(***************************************************************************)
Request(c, mode) ==
  /\ At(c, "idle")
  /\ mode \in Modes \ {"deploy"}
  /\ call' = [call EXCEPT ![c].step = "recording", ![c].mode = mode]
  /\ ledger' = [ledger EXCEPT ![c] = Append(@, "requested")]
  /\ UNCHANGED <<slots, live, deferred, terminal, writer, answer, superseded, lost>>

RequestFails(c) ==
  /\ At(c, "idle")
  /\ Goes(c, "failed")
  /\ UNCHANGED <<slots, live, deferred, terminal, writer, record, answer, superseded>>

(***************************************************************************)
(* The prompt takes the slot of change sets from whoever holds it, becomes *)
(* live and is pushed to the viewers; a deferred call returns at once.     *)
(***************************************************************************)
Prompt(c) ==
  /\ At(c, "recording")
  /\ Goes(c, "waiting")
  /\ changeSetSlot' = c
  /\ superseded' = superseded \cup ({changeSetSlot} \ {None})
  /\ live' = live \cup {c}
  /\ deferred' = IF call[c].mode = "defer" THEN deferred \cup {c} ELSE deferred
  /\ UNCHANGED <<deployPrompt, deployResolver, terminal, writer, record, answer>>

(* The push throws: nobody holds the slot, and the call fails. *)
PromptFails(c) ==
  /\ At(c, "recording")
  /\ Goes(c, "failed")
  /\ changeSetSlot' = None
  /\ superseded' = superseded \cup ({changeSetSlot} \ {None})
  /\ RecordsTerminal(c, "failed")
  /\ UNCHANGED <<deployPrompt, deployResolver, deferred, writer, answer>>

-----------------------------------------------------------------------------
(* The Builder says something about a prompt: the first word counts as his. *)
Says(c, decision) ==
  answer' = IF answer[c] = "none" THEN [answer EXCEPT ![c] = decision] ELSE answer

\* Mutant: a call that is denied is not released.
AnsweredNotDenied(decision) == IF decision = "deny" THEN "waiting" ELSE "allowed"

(* Where the answer takes the call that waits for it. *)
Answered(decision) == IF decision = "deny" THEN "denied" ELSE "allowed"

(***************************************************************************)
(* handleFrameworkPermissionResponse for the prompt that holds the slot:   *)
(* the slot is freed, the answer recorded and the waiting call released.   *)
(* A deferred change set that is denied is recorded as failed, too, and    *)
(* one that is allowed starts to execute.                                  *)
(***************************************************************************)
Respond(c, decision) ==
  /\ At(c, "waiting")
  /\ changeSetSlot = c
  /\ Says(c, decision)
  /\ changeSetSlot' = None
  /\ deferred' = deferred \ {c}
  /\ Goes(c, Answered(decision))
  /\ live' = live \ {c}
  /\ LET response == IF decision = "deny" THEN "denied" ELSE "allowed"
         refused  == c \in deferred /\ decision = "deny"
     IN  /\ Records(c, IF refused THEN <<response, "failed">> ELSE <<response>>)
         /\ terminal' = IF refused THEN terminal \cup {c} ELSE terminal
  /\ UNCHANGED <<deployPrompt, deployResolver, writer, superseded>>

(* A response to a prompt that holds no slot is not the framework's: it    *)
(* releases nobody and is recorded nowhere.                                *)
RespondTooLate(c, decision) ==
  /\ At(c, "waiting") \/ At(c, "denied")
  /\ c \notin {changeSetSlot, deployPrompt}
  /\ answer[c] = "none"
  /\ Says(c, decision)
  /\ UNCHANGED <<call, slots, live, deferred, terminal, writer, record, superseded>>

-----------------------------------------------------------------------------
(***************************************************************************)
(* runDeploy with a gate: it takes the resolver and the prompt id from a   *)
(* deploy that is still waiting.  Deploys are neither live prompts nor in  *)
(* the ledger.                                                             *)
(***************************************************************************)
TakesGate(c, step) ==
  /\ At(c, "idle")
  /\ "deploy" \in Modes
  /\ call' = [call EXCEPT ![c].step = step, ![c].mode = "deploy"]
  /\ deployResolver' = c
  /\ deployPrompt' = c
  /\ superseded' = superseded \cup ({deployResolver} \ {None})
  /\ UNCHANGED <<changeSetSlot, live, deferred, terminal, writer, record, answer>>

StartDeploy(c) == TakesGate(c, "waiting")

(* The push throws: the deploy fails, and its resolver and id stay behind. *)
StartDeployFails(c) == TakesGate(c, "failed")

(* resolveConfirm: the deploy that holds the resolver goes on, if there is *)
(* one and it is still there.                                              *)
ResolveConfirm(decision) ==
  /\ deployResolver' = None
  /\ call' = [c \in Calls |->
                IF c = deployResolver /\ At(c, "waiting")
                THEN [call[c] EXCEPT !.step = Answered(decision)]
                ELSE call[c]]

\* Mutant: any deploy's prompt releases the deploy that waits.
IsDeployPromptAnyone(c) == call[c].mode = "deploy" /\ deployPrompt # None

(* The answer is to the prompt that was pushed last. *)
IsDeployPrompt(c) == deployPrompt = c

RespondDeploy(c, decision) ==
  /\ IsDeployPrompt(c)
  /\ deployPrompt' = None
  /\ Says(c, decision)
  /\ ResolveConfirm(decision)
  /\ UNCHANGED <<changeSetSlot, live, deferred, terminal, writer, record, superseded>>

(* The lifecycle.confirm tool: it leaves the prompt id behind. *)
Confirm(decision) ==
  /\ deployResolver # None
  /\ Says(deployResolver, decision)
  /\ ResolveConfirm(decision)
  /\ UNCHANGED <<changeSetSlot, deployPrompt, live, deferred, terminal, writer, record, superseded>>

(* The deploy script is spawned, or cannot be, and ends. *)
SpawnDeploy(c) ==
  /\ At(c, "allowed")
  /\ call[c].mode = "deploy"
  /\ call' = [call EXCEPT ![c].step = "deploying", ![c].done = 1]
  /\ UNCHANGED <<slots, live, deferred, terminal, writer, record, answer, superseded>>

SpawnDeployFails(c) ==
  /\ At(c, "allowed")
  /\ call[c].mode = "deploy"
  /\ Goes(c, "failed")
  /\ UNCHANGED <<slots, live, deferred, terminal, writer, record, answer, superseded>>

DeployEnds(c) ==
  /\ At(c, "deploying")
  /\ \E end \in {"applied", "failed"} : Goes(c, end)
  /\ UNCHANGED <<slots, live, deferred, terminal, writer, record, answer, superseded>>

-----------------------------------------------------------------------------
\* Mutant: a deferred set that is denied is executed all the same.
MayExecuteDenied(c) ==
  /\ call[c].mode # "deploy"
  /\ At(c, "allowed") \/ (At(c, "denied") /\ call[c].mode = "defer")

(* A change set is executed when its answer was yes. *)
MayExecute(c) ==
  /\ At(c, "allowed")
  /\ call[c].mode # "deploy"

(* A token is minted and spent at once, and the framework is authorized. *)
Authorize(c) ==
  /\ MayExecute(c)
  /\ Goes(c, "children")
  /\ Records(c, <<"authorized">>)
  /\ UNCHANGED <<slots, live, deferred, terminal, writer, answer, superseded>>

\* Mutant: one change more than the set has.
RemainingOneMore(c) == call[c].done <= Children

\* Mutant: one change less.
RemainingOneLess(c) == call[c].done + 1 < Children

Remaining(c) == call[c].done < Children

(* A change begins with the writer, or the set fails because it is taken. *)
BeginChild(c) ==
  /\ At(c, "children")
  /\ Remaining(c)
  /\ \/ /\ writer = None
        /\ writer' = c
        /\ Goes(c, "applying")
        /\ UNCHANGED <<record, terminal, live>>
     \/ /\ writer # None
        /\ Goes(c, "failed")
        /\ RecordsTerminal(c, "failed")
        /\ UNCHANGED writer
  /\ UNCHANGED <<slots, deferred, answer, superseded>>

ChildApplied(c) ==
  /\ At(c, "applying")
  /\ call' = [call EXCEPT ![c].step = "children", ![c].done = @ + 1]
  /\ writer' = None
  /\ UNCHANGED <<slots, live, deferred, terminal, record, answer, superseded>>

(* A change that fails gives the writer up, or leaves the guard behind it. *)
ChildFails(c) ==
  /\ At(c, "applying")
  /\ Goes(c, "failed")
  /\ writer' \in {None, Other}
  /\ RecordsTerminal(c, "failed")
  /\ UNCHANGED <<slots, deferred, answer, superseded>>

Completes(c) ==
  /\ At(c, "children")
  /\ ~Remaining(c)
  /\ Goes(c, "applied")
  /\ RecordsTerminal(c, "completed")
  /\ UNCHANGED <<slots, deferred, writer, answer, superseded>>

(* The last read of the definition fails: only a deferred set records it. *)
FinalReadFails(c) ==
  /\ At(c, "children")
  /\ ~Remaining(c)
  /\ Goes(c, "failed")
  /\ IF call[c].mode = "defer" THEN RecordsTerminal(c, "failed")
     ELSE UNCHANGED <<record, terminal, live>>
  /\ UNCHANGED <<slots, deferred, writer, answer, superseded>>

(***************************************************************************)
(* Another mutation of the definition, between two children or before      *)
(* them; as the guard that a failed change leaves it ends with the repair. *)
(***************************************************************************)
OtherMutation ==
  /\ \/ writer = None /\ writer' = Other
     \/ writer = Other /\ writer' = None
  /\ UNCHANGED <<call, slots, live, deferred, terminal, record, answer, superseded>>

-----------------------------------------------------------------------------
\* Mutant: a prompt that expires keeps its slot.
RefusedNone == {}

(* The prompt that holds the slot is refused as it expires. *)
Refused == live \cap {changeSetSlot}

(***************************************************************************)
(* close(): every live prompt expires; the one that holds the slot is      *)
(* denied and forgotten, one that has lost it stays as it is.  Gated       *)
(* deploys are not live prompts and stay as they are.                      *)
(***************************************************************************)
Close ==
  /\ live # {}
  /\ \E missed \in SUBSET (live \ terminal) :
       /\ ledger' = [c \in Calls |-> IF c \in live \ (terminal \cup missed)
                                     THEN Append(ledger[c], "expired") ELSE ledger[c]]
       /\ lost' = lost \cup missed
  /\ terminal' = terminal \cup live
  /\ live' = {}
  /\ changeSetSlot' = IF changeSetSlot \in Refused THEN None ELSE changeSetSlot
  /\ deferred' = deferred \ Refused
  /\ call' = [c \in Calls |-> IF c \in Refused
                              THEN [call[c] EXCEPT !.step = "denied"] ELSE call[c]]
  /\ UNCHANGED <<deployPrompt, deployResolver, writer, answer, superseded>>

(* The framework dies: the ledger is what is left. *)
Crash ==
  /\ call' = [c \in Calls |->
                IF At(c, "idle") \/ call[c].step \in Ended THEN call[c]
                ELSE [call[c] EXCEPT !.step = "gone"]]
  /\ changeSetSlot' = None
  /\ deployPrompt' = None
  /\ deployResolver' = None
  /\ live' = {}
  /\ deferred' = {}
  /\ terminal' = {}
  /\ writer' = None
  /\ UNCHANGED <<record, answer, superseded>>

Answers(c) == \E d \in {"allow", "deny"} : Respond(c, d) \/ RespondDeploy(c, d)

CallStep(c) ==
  \/ Prompt(c)
  \/ PromptFails(c)
  \/ Authorize(c)
  \/ BeginChild(c)
  \/ ChildApplied(c)
  \/ ChildFails(c)
  \/ Completes(c)
  \/ FinalReadFails(c)
  \/ SpawnDeploy(c)
  \/ SpawnDeployFails(c)
  \/ DeployEnds(c)

Begins(c) ==
  \/ \E mode \in Modes : Request(c, mode)
  \/ RequestFails(c)
  \/ StartDeploy(c)
  \/ StartDeployFails(c)

Next ==
  \/ \E c \in Calls : \/ Begins(c)
                      \/ CallStep(c)
                      \/ Answers(c)
                      \/ \E d \in {"allow", "deny"} : RespondTooLate(c, d)
  \/ \E d \in {"allow", "deny"} : Confirm(d)
  \/ OtherMutation
  \/ Close
  \/ Crash

Spec == Init /\ [][Next]_vars

(* Calls go on, the Builder answers what he can, and no one else is needed. *)
FairSpec ==
  /\ Spec
  /\ \A c \in Calls : WF_vars(CallStep(c)) /\ WF_vars(Answers(c))
-----------------------------------------------------------------------------
(***************************************************************************)
(* deriveOne: what the Permission Center says of a call.  The first event  *)
(* that ends it counts, else the last thing said about it.                 *)
(***************************************************************************)
Final == {"denied", "completed", "failed", "expired"}
Settling(c) == {i \in DOMAIN ledger[c] : ledger[c][i] \in Final \ {"denied"}}
Said(c) == {i \in DOMAIN ledger[c] : ledger[c][i] # "requested"}
First(S) == CHOOSE i \in S : \A j \in S : i <= j
Last(S) == CHOOSE i \in S : \A j \in S : j <= i

Status(c) ==
  IF ledger[c] = <<>> THEN "none"
  ELSE IF Settling(c) # {} THEN ledger[c][First(Settling(c))]
  ELSE IF Said(c) # {} THEN ledger[c][Last(Said(c))]
  ELSE "pending"

(***************************************************************************)
(* What the Permission Center tells is what happened, although events are  *)
(* lost and prompts expire under calls that are superseded: a set that is  *)
(* completed has all its changes, one that failed has not succeeded, one   *)
(* that is denied or expired has none, and the Builder said yes to every   *)
(* one that is said to be allowed.  Of a call whose events all arrived it  *)
(* also tells everything: nothing is changed by one that is pending, and   *)
(* one that succeeded is completed.                                        *)
(***************************************************************************)
StatusHonest ==
  \A c \in Calls :
    /\ Status(c) = "completed" => At(c, "applied") /\ call[c].done = Children
    /\ Status(c) = "failed" => ~At(c, "applied")
    /\ Status(c) \in {"denied", "expired"} => call[c].done = 0 /\ ~At(c, "applying")
    /\ Status(c) \in {"allowed", "authorized", "completed"} => answer[c] = "allow"
    /\ Status(c) = "denied" => answer[c] = "deny"
    /\ c \notin lost /\ call[c].mode # "deploy" =>
         /\ Status(c) = "pending" => call[c].done = 0
         /\ At(c, "applied") => Status(c) = "completed"

(***************************************************************************)
(* What the Permission Center calls over is over: its status is final, and *)
(* the call changes the definition no more.                                *)
(***************************************************************************)
FinalStatus ==
  [][\A c \in Calls : Status(c) \in Final =>
       Status(c)' = Status(c) /\ call'[c].done = call[c].done]_vars

(***************************************************************************)
(* Consent: a call has effects only while its Builder has granted it, and  *)
(* never after he refused, or after it was given up: by a prompt that took *)
(* its slot, by close(), by a failure or by a crash.                       *)
(***************************************************************************)
Stage == [c \in Calls |->
            CASE call[c].step \in {"idle", "recording"} -> "none"
              [] At(c, "waiting")                       -> "asked"
              [] At(c, "denied")                        -> "refused"
              [] call[c].step \in Ended \ {"denied"}    -> "ended"
              [] OTHER                                  -> "granted"]
Effects == [c \in Calls |-> call[c].done]
Granted == INSTANCE ApprovalGate WITH MaxEffects <- Children, stage <- Stage, effects <- Effects
Consent == Granted!Gate

(* No one but its own Builder grants a call: an execution has his yes. *)
OwnAnswer ==
  \A c \in Calls :
    call[c].step \in {"allowed", "children", "applying", "deploying", "applied"}
      => answer[c] = "allow"

(***************************************************************************)
(* Every call that asked ends, if the Builder answers what he is asked,    *)
(* unless a later prompt took its slot: then no answer reaches it.         *)
(***************************************************************************)
EveryoneSettles ==
  \A c \in Calls : At(c, "waiting") ~> call[c].step \in Ended \/ c \in superseded
=============================================================================
