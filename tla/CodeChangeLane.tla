--------------------------- MODULE CodeChangeLane ---------------------------
(***************************************************************************)
(* The Code Change Lane (packages/core/src/code-change-lane.ts): a draft   *)
(* workspace becomes a proposal with evidence, the Builder decides, and an *)
(* approved proposal is copied into the source, validated, and rolled back *)
(* when the validation fails; decisions and receipts are turns of a        *)
(* BuildThread (packages/core/src/build-thread.ts).                        *)
(*                                                                         *)
(* Each guardrail is awaited, so that concurrent calls, the agent in its   *)
(* draft and the Host interleave between any two of them; what the Host    *)
(* does without an await is one step, also for the agent, which being a    *)
(* process of its own might write a draft in the middle of it.  A file's   *)
(* text is an abstract content; "no such file" is one of the contents.     *)
(* The thread is kept as what its completed receipts say of each file.     *)
(***************************************************************************)
EXTENDS Integers, Sequences

CONSTANTS
  Calls,       \* slots for concurrent calls of prepare, apply and reject
  Drafts,      \* draft workspaces, one proposal each
  Paths,       \* the files of source and drafts
  Contents,    \* what a file may hold
  Blank,       \* the source tree at the start
  Writable,    \* files under artifact_boundary.writable_roots
  Protected,   \* files under artifact_boundary.protected_paths
  Guardrails,  \* the manifest's checks, a sequence for every phase
  Edits,       \* the files the agent of a draft may edit
  Trouble,     \* what goes wrong, a subset of AllTrouble
  NotTaken,    \* a file that is not in a snapshot
  NoProposal   \* a draft without a prepared proposal

Phases == {"pre_proposal", "pre_apply", "post_apply"}
Checks == {"command", "diff-computable", "protected-paths-unchanged",
           "base-snapshot-unchanged"}

\* overlap: the Host applies proposals that share a file at the same time;
\* close: it closes the thread during an apply; crash: it dies between copy
\* and receipt; throw: a check throws after the copy; io: the copy throws.
AllTrouble == {"overlap", "close", "crash", "throw", "io"}

Tree == [Paths -> Contents]
Snapshot == [Paths -> Contents \cup {NotTaken}]

ASSUME DraftsAssumption == Drafts # {}
ASSUME BlankAssumption == Blank \in Tree
ASSUME BoundaryAssumption == Writable \subseteq Paths /\ Protected \subseteq Paths
ASSUME GuardrailsAssumption == Guardrails \in [Phases -> Seq(Checks)]
ASSUME EditsAssumption == Edits \in [Drafts -> SUBSET Paths]
ASSUME TroubleAssumption == Trouble \subseteq AllTrouble
ASSUME NotTakenAssumption == NotTaken \notin Contents

VARIABLES
  source,     \* the source tree
  draft,      \* the draft workspaces
  proposal,   \* the proposals prepared and shown to the Builder
  call,       \* the calls
  open,       \* the BuildThread is open
  recorded    \* what the thread's completed receipts say the source holds

vars == <<source, draft, proposal, call, open, recorded>>

Proposal == [files : SUBSET Paths, base : Snapshot, reviewed : Snapshot]

Step == {"idle", "rejected", "decided"} \cup Phases

Nothing == [f \in Paths |-> NotTaken]

IdleCall ==
  [step |-> "idle", draft |-> CHOOSE d \in Drafts : TRUE,
   proposal |-> [files |-> {}, base |-> Nothing, reviewed |-> Nothing],
   diff |-> {}, base |-> Nothing, backup |-> Nothing, check |-> 1,
   failed |-> FALSE]

Call == [step : Step, draft : Drafts, proposal : Proposal,
         diff : SUBSET Paths, base : Snapshot, backup : Snapshot,
         check : Nat \ {0}, failed : BOOLEAN]

TypeOK ==
  /\ source \in Tree
  /\ draft \in [Drafts -> Tree]
  /\ proposal \in [Drafts -> Proposal \cup {NoProposal}]
  /\ call \in [Calls -> Call]
  /\ open \in BOOLEAN
  /\ recorded \in Tree

Init ==
  /\ source = Blank
  /\ draft = [d \in Drafts |-> Blank]
  /\ proposal = [d \in Drafts |-> NoProposal]
  /\ call = [c \in Calls |-> IdleCall]
  /\ open = TRUE
  /\ recorded = Blank

-----------------------------------------------------------------------------
(* Trees and snapshots                                                     *)

\* snapshotFiles, backupFiles: the contents of some files of a tree.
Take(tree, F) == [f \in Paths |-> IF f \in F THEN tree[f] ELSE NotTaken]

\* applyChangedFiles, restoreBackup: some files get the contents of another.
Overwrite(tree, F, new) == [f \in Paths |-> IF f \in F THEN new[f] ELSE tree[f]]

\* computeDiffState: the files that differ.
Changed(s, t) == {f \in Paths : s[f] # t[f]}

-----------------------------------------------------------------------------
(* The guardrails of a phase, one await each                               *)

Files(c) == call[c].proposal.files

Checking(c) ==
  /\ call[c].step \in Phases
  /\ call[c].check <= Len(Guardrails[call[c].step])

CurrentCheck(c) == Guardrails[call[c].step][call[c].check]

Checked(c, phase) ==
  /\ call[c].step = phase
  /\ call[c].check > Len(Guardrails[phase])

\* Commands and delegated checks answer what they like; the built-in checks
\* look at the diff of the phase's start or at the source as it is now.
Verdicts(c) ==
  CASE CurrentCheck(c) = "command" -> BOOLEAN
    [] CurrentCheck(c) = "diff-computable" -> {call[c].diff # {}}
    [] CurrentCheck(c) = "protected-paths-unchanged" ->
         {call[c].diff \cap Protected = {}}
    [] CurrentCheck(c) = "base-snapshot-unchanged" ->
         {Take(source, Files(c)) = call[c].base}

RunCheck(c) ==
  /\ Checking(c)
  /\ \E ok \in Verdicts(c) :
       call' = [call EXCEPT ![c].check = @ + 1,
                            ![c].failed = @ \/ ~ok]
  /\ UNCHANGED <<source, draft, proposal, open, recorded>>

End(c) == call' = [call EXCEPT ![c] = IdleCall]

\* The command runner or the Host's check runner throws, and the call with it.
CheckThrows(c) ==
  /\ Checking(c)
  /\ CurrentCheck(c) = "command"
  /\ call[c].step = "post_apply" => "throw" \in Trouble
  /\ End(c)
  /\ UNCHANGED <<source, draft, proposal, open, recorded>>

-----------------------------------------------------------------------------
(* prepareCodeChangeProposal                                               *)

\* Diff and snapshots are taken before the first guardrail runs.
BeginPrepare(c, d) ==
  /\ call[c].step = "idle"
  /\ LET F == Changed(source, draft[d])
         p == [files |-> F, base |-> Take(source, F),
               reviewed |-> Take(draft[d], F)]
     IN call' = [call EXCEPT ![c] =
          [IdleCall EXCEPT !.step = "pre_proposal", !.draft = d,
                           !.proposal = p, !.diff = F, !.base = p.base]]
  /\ UNCHANGED <<source, draft, proposal, open, recorded>>

\* The agent_proposal turn is recorded and the proposal returned.
Prepared(c) ==
  /\ Checked(c, "pre_proposal")
  /\ ~call[c].failed
  /\ open
  /\ proposal' = [proposal EXCEPT ![call[c].draft] = call[c].proposal]
  /\ End(c)
  /\ UNCHANGED <<source, draft, open, recorded>>

\* A check failed, or the thread is closed and appendTurn throws.
NotPrepared(c) ==
  /\ Checked(c, "pre_proposal")
  /\ call[c].failed \/ ~open
  /\ End(c)
  /\ UNCHANGED <<source, draft, proposal, open, recorded>>

-----------------------------------------------------------------------------
(* applyCodeChangeProposal and rejectCodeChangeProposal                    *)

Applying(c) == call[c].step \in {"decided", "pre_apply", "post_apply"}

\* A Host that serialises: no apply of a proposal that shares a file.
HostMayApply(d) ==
  \/ "overlap" \in Trouble
  \/ \A c \in Calls : Applying(c) => Files(c) \cap proposal[d].files = {}

\* The user_decision turn comes first: with a closed thread the call throws.
Decide(c, d, decision) ==
  /\ call[c].step = "idle"
  /\ proposal[d] # NoProposal
  /\ open
  /\ decision = "decided" => HostMayApply(d)
  /\ call' = [call EXCEPT ![c] =
       [IdleCall EXCEPT !.step = decision, !.draft = d,
                        !.proposal = proposal[d]]]
  /\ UNCHANGED <<source, draft, proposal, open, recorded>>

\* The receipt is "rejected"; nothing is done to the source.
Rejected(c) ==
  /\ call[c].step = "rejected"
  /\ End(c)
  /\ UNCHANGED <<source, draft, proposal, open, recorded>>

\* Mutant: the base is the source as it is now, not the one in evidence.
BeginPreApplyRebased(c) ==
  /\ call[c].step = "decided"
  /\ call' = [call EXCEPT
       ![c].step = "pre_apply",
       ![c].diff = Changed(source, draft[call[c].draft]),
       ![c].base = Take(source, Files(c))]
  /\ UNCHANGED <<source, draft, proposal, open, recorded>>

BeginPreApply(c) ==
  /\ call[c].step = "decided"
  /\ call' = [call EXCEPT
       ![c].step = "pre_apply",
       ![c].diff = Changed(source, draft[call[c].draft]),
       ![c].base = call[c].proposal.base]
  /\ UNCHANGED <<source, draft, proposal, open, recorded>>

\* Mutant: the draft is not compared with the one reviewed.
MayApplyAnyDraft(c) == ~call[c].failed /\ Files(c) \subseteq Writable

\* Mutant: the writable roots are not enforced.
MayApplyAnywhere(c) ==
  /\ ~call[c].failed
  /\ Take(draft[call[c].draft], Files(c)) = call[c].proposal.reviewed

\* The guardrails, checkWritableFiles and checkDraftSnapshotUnchanged.
MayApply(c) ==
  /\ ~call[c].failed
  /\ Files(c) \subseteq Writable
  /\ Take(draft[call[c].draft], Files(c)) = call[c].proposal.reviewed

\* The receipt is "failed_framework".
ApplyRefused(c) ==
  /\ Checked(c, "pre_apply")
  /\ ~MayApply(c)
  /\ End(c)
  /\ UNCHANGED <<source, draft, proposal, open, recorded>>

\* Mutant: the backup is taken after the copy.
ApplyBackupLate(c) ==
  /\ Checked(c, "pre_apply")
  /\ MayApply(c)
  /\ source' = Overwrite(source, Files(c), draft[call[c].draft])
  /\ call' = [call EXCEPT
       ![c].step = "post_apply",
       ![c].backup = Take(source', Files(c)),
       ![c].base = Take(source', Files(c)),
       ![c].diff = Changed(source', draft[call[c].draft]),
       ![c].check = 1]
  /\ UNCHANGED <<draft, proposal, open, recorded>>

\* Backup, copy and the post-apply diff, without an await after the checks.
Apply(c) ==
  /\ Checked(c, "pre_apply")
  /\ MayApply(c)
  /\ source' = Overwrite(source, Files(c), draft[call[c].draft])
  /\ call' = [call EXCEPT
       ![c].step = "post_apply",
       ![c].backup = Take(source, Files(c)),
       ![c].base = Take(source', Files(c)),
       ![c].diff = Changed(source', draft[call[c].draft]),
       ![c].check = 1]
  /\ UNCHANGED <<draft, proposal, open, recorded>>

\* The copy throws halfway: nothing restores the files already copied.
CopyFails(c) ==
  /\ "io" \in Trouble
  /\ Checked(c, "pre_apply")
  /\ MayApply(c)
  /\ \E F \in SUBSET Files(c) :
       /\ F # Files(c)
       /\ source' = Overwrite(source, F, draft[call[c].draft])
  /\ End(c)
  /\ UNCHANGED <<draft, proposal, open, recorded>>

\* The receipt is "completed", unless the thread was closed: appendTurn then
\* throws.
Completed(c) ==
  /\ Checked(c, "post_apply")
  /\ ~call[c].failed
  /\ recorded' = IF open
                 THEN Overwrite(recorded, Files(c), call[c].proposal.reviewed)
                 ELSE recorded
  /\ End(c)
  /\ UNCHANGED <<source, draft, proposal, open>>

\* Mutant: the restore writes every file, those not backed up included.
RolledBackEverywhere(c) ==
  /\ Checked(c, "post_apply")
  /\ call[c].failed
  /\ source' = Overwrite(source, Paths, call[c].backup)
  /\ End(c)
  /\ UNCHANGED <<draft, proposal, open, recorded>>

\* restoreBackup; the receipt is "failed_validate_rolled_back".
RolledBack(c) ==
  /\ Checked(c, "post_apply")
  /\ call[c].failed
  /\ source' = Overwrite(source, Files(c), call[c].backup)
  /\ End(c)
  /\ UNCHANGED <<draft, proposal, open, recorded>>

-----------------------------------------------------------------------------
(* The agent, the Host and its threads                                     *)

\* The agent writes a file of its draft, whenever it likes.
EditDraft(d) ==
  /\ \E f \in Edits[d], v \in Contents : draft' = [draft EXCEPT ![d][f] = v]
  /\ UNCHANGED <<source, proposal, call, open, recorded>>

\* The Host copies the source into the draft again (copyTree).
CopyDraft(d) ==
  /\ draft' = [draft EXCEPT ![d] = source]
  /\ UNCHANGED <<source, proposal, call, open, recorded>>

CloseThread ==
  /\ open
  /\ "close" \in Trouble \/ \A c \in Calls : ~Applying(c)
  /\ open' = FALSE
  /\ UNCHANGED <<source, draft, proposal, call, recorded>>

\* A new thread for the same app.
StartThread ==
  /\ ~open
  /\ open' = TRUE
  /\ \A c \in Calls : ~Applying(c)
  /\ UNCHANGED <<source, draft, proposal, call, recorded>>

\* The Host process dies and with it its calls; evidence it kept is reused.
HostRestarts ==
  /\ "crash" \in Trouble \/ \A c \in Calls : call[c].step # "post_apply"
  /\ call' = [c \in Calls |-> IdleCall]
  /\ UNCHANGED <<source, draft, proposal, open, recorded>>

-----------------------------------------------------------------------------

CallStep(c) ==
  \/ RunCheck(c) \/ CheckThrows(c)
  \/ Prepared(c) \/ NotPrepared(c)
  \/ Rejected(c) \/ BeginPreApply(c) \/ ApplyRefused(c)
  \/ Apply(c) \/ CopyFails(c) \/ Completed(c) \/ RolledBack(c)

Next ==
  \/ \E c \in Calls :
       \/ CallStep(c)
       \/ \E d \in Drafts :
            \/ BeginPrepare(c, d)
            \/ \E decision \in {"decided", "rejected"} : Decide(c, d, decision)
  \/ \E d \in Drafts : EditDraft(d) \/ CopyDraft(d)
  \/ CloseThread \/ StartThread \/ HostRestarts

Spec == Init /\ [][Next]_vars

-----------------------------------------------------------------------------
(* Properties                                                              *)

Underway == UNION {Files(c) : c \in {d \in Calls : call[d].step = "post_apply"}}

Copies(c) == call[c].step = "pre_apply" /\ call'[c].step = "post_apply"

\* A file that no apply is working on holds what the last completed receipt
\* about it says: a failed validation, whatever ran beside it, leaves no
\* trace, and no completed change is lost or goes unrecorded.
ReceiptsExplainSource ==
  \A f \in Paths \ Underway : source[f] = recorded[f]

\* What is copied is what the Builder reviewed, although the agent can write
\* its draft while the checks are awaited.
AppliesWhatWasReviewed ==
  [][\A c \in Calls : Copies(c) =>
       \A f \in Files(c) : source'[f] = call[c].proposal.reviewed[f]]_vars

\* The source that is overwritten is the one the reviewed diff was made
\* against.
AppliesOnReviewedBase ==
  [][\A c \in Calls : Copies(c) =>
       \A f \in Files(c) : source[f] = call[c].proposal.base[f]]_vars

\* Files outside of the writable roots are never written, under any Trouble.
BoundaryKept == \A f \in Paths \ Writable : source[f] = Blank[f]

Governed == INSTANCE GovernedSource WITH underway <- Underway

\* Concurrent prepares, applies, edits and restarts implement changes made
\* one file set at a time, each kept with a receipt or undone.
ImplementsGovernedSource == Governed!Spec
=============================================================================
