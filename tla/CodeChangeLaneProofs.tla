------------------------ MODULE CodeChangeLaneProofs ------------------------
(***************************************************************************)
(* Theorems of CodeChangeLane, for any set of calls, drafts, files and     *)
(* guardrails: what holds under any Trouble, and what holds of a Host that *)
(* serialises the applies of a file.  As in the module, nobody writes a    *)
(* draft or the source between two calls of the Host without an await.     *)
(***************************************************************************)
EXTENDS CodeChangeLane, TLAPS

USE DraftsAssumption, BlankAssumption, BoundaryAssumption,
    GuardrailsAssumption, EditsAssumption, TroubleAssumption,
    NotTakenAssumption

-----------------------------------------------------------------------------
(* Lemmas: trees, snapshots and what a step does to the calls.             *)

LEMMA TakeType ==
  ASSUME NEW t \in Tree, NEW F \in SUBSET Paths
  PROVE  Take(t, F) \in Snapshot
  BY DEF Take, Tree, Snapshot

LEMMA OverwriteType ==
  ASSUME NEW t \in Tree, NEW F \in SUBSET Paths, NEW n,
         \A f \in F : n[f] \in Contents
  PROVE  Overwrite(t, F, n) \in Tree
  BY DEF Overwrite, Tree

LEMMA NothingType == Nothing \in Snapshot
  BY DEF Nothing, Snapshot

LEMMA IdleCallType ==
  /\ IdleCall \in Call
  /\ IdleCall.step = "idle"
  /\ IdleCall.check = 1
  BY NothingType DEF IdleCall, Call, Step, Phases, Proposal

\* A call that ends leaves the others alone.
LEMMA EndEffect ==
  ASSUME TypeOK, NEW c \in Calls, End(c)
  PROVE  /\ call' \in [Calls -> Call]
         /\ call'[c].step = "idle"
         /\ \A e \in Calls : e # c => call'[e] = call[e]
  BY IdleCallType DEF End, TypeOK

\* A guardrail changes the position and the verdict of its call only.
LEMMA RunCheckEffect ==
  ASSUME TypeOK, NEW c \in Calls, RunCheck(c)
  PROVE  /\ call' \in [Calls -> Call]
         /\ call'[c].step = call[c].step
         /\ call'[c].proposal = call[c].proposal
         /\ call'[c].base = call[c].base
         /\ call'[c].backup = call[c].backup
         /\ call'[c].check = call[c].check + 1
         /\ ~call'[c].failed => ~call[c].failed /\ TRUE \in Verdicts(c)
         /\ \A e \in Calls : e # c => call'[e] = call[e]
<1>1. call[c] \in Call
  BY DEF TypeOK
<1>2. PICK ok \in Verdicts(c) :
        /\ ok \in BOOLEAN
        /\ call' = [call EXCEPT ![c] = [call[c] EXCEPT
                   !.check = call[c].check + 1,
                   !.failed = call[c].failed \/ ~ok]]
  <2>1. Verdicts(c) \subseteq BOOLEAN
    <3>1. CurrentCheck(c) \in Checks
      <4>1. call[c].step \in Phases /\ call[c].check \in Nat \ {0}
        BY <1>1 DEF RunCheck, Checking, Call
      <4>2. Guardrails[call[c].step] \in Seq(Checks)
        BY <4>1
      <4>3. call[c].check \in 1 .. Len(Guardrails[call[c].step])
        BY <4>1, <4>2 DEF RunCheck, Checking
      <4>4. QED
        BY <4>2, <4>3 DEF CurrentCheck
    <3>2. QED
      BY <3>1, Zenon DEF Verdicts, Checks
  <2>2. QED
    BY <2>1 DEF RunCheck
<1> DEFINE n == call[c].check + 1
           b == call[c].failed \/ ~ok
           r == [call[c] EXCEPT !.check = n, !.failed = b]
<1>3. n \in Nat \ {0}
  BY <1>1 DEF Call
<1>4. b \in BOOLEAN
  BY Zenon
<1>5. /\ r \in Call
      /\ r.step = call[c].step
      /\ r.proposal = call[c].proposal
      /\ r.base = call[c].base
      /\ r.backup = call[c].backup
      /\ r.check = n
      /\ r.failed = b
  <2> HIDE DEF n, b
  <2>1. QED
    BY <1>1, <1>3, <1>4 DEF Call
<1>6. call' = [call EXCEPT ![c] = r]
  BY <1>2
<1>7. ~b => ~call[c].failed /\ TRUE \in Verdicts(c)
  <2>1. ~b => ~call[c].failed /\ ok
    BY Zenon
  <2>2. ok => ok = TRUE
    BY <1>2
  <2>3. QED
    BY <1>2, <2>1, <2>2
<1>8. QED
  <2> HIDE DEF r, b
  <2>1. QED
    BY <1>5, <1>6, <1>7 DEF TypeOK

\* A new call: the record given by the code, the others as they were.
LEMMA BeginPrepareEffect ==
  ASSUME TypeOK, NEW c \in Calls, NEW d \in Drafts, BeginPrepare(c, d)
  PROVE  /\ call' \in [Calls -> Call]
         /\ call'[c].step = "pre_proposal"
         /\ \A e \in Calls : e # c => call'[e] = call[e]
<1> DEFINE F == Changed(source, draft[d])
           p == [files |-> F, base |-> Take(source, F),
                 reviewed |-> Take(draft[d], F)]
           r == [IdleCall EXCEPT !.step = "pre_proposal", !.draft = d,
                                 !.proposal = p, !.diff = F, !.base = p.base]
<1>1. F \in SUBSET Paths
  BY DEF Changed
<1>2. p \in Proposal /\ p.base \in Snapshot
  BY <1>1, TakeType DEF Proposal, TypeOK
<1>3. r \in Call /\ r.step = "pre_proposal"
  <2> HIDE DEF F, p
  <2>1. QED
    BY <1>1, <1>2, IdleCallType DEF Call, Step, Phases
<1>4. call' = [call EXCEPT ![c] = r]
  BY DEF BeginPrepare
<1>5. QED
  <2> HIDE DEF r
  <2>1. QED
    BY <1>3, <1>4 DEF TypeOK

LEMMA DecideEffect ==
  ASSUME TypeOK, NEW c \in Calls, NEW d \in Drafts,
         NEW decision \in {"decided", "rejected"}, Decide(c, d, decision)
  PROVE  /\ call' \in [Calls -> Call]
         /\ call'[c].step = decision
         /\ call'[c].proposal = proposal[d]
         /\ call'[c].check = 1
         /\ \A e \in Calls : e # c => call'[e] = call[e]
<1> DEFINE r == [IdleCall EXCEPT !.step = decision, !.draft = d,
                                 !.proposal = proposal[d]]
<1>1. proposal[d] \in Proposal
  BY DEF Decide, TypeOK
<1>2. /\ r \in Call
      /\ r.step = decision
      /\ r.proposal = proposal[d]
      /\ r.check = 1
  BY <1>1, IdleCallType DEF Call, Step, Phases
<1>3. call' = [call EXCEPT ![c] = r]
  BY DEF Decide
<1>4. QED
  <2> HIDE DEF r
  <2>1. QED
    BY <1>2, <1>3 DEF TypeOK

LEMMA BeginPreApplyEffect ==
  ASSUME TypeOK, NEW c \in Calls, BeginPreApply(c)
  PROVE  /\ call' \in [Calls -> Call]
         /\ call'[c].step = "pre_apply"
         /\ call'[c].proposal = call[c].proposal
         /\ call'[c].base = call[c].proposal.base
         /\ call'[c].check = call[c].check
         /\ call'[c].failed = call[c].failed
         /\ \A e \in Calls : e # c => call'[e] = call[e]
<1> DEFINE D == Changed(source, draft[call[c].draft])
           r == [call[c] EXCEPT !.step = "pre_apply", !.diff = D,
                                !.base = call[c].proposal.base]
<1>1. call[c] \in Call /\ D \in SUBSET Paths
  BY DEF TypeOK, Changed
<1>2. /\ r \in Call
      /\ r.step = "pre_apply"
      /\ r.proposal = call[c].proposal
      /\ r.base = call[c].proposal.base
      /\ r.check = call[c].check
      /\ r.failed = call[c].failed
  <2> HIDE DEF D
  <2>1. QED
    BY <1>1 DEF Call, Proposal, Step, Phases
<1>3. call' = [call EXCEPT ![c] = r]
  BY DEF BeginPreApply
<1>4. QED
  <2> HIDE DEF r
  <2>1. QED
    BY <1>2, <1>3 DEF TypeOK

LEMMA MayApplyMeansReviewed ==
  ASSUME TypeOK, NEW c \in Calls, MayApply(c)
  PROVE  /\ Files(c) \in SUBSET Paths
         /\ Files(c) \subseteq Writable
         /\ \A f \in Files(c) :
              /\ draft[call[c].draft][f] = call[c].proposal.reviewed[f]
              /\ draft[call[c].draft][f] \in Contents
<1>1. Files(c) \in SUBSET Paths /\ call[c].draft \in Drafts
  BY DEF TypeOK, Files, Call, Proposal
<1>2. draft[call[c].draft] \in Tree
  BY <1>1 DEF TypeOK
<1>3. QED
  BY <1>1, <1>2 DEF MayApply, Take, Tree

LEMMA ApplyEffect ==
  ASSUME TypeOK, NEW c \in Calls, Apply(c)
  PROVE  /\ call' \in [Calls -> Call]
         /\ call'[c].step = "post_apply"
         /\ call'[c].proposal = call[c].proposal
         /\ call'[c].backup = Take(source, Files(c))
         /\ \A e \in Calls : e # c => call'[e] = call[e]
         /\ source' \in Tree
         /\ \A f \in Files(c) : source'[f] = call[c].proposal.reviewed[f]
         /\ \A f \in Paths \ Files(c) : source'[f] = source[f]
<1>1. source' \in Tree
  BY MayApplyMeansReviewed, OverwriteType DEF Apply, TypeOK
<1> DEFINE D == Changed(source', draft[call[c].draft])
           B == Take(source', Files(c))
           K == Take(source, Files(c))
           r == [call[c] EXCEPT !.step = "post_apply", !.backup = K,
                                !.base = B, !.diff = D, !.check = 1]
<1>2. /\ call[c] \in Call
      /\ D \in SUBSET Paths
      /\ B \in Snapshot
      /\ K \in Snapshot
  BY <1>1, TakeType, MayApplyMeansReviewed DEF TypeOK, Changed, Apply
<1>3. /\ r \in Call
      /\ r.step = "post_apply"
      /\ r.proposal = call[c].proposal
      /\ r.backup = K
  <2>1. "post_apply" \in Step /\ 1 \in Nat \ {0}
    BY DEF Step, Phases
  <2> HIDE DEF D, B, K
  <2>2. QED
    BY <1>2, <2>1 DEF Call
<1>4. call' = [call EXCEPT ![c] = r]
  BY DEF Apply
<1>5. /\ call' \in [Calls -> Call]
      /\ call'[c] = r
      /\ \A e \in Calls : e # c => call'[e] = call[e]
  <2> HIDE DEF r
  <2>1. QED
    BY <1>3, <1>4 DEF TypeOK
<1>6. \A f \in Files(c) : source'[f] = call[c].proposal.reviewed[f]
  BY MayApplyMeansReviewed DEF Apply, Overwrite
<1>7. \A f \in Paths \ Files(c) : source'[f] = source[f]
  BY DEF Apply, Overwrite
<1>8. QED
  <2> HIDE DEF r, K
  <2>1. K = Take(source, Files(c))
    BY DEF K
  <2>2. QED
    BY <1>1, <1>3, <1>5, <1>6, <1>7, <2>1

-----------------------------------------------------------------------------
(* Type correctness                                                        *)

\* During the validation of an apply, the files it changed lie in the
\* writable roots and their backup and their reviewed contents are there.
Backed ==
  \A c \in Calls : call[c].step = "post_apply" =>
    /\ Files(c) \subseteq Writable
    /\ \A f \in Files(c) : /\ call[c].backup[f] \in Contents
                           /\ call[c].proposal.reviewed[f] \in Contents

TypeInv == TypeOK /\ Backed

\* A step that takes no call to post_apply keeps the backups there.
LEMMA BackedKept ==
  ASSUME TypeInv, NEW c \in Calls,
         \A e \in Calls : e # c => call'[e] = call[e],
         \/ call'[c].step # "post_apply"
         \/ /\ call'[c].step = call[c].step
            /\ call'[c].proposal = call[c].proposal
            /\ call'[c].backup = call[c].backup
  PROVE  Backed'
  BY DEF TypeInv, Backed, Files

LEMMA EndKeepsBacked ==
  ASSUME TypeInv, NEW c \in Calls, End(c)
  PROVE  call' \in [Calls -> Call] /\ Backed'
  BY EndEffect, BackedKept DEF TypeInv

LEMMA TypeInit == Init => TypeInv
<1> SUFFICES ASSUME Init PROVE TypeInv
  OBVIOUS
<1>1. TypeOK
  BY IdleCallType DEF Init, TypeOK
<1>2. Backed
  BY IdleCallType DEF Init, Backed
<1>3. QED
  BY <1>1, <1>2 DEF TypeInv

LEMMA TypeNext == TypeInv /\ [Next]_vars => TypeInv'
<1> SUFFICES ASSUME TypeInv, [Next]_vars
             PROVE  TypeInv'
  OBVIOUS
<1> USE DEF TypeInv
<1>1. ASSUME NEW c \in Calls, RunCheck(c)
      PROVE  TypeInv'
  BY <1>1, RunCheckEffect, BackedKept DEF RunCheck, TypeOK
<1>2. ASSUME NEW c \in Calls, \/ CheckThrows(c) \/ NotPrepared(c)
                              \/ Rejected(c) \/ ApplyRefused(c)
      PROVE  TypeInv'
  BY <1>2, EndKeepsBacked
     DEF CheckThrows, NotPrepared, Rejected, ApplyRefused, TypeOK
<1>3. ASSUME NEW c \in Calls, Prepared(c)
      PROVE  TypeInv'
  <2>1. call[c].proposal \in Proposal
    BY DEF TypeOK, Call
  <2>2. proposal' \in [Drafts -> Proposal \cup {NoProposal}]
    BY <1>3, <2>1 DEF Prepared, TypeOK
  <2>3. QED
    BY <1>3, <2>2, EndKeepsBacked DEF Prepared, TypeOK
<1>4. ASSUME NEW c \in Calls, BeginPreApply(c)
      PROVE  TypeInv'
  BY <1>4, BeginPreApplyEffect, BackedKept DEF BeginPreApply, TypeOK
<1>5. ASSUME NEW c \in Calls, Apply(c)
      PROVE  TypeInv'
  <2>1. MayApply(c) /\ Files(c) \in SUBSET Paths /\ source \in Tree
    BY <1>5, MayApplyMeansReviewed DEF Apply, TypeOK
  <2>2. \A f \in Files(c) : /\ Take(source, Files(c))[f] \in Contents
                            /\ call[c].proposal.reviewed[f] \in Contents
    BY <2>1, MayApplyMeansReviewed DEF Take, Tree
  <2>3. Files(c)' = Files(c)
    BY <1>5, ApplyEffect DEF Files
  <2>4. Backed'
    BY <1>5, <2>1, <2>2, <2>3, ApplyEffect, MayApplyMeansReviewed
       DEF Backed, Files
  <2>5. QED
    BY <1>5, <2>4, ApplyEffect DEF Apply, TypeOK
<1>6. ASSUME NEW c \in Calls, CopyFails(c)
      PROVE  TypeInv'
  <2>1. source' \in Tree
    <3>1. PICK F \in SUBSET Files(c) :
            source' = Overwrite(source, F, draft[call[c].draft])
      BY <1>6 DEF CopyFails
    <3>2. QED
      BY <1>6, <3>1, MayApplyMeansReviewed, OverwriteType
         DEF CopyFails, TypeOK
  <2>2. QED
    BY <1>6, <2>1, EndKeepsBacked DEF CopyFails, TypeOK
<1>7. ASSUME NEW c \in Calls, Completed(c)
      PROVE  TypeInv'
  <2>1. Files(c) \in SUBSET Paths
    BY DEF TypeOK, Files, Call, Proposal
  <2>2. Overwrite(recorded, Files(c), call[c].proposal.reviewed) \in Tree
    BY <1>7, <2>1, OverwriteType DEF Completed, Checked, Backed, TypeOK
  <2>3. QED
    BY <1>7, <2>2, EndKeepsBacked DEF Completed, TypeOK
<1>8. ASSUME NEW c \in Calls, RolledBack(c)
      PROVE  TypeInv'
  <2>1. Files(c) \in SUBSET Paths
    BY DEF TypeOK, Files, Call, Proposal
  <2>2. source' \in Tree
    BY <1>8, <2>1, OverwriteType DEF RolledBack, Checked, Backed, TypeOK
  <2>3. QED
    BY <1>8, <2>2, EndKeepsBacked DEF RolledBack, TypeOK
<1>9. ASSUME NEW c \in Calls, NEW d \in Drafts, BeginPrepare(c, d)
      PROVE  TypeInv'
  BY <1>9, BeginPrepareEffect, BackedKept DEF BeginPrepare, TypeOK
<1>10. ASSUME NEW c \in Calls, NEW d \in Drafts,
              NEW decision \in {"decided", "rejected"}, Decide(c, d, decision)
       PROVE  TypeInv'
  BY <1>10, DecideEffect, BackedKept DEF Decide, TypeOK
<1>11. ASSUME NEW d \in Drafts, EditDraft(d)
       PROVE  TypeInv'
  <2>1. PICK f \in Edits[d], v \in Contents :
          draft' = [draft EXCEPT ![d] = [draft[d] EXCEPT ![f] = v]]
    BY <1>11 DEF EditDraft
  <2>2. [draft[d] EXCEPT ![f] = v] \in Tree
    BY DEF TypeOK, Tree
  <2>3. draft' \in [Drafts -> Tree]
    BY <2>1, <2>2 DEF TypeOK
  <2>4. QED
    BY <1>11, <2>3 DEF EditDraft, TypeOK, Backed, Files
<1>12. ASSUME NEW d \in Drafts, CopyDraft(d)
       PROVE  TypeInv'
  BY <1>12 DEF CopyDraft, TypeOK, Backed, Files
<1>13. CASE CloseThread \/ StartThread
  BY <1>13 DEF CloseThread, StartThread, TypeOK, Backed, Files
<1>14. CASE HostRestarts
  BY <1>14, IdleCallType DEF HostRestarts, TypeOK, Backed
<1>15. CASE UNCHANGED vars
  BY <1>15 DEF vars, TypeOK, Backed, Files
<1>16. ASSUME NEW c \in Calls, CallStep(c)
       PROVE  TypeInv'
  BY <1>16, <1>1, <1>2, <1>3, <1>4, <1>5, <1>6, <1>7, <1>8, Zenon
     DEF CallStep
<1>17. QED
  BY <1>9, <1>10, <1>11, <1>12, <1>13, <1>14, <1>15, <1>16, Zenon DEF Next

LEMMA TypeInvariant == Spec => []TypeInv
  BY TypeInit, TypeNext, PTL DEF Spec

\* Every variable keeps its type, under any Trouble.
THEOREM LaneTypeCorrect == Spec => []TypeOK
  BY TypeInvariant, PTL DEF TypeInv

-----------------------------------------------------------------------------
(* What is copied is what was reviewed, in the writable roots              *)

\* Only Apply takes a call from pre_apply to post_apply.
LEMMA CopiesByApply ==
  ASSUME TypeOK, [Next]_vars, NEW c \in Calls, Copies(c)
  PROVE  Apply(c)
<1> USE DEF Copies
<1>1. ASSUME NEW e \in Calls, RunCheck(e)
      PROVE  FALSE
  BY <1>1, RunCheckEffect
<1>2. ASSUME NEW e \in Calls, End(e)
      PROVE  FALSE
  BY <1>2, EndEffect
<1>3. ASSUME NEW e \in Calls, BeginPreApply(e)
      PROVE  FALSE
  BY <1>3, BeginPreApplyEffect
<1>4. ASSUME NEW e \in Calls, Apply(e)
      PROVE  Apply(c)
  BY <1>4, ApplyEffect
<1>5. ASSUME NEW e \in Calls, CallStep(e)
      PROVE  Apply(c)
  BY <1>1, <1>2, <1>3, <1>4, <1>5, Zenon
     DEF CallStep, CheckThrows, Prepared, NotPrepared, Rejected,
         ApplyRefused, CopyFails, Completed, RolledBack
<1>6. ASSUME NEW e \in Calls, NEW d \in Drafts, BeginPrepare(e, d)
      PROVE  FALSE
  BY <1>6, BeginPrepareEffect
<1>7. ASSUME NEW e \in Calls, NEW d \in Drafts,
             NEW decision \in {"decided", "rejected"}, Decide(e, d, decision)
      PROVE  FALSE
  BY <1>7, DecideEffect
<1>8. ASSUME HostRestarts
      PROVE  FALSE
  BY <1>8, IdleCallType DEF HostRestarts
<1>9. ASSUME UNCHANGED call
      PROVE  FALSE
  BY <1>9
<1>10. QED
  BY <1>5, <1>6, <1>7, <1>8, <1>9, Zenon
     DEF Next, EditDraft, CopyDraft, CloseThread, StartThread, vars

\* What an apply copies into the source is what the Builder reviewed, with
\* any overlap, crash, closed thread, throwing check or failing copy
\* (checkDraftSnapshotUnchanged right before applyChangedFiles).
THEOREM ReviewedApplied == Spec => AppliesWhatWasReviewed
<1>1. TypeInv /\ [Next]_vars =>
        [\A c \in Calls : Copies(c) =>
           \A f \in Files(c) : source'[f] = call[c].proposal.reviewed[f]]_vars
  BY CopiesByApply, ApplyEffect DEF TypeInv
<1>2. QED
  BY <1>1, TypeInvariant, PTL DEF Spec, AppliesWhatWasReviewed

LEMMA BoundaryInit == Init => BoundaryKept
  BY DEF Init, BoundaryKept

LEMMA BoundaryNext ==
  TypeInv /\ BoundaryKept /\ [Next]_vars => BoundaryKept'
<1> SUFFICES ASSUME TypeInv, BoundaryKept, [Next]_vars
             PROVE  BoundaryKept'
  OBVIOUS
<1> USE DEF BoundaryKept, TypeInv
<1>1. ASSUME UNCHANGED source
      PROVE  BoundaryKept'
  BY <1>1
<1>2. ASSUME NEW c \in Calls, Apply(c)
      PROVE  BoundaryKept'
  BY <1>2, ApplyEffect, MayApplyMeansReviewed, ZenonT(30) DEF Apply
<1>3. ASSUME NEW c \in Calls, CopyFails(c)
      PROVE  BoundaryKept'
  BY <1>3, MayApplyMeansReviewed DEF CopyFails, Overwrite
<1>4. ASSUME NEW c \in Calls, RolledBack(c)
      PROVE  BoundaryKept'
  BY <1>4 DEF RolledBack, Checked, Backed, Overwrite
<1>5. ASSUME NEW c \in Calls, CallStep(c)
      PROVE  BoundaryKept'
  BY <1>1, <1>2, <1>3, <1>4, <1>5, Zenon
     DEF CallStep, RunCheck, CheckThrows, Prepared, NotPrepared, Rejected,
         BeginPreApply, ApplyRefused, Completed
<1>6. QED
  BY <1>1, <1>5, Zenon
     DEF Next, BeginPrepare, Decide, EditDraft, CopyDraft, CloseThread,
         StartThread, HostRestarts, vars

\* Nothing outside of the writable roots is ever written, under any Trouble
\* (checkWritableFiles; the restore touches only what the copy touched).
THEOREM Boundary == Spec => []BoundaryKept
<1>1. Init => BoundaryKept
  BY BoundaryInit
<1>2. TypeInv /\ BoundaryKept /\ [Next]_vars => BoundaryKept'
  BY BoundaryNext
<1>3. QED
  BY <1>1, <1>2, TypeInvariant, PTL DEF Spec

-----------------------------------------------------------------------------
(* A Host that serialises: applies under way have no file in common        *)

Disjoint ==
  \A c, e \in Calls : c # e /\ Applying(c) /\ Applying(e) =>
    Files(c) \cap Files(e) = {}

\* A step of a call that starts no apply keeps the applies disjoint.
LEMMA DisjointKept ==
  ASSUME Disjoint, NEW c \in Calls,
         \A e \in Calls : e # c => call'[e] = call[e],
         \/ call'[c].step \notin {"decided", "pre_apply", "post_apply"}
         \/ Applying(c) /\ call'[c].proposal = call[c].proposal
  PROVE  Disjoint'
  BY DEF Disjoint, Applying, Files

LEMMA EndKeepsDisjoint ==
  ASSUME TypeOK, Disjoint, NEW c \in Calls, End(c)
  PROVE  Disjoint'
  BY EndEffect, DisjointKept

LEMMA DisjointInit == Init => Disjoint
  BY IdleCallType DEF Init, Disjoint, Applying

LEMMA DisjointNext ==
  ASSUME "overlap" \notin Trouble, TypeOK, Disjoint, [Next]_vars
  PROVE  Disjoint'
<1>1. ASSUME NEW c \in Calls, RunCheck(c)
      PROVE  Disjoint'
  <2>1. \/ call[c].step \notin {"decided", "pre_apply", "post_apply"}
        \/ Applying(c)
    BY DEF Applying
  <2>2. QED
    BY <1>1, <2>1, RunCheckEffect, DisjointKept
<1>2. ASSUME NEW c \in Calls, BeginPreApply(c)
      PROVE  Disjoint'
  BY <1>2, BeginPreApplyEffect, DisjointKept DEF BeginPreApply, Applying
<1>3. ASSUME NEW c \in Calls, Apply(c)
      PROVE  Disjoint'
  BY <1>3, ApplyEffect, DisjointKept DEF Apply, Checked, Applying
<1>4. ASSUME NEW c \in Calls, CallStep(c)
      PROVE  Disjoint'
  BY <1>1, <1>2, <1>3, <1>4, EndKeepsDisjoint, Zenon
     DEF CallStep, CheckThrows, Prepared, NotPrepared, Rejected,
         ApplyRefused, CopyFails, Completed, RolledBack
<1>5. ASSUME NEW c \in Calls, NEW d \in Drafts, BeginPrepare(c, d)
      PROVE  Disjoint'
  BY <1>5, BeginPrepareEffect, DisjointKept
<1>6. ASSUME NEW c \in Calls, NEW d \in Drafts,
             NEW decision \in {"decided", "rejected"}, Decide(c, d, decision)
      PROVE  Disjoint'
  <2>1. CASE decision = "rejected"
    BY <1>6, <2>1, DecideEffect, DisjointKept
  <2>2. CASE decision = "decided"
    <3>1. \A e \in Calls : Applying(e) => Files(e) \cap proposal[d].files = {}
      BY <1>6, <2>2 DEF Decide, HostMayApply
    <3>2. /\ call'[c].proposal = proposal[d]
          /\ \A e \in Calls : e # c => call'[e] = call[e]
      BY <1>6, DecideEffect
    <3>3. QED
      BY <3>1, <3>2 DEF Disjoint, Applying, Files
  <2>3. QED
    BY <2>1, <2>2
<1>7. CASE HostRestarts
  BY <1>7, IdleCallType DEF HostRestarts, Disjoint, Applying
<1>8. CASE UNCHANGED call
  BY <1>8 DEF Disjoint, Applying, Files
<1>9. QED
  BY <1>4, <1>5, <1>6, <1>7, <1>8, Zenon
     DEF Next, EditDraft, CopyDraft, CloseThread, StartThread, vars

-----------------------------------------------------------------------------
(* A Host that does nothing wrong: the receipts explain the source         *)

\* An apply under way keeps its thread, the source holds what it copied and
\* the backup what the receipts say.
Settled ==
  /\ \A c \in Calls : Applying(c) => open
  /\ \A c \in Calls : call[c].step = "post_apply" =>
       \A f \in Files(c) : /\ source[f] = call[c].proposal.reviewed[f]
                           /\ call[c].backup[f] = recorded[f]
  /\ ReceiptsExplainSource

\* ReceiptsExplainSource alone is not inductive: a restore needs the backup
\* to agree with the receipts, and for that no other apply may have touched
\* the files, nor a receipt be lost on a closed thread.
ReceiptInv == TypeInv /\ Disjoint /\ Settled

LEMMA InUnderway ==
  ASSUME NEW f
  PROVE  f \in Underway <=>
           \E c \in Calls : call[c].step = "post_apply" /\ f \in Files(c)
  BY DEF Underway

\* A step of c that neither enters nor leaves the validation.
LEMMA UnderwayKept ==
  ASSUME NEW c \in Calls,
         \A e \in Calls : e # c => call'[e] = call[e],
         \/ call'[c].step # "post_apply" /\ call[c].step # "post_apply"
         \/ /\ call'[c].step = "post_apply"
            /\ call[c].step = "post_apply"
            /\ call'[c].proposal = call[c].proposal
  PROVE  Underway' = Underway
  BY DEF Underway, Files

\* The files of an apply whose validation ends are no longer under way.
LEMMA UnderwayEnds ==
  ASSUME TypeOK, Disjoint, NEW c \in Calls, call[c].step = "post_apply",
         End(c)
  PROVE  Underway' = Underway \ Files(c) /\ Files(c) \subseteq Underway
<1>1. /\ call'[c].step # "post_apply"
      /\ \A e \in Calls : e # c => call'[e] = call[e]
  BY EndEffect
<1>2. \A e \in Calls : e # c /\ call[e].step = "post_apply" =>
        Files(c) \cap Files(e) = {}
  BY DEF Disjoint, Applying
<1>3. QED
  BY <1>1, <1>2 DEF Underway, Files

LEMMA UnderwayStarts ==
  ASSUME TypeOK, Disjoint, NEW c \in Calls, Apply(c)
  PROVE  Underway' = Underway \cup Files(c) /\ Files(c) \cap Underway = {}
<1>1. /\ call'[c].step = "post_apply"
      /\ call'[c].proposal = call[c].proposal
      /\ \A e \in Calls : e # c => call'[e] = call[e]
  BY ApplyEffect
<1>2. call[c].step = "pre_apply"
  BY DEF Apply, Checked
<1>3. \A e \in Calls : call[e].step = "post_apply" =>
        Files(c) \cap Files(e) = {}
  BY <1>2 DEF Disjoint, Applying
<1>4. Files(c) \cap Underway = {}
  BY <1>3, InUnderway
<1>5. \A f : f \in Underway' <=> f \in Underway \cup Files(c)
  <2>1. \A f : f \in Underway' <=>
          \E e \in Calls : call'[e].step = "post_apply"
                           /\ f \in call'[e].proposal.files
    BY DEF Underway, Files
  <2>2. \A f : f \in Underway <=>
          \E e \in Calls : call[e].step = "post_apply"
                           /\ f \in call[e].proposal.files
    BY DEF Underway, Files
  <2>3. QED
    BY <1>1, <1>2, <2>1, <2>2 DEF Files
<1>6. QED
  BY <1>4, <1>5

\* A step that leaves the source, the receipts and the thread alone.
LEMMA SettledKept ==
  ASSUME ReceiptInv, NEW c \in Calls,
         UNCHANGED <<source, recorded, open>>,
         \A e \in Calls : e # c => call'[e] = call[e],
         \/ /\ call'[c].step \notin {"decided", "pre_apply", "post_apply"}
            /\ call[c].step # "post_apply"
         \/ /\ call'[c].step \in {"decided", "pre_apply"} /\ open
            /\ call[c].step # "post_apply"
         \/ /\ call'[c].step = call[c].step
            /\ call'[c].proposal = call[c].proposal
            /\ call'[c].backup = call[c].backup
  PROVE  Settled'
<1>1. Underway' = Underway
  BY UnderwayKept
<1>2. ReceiptsExplainSource'
  BY <1>1 DEF ReceiptsExplainSource, ReceiptInv, Settled
<1>3. (\A e \in Calls : Applying(e) => open)'
  BY DEF Applying, ReceiptInv, Settled
<1>4. (\A e \in Calls : call[e].step = "post_apply" =>
         \A f \in Files(e) : /\ source[f] = call[e].proposal.reviewed[f]
                             /\ call[e].backup[f] = recorded[f])'
  BY DEF ReceiptInv, Settled, Files
<1>5. QED
  BY <1>2, <1>3, <1>4 DEF Settled

LEMMA EndKeepsSettled ==
  ASSUME ReceiptInv, NEW c \in Calls, End(c), call[c].step # "post_apply",
         UNCHANGED <<source, recorded, open>>
  PROVE  Settled'
  BY EndEffect, SettledKept DEF ReceiptInv, TypeInv

LEMMA ReceiptInit == Init => ReceiptInv
<1> SUFFICES ASSUME Init PROVE Settled
  BY TypeInit, DisjointInit DEF ReceiptInv
<1>1. \A c \in Calls : call[c].step = "idle"
  BY IdleCallType DEF Init
<1>2. QED
  BY <1>1 DEF Init, Settled, Applying, ReceiptsExplainSource

LEMMA ApplyKeepsSettled ==
  ASSUME ReceiptInv, NEW c \in Calls, Apply(c)
  PROVE  Settled'
<1> USE DEF ReceiptInv, TypeInv
<1>1. /\ Underway' = Underway \cup Files(c)
      /\ Files(c) \cap Underway = {}
  BY UnderwayStarts
<1>2. /\ Files(c) \in SUBSET Paths
      /\ Files(c) \cap Underway = {}
      /\ \A f \in Files(c) : source[f] = recorded[f]
  BY <1>1, MayApplyMeansReviewed
     DEF Apply, Settled, ReceiptsExplainSource
<1>3. UNCHANGED <<open, recorded>> /\ call[c].step = "pre_apply"
  BY DEF Apply, Checked
<1>4. ReceiptsExplainSource'
  BY <1>1, <1>2, <1>3, ApplyEffect DEF Settled, ReceiptsExplainSource
<1>5. (\A e \in Calls : Applying(e) => open)'
  BY <1>3, ApplyEffect DEF Settled, Applying
<1>6. ASSUME NEW e \in Calls, call'[e].step = "post_apply",
             NEW f \in Files(e)'
      PROVE  /\ source'[f] = call'[e].proposal.reviewed[f]
             /\ call'[e].backup[f] = recorded'[f]
  <2>1. CASE e = c
    <3>1. f \in Files(c) /\ f \in Paths
      BY <1>2, <1>6, <2>1, ApplyEffect DEF Files
    <3>2. call'[c].backup[f] = source[f]
      BY <3>1, ApplyEffect DEF Take
    <3>3. QED
      BY <1>2, <1>3, <2>1, <3>1, <3>2, ApplyEffect
  <2>2. CASE e # c
    <3>1. call'[e] = call[e]
      BY <2>2, ApplyEffect
    <3>2. call[e].step = "post_apply" /\ f \in Files(e)
      BY <1>6, <3>1 DEF Files
    <3>3. f \in Underway /\ f \in Paths
      BY <3>2, InUnderway DEF TypeOK, Files, Call, Proposal
    <3>4. source'[f] = source[f]
      BY <1>2, <3>3, ApplyEffect
    <3>5. QED
      BY <1>3, <3>1, <3>2, <3>4 DEF Settled
  <2>3. QED
    BY <2>1, <2>2
<1>7. QED
  BY <1>4, <1>5, <1>6 DEF Settled

\* What the end of a validation leaves of the files and of the others.
LEMMA ValidationEnds ==
  ASSUME ReceiptInv, NEW c \in Calls, Completed(c) \/ RolledBack(c)
  PROVE  /\ call[c].step = "post_apply"
         /\ Files(c) \in SUBSET Paths
         /\ End(c)
         /\ open' = open
         /\ \A f \in Files(c) : source'[f] = recorded'[f]
         /\ \A f \in Paths \ Files(c) : /\ source'[f] = source[f]
                                        /\ recorded'[f] = recorded[f]
<1> USE DEF ReceiptInv, TypeInv
<1>1. call[c].step = "post_apply" /\ End(c) /\ open' = open
  BY DEF Completed, RolledBack, Checked
<1>2. Files(c) \in SUBSET Paths
  BY DEF TypeOK, Files, Call, Proposal
<1>3. open /\ \A f \in Files(c) : /\ source[f] = call[c].proposal.reviewed[f]
                                  /\ call[c].backup[f] = recorded[f]
  BY <1>1 DEF Settled, Applying
<1>4. CASE Completed(c)
  BY <1>1, <1>2, <1>3, <1>4 DEF Completed, Overwrite
<1>5. CASE RolledBack(c)
  BY <1>1, <1>2, <1>3, <1>5 DEF RolledBack, Overwrite
<1>6. QED
  BY <1>4, <1>5

LEMMA ValidationEndKeepsSettled ==
  ASSUME ReceiptInv, NEW c \in Calls, Completed(c) \/ RolledBack(c)
  PROVE  Settled'
<1> USE DEF ReceiptInv, TypeInv
<1>1. /\ call'[c].step = "idle"
      /\ \A e \in Calls : e # c => call'[e] = call[e]
  BY ValidationEnds, EndEffect
<1>2. Underway' = Underway \ Files(c)
  BY ValidationEnds, UnderwayEnds
<1>3. ReceiptsExplainSource'
  BY <1>2, ValidationEnds DEF Settled, ReceiptsExplainSource
<1>4. (\A e \in Calls : Applying(e) => open)'
  BY <1>1, ValidationEnds DEF Settled, Applying
<1>5. ASSUME NEW e \in Calls, call'[e].step = "post_apply",
             NEW f \in Files(e)'
      PROVE  /\ source'[f] = call'[e].proposal.reviewed[f]
             /\ call'[e].backup[f] = recorded'[f]
  <2>1. e # c /\ call'[e] = call[e] /\ f \in Files(e)
    BY <1>1, <1>5 DEF Files
  <2>2. Files(c) \cap Files(e) = {} /\ f \in Paths
    BY <1>5, <2>1, ValidationEnds
       DEF Disjoint, Applying, TypeOK, Files, Call, Proposal
  <2>3. QED
    BY <1>5, <2>1, <2>2, ValidationEnds DEF Settled
<1>6. QED
  BY <1>3, <1>4, <1>5 DEF Settled

LEMMA SettledNext ==
  ASSUME Trouble = {}, ReceiptInv, [Next]_vars
  PROVE  Settled'
<1> USE DEF ReceiptInv, TypeInv
<1>1. ASSUME NEW c \in Calls, RunCheck(c)
      PROVE  Settled'
  BY <1>1, RunCheckEffect, SettledKept DEF RunCheck
<1>2. ASSUME NEW c \in Calls, \/ CheckThrows(c) \/ Prepared(c)
                              \/ NotPrepared(c) \/ Rejected(c)
                              \/ ApplyRefused(c)
      PROVE  Settled'
  <2>1. call[c].step # "post_apply"
    BY <1>2 DEF CheckThrows, Prepared, NotPrepared, Rejected, ApplyRefused,
                Checked
  <2>2. End(c) /\ UNCHANGED <<source, recorded, open>>
    BY <1>2 DEF CheckThrows, Prepared, NotPrepared, Rejected, ApplyRefused
  <2>3. QED
    BY <2>1, <2>2, EndKeepsSettled
<1>3. ASSUME NEW c \in Calls, BeginPreApply(c)
      PROVE  Settled'
  <2>1. call[c].step = "decided" /\ open
    BY <1>3 DEF BeginPreApply, Settled, Applying
  <2>2. UNCHANGED <<source, recorded, open>>
    BY <1>3 DEF BeginPreApply
  <2>3. QED
    BY <1>3, <2>1, <2>2, BeginPreApplyEffect, SettledKept
<1>4. ASSUME NEW c \in Calls, Apply(c)
      PROVE  Settled'
  BY <1>4, ApplyKeepsSettled
<1>5. ASSUME NEW c \in Calls, CopyFails(c)
      PROVE  Settled'
  BY <1>5 DEF CopyFails
<1>6. ASSUME NEW c \in Calls, Completed(c) \/ RolledBack(c)
      PROVE  Settled'
  BY <1>6, ValidationEndKeepsSettled
<1>7. ASSUME NEW c \in Calls, NEW d \in Drafts, BeginPrepare(c, d)
      PROVE  Settled'
  <2>1. call[c].step = "idle" /\ UNCHANGED <<source, recorded, open>>
    BY <1>7 DEF BeginPrepare
  <2>2. QED
    BY <1>7, <2>1, BeginPrepareEffect, SettledKept
<1>8. ASSUME NEW c \in Calls, NEW d \in Drafts,
             NEW decision \in {"decided", "rejected"}, Decide(c, d, decision)
      PROVE  Settled'
  <2>1. /\ call[c].step = "idle"
        /\ open
        /\ UNCHANGED <<source, recorded, open>>
    BY <1>8 DEF Decide
  <2>2. QED
    BY <1>8, <2>1, DecideEffect, SettledKept
<1>9. ASSUME UNCHANGED <<source, recorded, call>>,
             open' \/ \A c \in Calls : ~Applying(c)
      PROVE  Settled'
  <2>1. UNCHANGED Underway
    BY <1>9 DEF Underway, Files
  <2>2. QED
    BY <1>9, <2>1 DEF Settled, ReceiptsExplainSource, Applying, Files
<1>10. ASSUME HostRestarts
       PROVE  Settled'
  <2>1. \A c \in Calls : /\ call[c].step # "post_apply"
                         /\ call'[c].step = "idle"
    BY <1>10, IdleCallType DEF HostRestarts
  <2>2. Underway = {} /\ Underway' = {}
    BY <2>1 DEF Underway
  <2>3. QED
    BY <1>10, <2>1, <2>2
       DEF HostRestarts, Settled, ReceiptsExplainSource, Applying
<1>11. ASSUME NEW c \in Calls, CallStep(c)
       PROVE  Settled'
  BY <1>1, <1>2, <1>3, <1>4, <1>5, <1>6, <1>11, Zenon DEF CallStep
<1>12. CASE CloseThread \/ StartThread
  BY <1>9, <1>12 DEF CloseThread, StartThread
<1>13. CASE UNCHANGED vars \/ \E d \in Drafts : EditDraft(d) \/ CopyDraft(d)
  <2>1. UNCHANGED <<source, recorded, call, open>>
    BY <1>13 DEF EditDraft, CopyDraft, vars
  <2>2. open \/ \A c \in Calls : ~Applying(c)
    BY DEF Settled
  <2>3. QED
    BY <1>9, <2>1, <2>2
<1>14. QED
  BY <1>7, <1>8, <1>10, <1>11, <1>12, <1>13, Zenon DEF Next

LEMMA ReceiptNext ==
  ASSUME Trouble = {}
  PROVE  ReceiptInv /\ [Next]_vars => ReceiptInv'
<1>1. "overlap" \notin Trouble
  OBVIOUS
<1>2. QED
  BY <1>1, TypeNext, DisjointNext, SettledNext DEF ReceiptInv, TypeInv

LEMMA ReceiptInvariant ==
  ASSUME Trouble = {}
  PROVE  Spec => []ReceiptInv
<1>1. ReceiptInv /\ [Next]_vars => ReceiptInv'
  BY ReceiptNext
<1>2. QED
  BY ReceiptInit, <1>1, PTL DEF Spec

\* With a Host that serialises the applies of a file, keeps the thread open
\* and survives them, every file no apply is working on holds what the last
\* completed receipt about it says, for any guardrails and any agent.
THEOREM ReceiptsExplain ==
  ASSUME Trouble = {}
  PROVE  Spec => []ReceiptsExplainSource
<1>1. ReceiptInv => ReceiptsExplainSource
  BY DEF ReceiptInv, Settled
<1>2. QED
  BY <1>1, ReceiptInvariant, PTL

-----------------------------------------------------------------------------
(* Such a Host implements GovernedSource                                   *)

LEMMA GovernedInit == Init => Governed!Init
<1> SUFFICES ASSUME Init PROVE Governed!Init
  OBVIOUS
<1>1. \A c \in Calls : call[c].step = "idle"
  BY IdleCallType DEF Init
<1>2. Underway = {}
  BY <1>1 DEF Underway
<1>3. source = Blank /\ recorded = Blank
  BY DEF Init
<1>4. QED
  BY <1>2, <1>3 DEF Governed!Init, Governed!Tree, Tree

\* The apply of a proposal makes a change.
LEMMA ApplyMakes ==
  ASSUME ReceiptInv, NEW c \in Calls, Apply(c)
  PROVE  Governed!Make(Files(c)) /\ Files(c) \in SUBSET Paths
<1> USE DEF ReceiptInv, TypeInv
<1>1. source' \in Tree /\ \A f \in Paths \ Files(c) : source'[f] = source[f]
  BY ApplyEffect
<1>2. /\ Underway' = Underway \cup Files(c)
      /\ Files(c) \cap Underway = {}
  BY UnderwayStarts
<1>3. Files(c) \in SUBSET Paths /\ recorded' = recorded
  BY MayApplyMeansReviewed DEF Apply
<1>4. QED
  BY <1>1, <1>2, <1>3 DEF Governed!Make, Governed!Agree, Governed!Tree, Tree

\* A completed receipt keeps it, a failed validation undoes it.
LEMMA ValidationKeepsOrUndoes ==
  ASSUME ReceiptInv, ReceiptInv', NEW c \in Calls, Completed(c) \/ RolledBack(c)
  PROVE  /\ Governed!Keep(Files(c)) \/ Governed!Undo(Files(c))
         /\ Files(c) \in SUBSET Paths
<1> USE DEF ReceiptInv, TypeInv
<1>1. /\ Files(c) \in SUBSET Paths
      /\ \A f \in Files(c) : source'[f] = recorded'[f]
      /\ \A f \in Paths \ Files(c) : /\ source'[f] = source[f]
                                     /\ recorded'[f] = recorded[f]
  BY ValidationEnds
<1>2. Files(c) \subseteq Underway /\ Underway' = Underway \ Files(c)
  BY ValidationEnds, UnderwayEnds
<1>3. source' \in Tree /\ recorded' \in Tree
  BY DEF TypeOK
<1>4. CASE Completed(c)
  <2>1. source' = source
    BY <1>4 DEF Completed
  <2>2. QED
    BY <1>1, <1>2, <1>3, <2>1
       DEF Governed!Keep, Governed!Agree, Governed!Tree, Tree
<1>5. CASE RolledBack(c)
  <2>1. recorded' = recorded
    BY <1>5 DEF RolledBack
  <2>2. QED
    BY <1>1, <1>2, <1>3, <2>1
       DEF Governed!Undo, Governed!Agree, Governed!Tree, Tree
<1>6. QED
  BY <1>1, <1>4, <1>5

LEMMA GovernedNext ==
  ASSUME Trouble = {}, ReceiptInv, ReceiptInv', [Next]_vars
  PROVE  [Governed!Next]_<<source, recorded, Underway>>
<1> USE DEF ReceiptInv, TypeInv
<1> DEFINE Stutter == UNCHANGED <<source, recorded, Underway>>
<1>1. ASSUME NEW c \in Calls, \/ Apply(c) \/ Completed(c) \/ RolledBack(c)
      PROVE  Governed!Next
  BY <1>1, ApplyMakes, ValidationKeepsOrUndoes DEF Governed!Next
<1>2. ASSUME NEW c \in Calls, RunCheck(c)
      PROVE  Stutter
  <2>1. Underway' = Underway
    BY <1>2, RunCheckEffect, UnderwayKept
  <2>2. QED
    BY <1>2, <2>1 DEF RunCheck
<1>3. ASSUME NEW c \in Calls, \/ CheckThrows(c) \/ Prepared(c)
                              \/ NotPrepared(c) \/ Rejected(c)
                              \/ ApplyRefused(c)
      PROVE  Stutter
  <2>1. call[c].step # "post_apply"
    BY <1>3 DEF CheckThrows, Prepared, NotPrepared, Rejected, ApplyRefused,
                Checked
  <2>2. End(c) /\ UNCHANGED <<source, recorded>>
    BY <1>3 DEF CheckThrows, Prepared, NotPrepared, Rejected, ApplyRefused
  <2>3. Underway' = Underway
    BY <2>1, <2>2, EndEffect, UnderwayKept
  <2>4. QED
    BY <2>2, <2>3
<1>4. ASSUME NEW c \in Calls, BeginPreApply(c)
      PROVE  Stutter
  <2>1. Underway' = Underway
    BY <1>4, BeginPreApplyEffect, UnderwayKept DEF BeginPreApply
  <2>2. QED
    BY <1>4, <2>1 DEF BeginPreApply
<1>5. ASSUME NEW c \in Calls, CopyFails(c)
      PROVE  FALSE
  BY <1>5 DEF CopyFails
<1>6. ASSUME NEW c \in Calls, NEW d \in Drafts, BeginPrepare(c, d)
      PROVE  Stutter
  <2>1. Underway' = Underway
    BY <1>6, BeginPrepareEffect, UnderwayKept DEF BeginPrepare
  <2>2. QED
    BY <1>6, <2>1 DEF BeginPrepare
<1>7. ASSUME NEW c \in Calls, NEW d \in Drafts,
             NEW decision \in {"decided", "rejected"}, Decide(c, d, decision)
      PROVE  Stutter
  <2>1. Underway' = Underway
    BY <1>7, DecideEffect, UnderwayKept DEF Decide
  <2>2. QED
    BY <1>7, <2>1 DEF Decide
<1>8. ASSUME HostRestarts
      PROVE  Stutter
  <2>1. \A c \in Calls : /\ call[c].step # "post_apply"
                         /\ call'[c].step = "idle"
    BY <1>8, IdleCallType DEF HostRestarts
  <2>2. Underway = {} /\ Underway' = {}
    BY <2>1 DEF Underway
  <2>3. QED
    BY <1>8, <2>2 DEF HostRestarts
<1>9. ASSUME UNCHANGED <<source, recorded, call>>
      PROVE  Stutter
  BY <1>9 DEF Underway, Files
<1>10. ASSUME NEW c \in Calls, CallStep(c)
       PROVE  Governed!Next \/ Stutter
  <2> HIDE DEF Stutter
  <2>1. QED
    BY <1>1, <1>2, <1>3, <1>4, <1>5, <1>10, Zenon DEF CallStep
<1>11. Governed!Next \/ Stutter
  <2> HIDE DEF Stutter
  <2>1. QED
    BY <1>6, <1>7, <1>8, <1>9, <1>10, Zenon
       DEF Next, EditDraft, CopyDraft, CloseThread, StartThread, vars
<1>12. QED
  BY <1>11

\* Concurrent prepares, applies, edits and restarts are changes made one file
\* set at a time, each kept with its receipt or undone, when the Host does
\* nothing wrong.
THEOREM LaneImplementsGovernedSource ==
  ASSUME Trouble = {}
  PROVE  Spec => ImplementsGovernedSource
<1>1. ReceiptInv /\ ReceiptInv' /\ [Next]_vars =>
        [Governed!Next]_<<source, recorded, Underway>>
  BY GovernedNext
<1>2. QED
  BY <1>1, GovernedInit, ReceiptInvariant, PTL
     DEF Spec, ImplementsGovernedSource, Governed!Spec

-----------------------------------------------------------------------------
(* The base that is overwritten                                            *)

BaseCheckRan(c) ==
  \E k \in 1 .. call[c].check - 1 :
    /\ k <= Len(Guardrails["pre_apply"])
    /\ Guardrails["pre_apply"][k] = "base-snapshot-unchanged"

\* Once base-snapshot-unchanged has passed, the source keeps the base of the
\* proposal: the awaits that follow it let nobody else write these files.
BaseHeld ==
  \A c \in Calls :
    /\ call[c].step = "decided" => call[c].check = 1
    /\ call[c].step = "pre_apply" => call[c].base = call[c].proposal.base
    /\ call[c].step = "pre_apply" /\ ~call[c].failed /\ BaseCheckRan(c) =>
         \A f \in Files(c) : source[f] = call[c].proposal.base[f]

BaseInv == TypeInv /\ Disjoint /\ BaseHeld

LEMMA BaseInit == Init => BaseInv
<1> SUFFICES ASSUME Init PROVE BaseHeld
  BY TypeInit, DisjointInit DEF BaseInv
<1>1. \A c \in Calls : call[c].step = "idle"
  BY IdleCallType DEF Init
<1>2. QED
  BY <1>1 DEF BaseHeld

\* A step of c: the others keep their base when their files are not written.
LEMMA BaseKept ==
  ASSUME BaseHeld, NEW c \in Calls,
         \A e \in Calls : e # c => call'[e] = call[e],
         \A e \in Calls : e # c /\ call[e].step = "pre_apply" =>
           \A f \in Files(e) : source'[f] = source[f],
         call'[c].step \notin {"decided", "pre_apply"}
  PROVE  BaseHeld'
<1>1. ASSUME NEW e \in Calls, e # c
      PROVE  /\ call'[e].step = "decided" => call'[e].check = 1
             /\ call'[e].step = "pre_apply" =>
                  call'[e].base = call'[e].proposal.base
             /\ call'[e].step = "pre_apply" /\ ~call'[e].failed
                /\ BaseCheckRan(e)' =>
                  \A f \in Files(e)' : source'[f] = call'[e].proposal.base[f]
  <2>1. call'[e] = call[e]
    BY <1>1
  <2>2. BaseCheckRan(e)' <=> BaseCheckRan(e)
    BY <2>1 DEF BaseCheckRan
  <2>3. QED
    BY <1>1, <2>1, <2>2 DEF BaseHeld, Files
<1>2. QED
  BY <1>1 DEF BaseHeld

\* A step of c that writes no file but those it is applying.
LEMMA BaseKeptByApply ==
  ASSUME BaseInv, NEW c \in Calls, Applying(c),
         \A e \in Calls : e # c => call'[e] = call[e],
         \A f \in Paths \ Files(c) : source'[f] = source[f],
         call'[c].step \notin {"decided", "pre_apply"}
  PROVE  BaseHeld'
<1> USE DEF BaseInv, TypeInv
<1>1. ASSUME NEW e \in Calls, e # c, call[e].step = "pre_apply"
      PROVE  \A f \in Files(e) : source'[f] = source[f]
  <2>1. Files(c) \cap Files(e) = {} /\ Files(e) \in SUBSET Paths
    BY <1>1 DEF Disjoint, Applying, TypeOK, Files, Call, Proposal
  <2>2. QED
    BY <2>1
<1>2. QED
  BY <1>1, BaseKept

LEMMA BaseKeptByEnd ==
  ASSUME BaseInv, NEW c \in Calls, End(c), source' = source
  PROVE  BaseHeld'
  BY EndEffect, BaseKept DEF BaseInv, TypeInv

LEMMA BaseKeptByCheck ==
  ASSUME BaseInv, NEW c \in Calls, RunCheck(c)
  PROVE  BaseHeld'
<1> USE DEF BaseInv, TypeInv
<1>1. source' = source /\ call[c] \in Call /\ Checking(c)
  BY DEF RunCheck, TypeOK
<1>2. CASE call[c].step # "pre_apply"
  <2>1. call[c].step \in {"pre_proposal", "post_apply"}
    BY <1>1, <1>2 DEF Checking, Phases
  <2>2. QED
    BY <1>1, <2>1, RunCheckEffect, BaseKept
<1>3. CASE call[c].step = "pre_apply"
  <2>1. /\ call'[c].step = "pre_apply"
        /\ call'[c].base = call'[c].proposal.base
        /\ Files(c)' = Files(c)
        /\ call'[c].proposal = call[c].proposal
    BY <1>3, RunCheckEffect DEF BaseHeld, Files
  <2>2. ASSUME ~call'[c].failed, BaseCheckRan(c)'
        PROVE  \A f \in Files(c) : source[f] = call[c].proposal.base[f]
    <3>1. ~call[c].failed /\ TRUE \in Verdicts(c)
      BY <2>2, RunCheckEffect
    <3>2. CASE BaseCheckRan(c)
      BY <1>3, <3>1, <3>2 DEF BaseHeld
    <3>3. CASE ~BaseCheckRan(c)
      <4>1. CurrentCheck(c) = "base-snapshot-unchanged"
        <5>1. call'[c].check - 1 = call[c].check /\ call[c].check \in Nat
          <6>1. call[c].check \in Nat
            BY <1>1 DEF Call
          <6>2. call'[c].check = call[c].check + 1
            BY RunCheckEffect
          <6>3. QED
            BY <6>1, <6>2
        <5>2. \A k \in 1 .. call[c].check :
                k \in 1 .. call[c].check - 1 \/ k = call[c].check
          BY <5>1
        <5>3. QED
          BY <1>3, <2>2, <3>3, <5>1, <5>2 DEF BaseCheckRan, CurrentCheck
      <4>2. Take(source, Files(c)) = call[c].base
        BY <3>1, <4>1 DEF Verdicts
      <4>3. Files(c) \in SUBSET Paths
        BY <1>1 DEF Files, Call, Proposal
      <4>4. \A f \in Files(c) : source[f] = Take(source, Files(c))[f]
        BY <4>3 DEF Take
      <4>5. QED
        BY <1>3, <4>2, <4>4 DEF BaseHeld
    <3>4. QED
      BY <3>2, <3>3
  <2>3. ASSUME NEW e \in Calls, e # c
        PROVE  call'[e] = call[e] /\ (BaseCheckRan(e)' <=> BaseCheckRan(e))
    BY <2>3, RunCheckEffect DEF BaseCheckRan
  <2>4. QED
    BY <1>1, <2>1, <2>2, <2>3 DEF BaseHeld, Files
<1>4. QED
  BY <1>2, <1>3

LEMMA BaseNext ==
  ASSUME "overlap" \notin Trouble, BaseInv, [Next]_vars
  PROVE  BaseHeld'
<1> USE DEF BaseInv, TypeInv
<1>1. ASSUME NEW c \in Calls, RunCheck(c)
      PROVE  BaseHeld'
  BY <1>1, BaseKeptByCheck
<1>2. ASSUME NEW c \in Calls, \/ CheckThrows(c) \/ Prepared(c)
                              \/ NotPrepared(c) \/ Rejected(c)
                              \/ ApplyRefused(c) \/ Completed(c)
      PROVE  BaseHeld'
  BY <1>2, BaseKeptByEnd
     DEF CheckThrows, Prepared, NotPrepared, Rejected, ApplyRefused, Completed
<1>3. ASSUME NEW c \in Calls, BeginPreApply(c)
      PROVE  BaseHeld'
  <2>1. call'[c].check = 1 /\ call'[c].base = call'[c].proposal.base
    <3>1. call[c].check = 1
      BY <1>3 DEF BeginPreApply, BaseHeld
    <3>2. QED
      BY <1>3, <3>1, BeginPreApplyEffect
  <2>2. ~BaseCheckRan(c)'
    BY <2>1 DEF BaseCheckRan
  <2>3. call'[c].step = "pre_apply" /\ source' = source
    BY <1>3, BeginPreApplyEffect DEF BeginPreApply
  <2>4. ASSUME NEW e \in Calls, e # c
        PROVE  call'[e] = call[e] /\ (BaseCheckRan(e)' <=> BaseCheckRan(e))
    BY <1>3, <2>4, BeginPreApplyEffect DEF BaseCheckRan
  <2>5. QED
    BY <2>1, <2>2, <2>3, <2>4 DEF BaseHeld, Files
<1>4. ASSUME NEW c \in Calls, Apply(c)
      PROVE  BaseHeld'
  BY <1>4, ApplyEffect, BaseKeptByApply DEF Apply, Checked, Applying
<1>5. ASSUME NEW c \in Calls, CopyFails(c) \/ RolledBack(c)
      PROVE  BaseHeld'
  <2>1. Applying(c) /\ End(c)
    BY <1>5 DEF CopyFails, RolledBack, Checked, Applying
  <2>2. \A f \in Paths \ Files(c) : source'[f] = source[f]
    BY <1>5 DEF CopyFails, RolledBack, Overwrite
  <2>3. QED
    BY <2>1, <2>2, EndEffect, BaseKeptByApply
<1>6. ASSUME NEW c \in Calls, NEW d \in Drafts, BeginPrepare(c, d)
      PROVE  BaseHeld'
  BY <1>6, BeginPrepareEffect, BaseKept DEF BeginPrepare
<1>7. ASSUME NEW c \in Calls, NEW d \in Drafts,
             NEW decision \in {"decided", "rejected"}, Decide(c, d, decision)
      PROVE  BaseHeld'
  <2>1. call'[c].check = 1 /\ call'[c].step # "pre_apply"
    BY <1>7, DecideEffect
  <2>2. source' = source
    BY <1>7 DEF Decide
  <2>3. ASSUME NEW e \in Calls, e # c
        PROVE  call'[e] = call[e] /\ (BaseCheckRan(e)' <=> BaseCheckRan(e))
    BY <1>7, <2>3, DecideEffect DEF BaseCheckRan
  <2>4. QED
    BY <2>1, <2>2, <2>3 DEF BaseHeld, Files
<1>8. ASSUME HostRestarts
      PROVE  BaseHeld'
  BY <1>8, IdleCallType DEF HostRestarts, BaseHeld
<1>9. ASSUME UNCHANGED <<source, call>>
      PROVE  BaseHeld'
  BY <1>9 DEF BaseHeld, BaseCheckRan, Files
<1>10. ASSUME NEW c \in Calls, CallStep(c)
       PROVE  BaseHeld'
  BY <1>1, <1>2, <1>3, <1>4, <1>5, <1>10, Zenon DEF CallStep
<1>11. QED
  BY <1>6, <1>7, <1>8, <1>9, <1>10, Zenon
     DEF Next, EditDraft, CopyDraft, CloseThread, StartThread, vars

LEMMA BaseInvariant ==
  ASSUME "overlap" \notin Trouble
  PROVE  Spec => []BaseInv
<1>1. BaseInv /\ [Next]_vars => BaseInv'
  BY TypeNext, DisjointNext, BaseNext DEF BaseInv, TypeInv
<1>2. QED
  BY BaseInit, <1>1, PTL DEF Spec

\* When base-snapshot-unchanged is a guardrail of pre_apply and the Host does
\* not overlap the applies of a file, an apply overwrites exactly the source
\* its diff was made against, whatever else goes wrong: closed threads, calls
\* that die or throw, copies that fail halfway.
THEOREM ReviewedBaseOverwritten ==
  ASSUME "overlap" \notin Trouble,
         \E k \in 1 .. Len(Guardrails["pre_apply"]) :
           Guardrails["pre_apply"][k] = "base-snapshot-unchanged"
  PROVE  Spec => AppliesOnReviewedBase
<1>1. ASSUME BaseInv, [Next]_vars, NEW c \in Calls, Copies(c)
      PROVE  \A f \in Files(c) : source[f] = call[c].proposal.base[f]
  <2>1. Apply(c)
    BY <1>1, CopiesByApply DEF BaseInv, TypeInv
  <2>2. /\ call[c].step = "pre_apply"
        /\ ~call[c].failed
        /\ call[c].check > Len(Guardrails["pre_apply"])
    BY <2>1 DEF Apply, Checked, MayApply
  <2>3. BaseCheckRan(c)
    <3>1. call[c].check \in Nat
      BY <1>1 DEF BaseInv, TypeInv, TypeOK, Call
    <3>2. Len(Guardrails["pre_apply"]) \in Nat
      BY DEF Phases
    <3>3. QED
      BY <2>2, <3>1, <3>2 DEF BaseCheckRan
  <2>4. QED
    BY <1>1, <2>2, <2>3 DEF BaseInv, BaseHeld
<1>2. BaseInv /\ [Next]_vars =>
        [\A c \in Calls : Copies(c) =>
           \A f \in Files(c) : source[f] = call[c].proposal.base[f]]_vars
  BY <1>1
<1>3. QED
  BY <1>2, BaseInvariant, PTL DEF Spec, AppliesOnReviewedBase

=============================================================================
