----------------------- MODULE DefinitionMutationProofs -----------------------
(***************************************************************************)
(* Theorems of DefinitionMutation, for any set of calls and of items.      *)
(***************************************************************************)
EXTENDS DefinitionMutation, TLAPS

USE KindsAssumption, RepairersAssumption, DirtyPostsAssumption, NoCallAssumption,
    NoSummaryAssumption

-----------------------------------------------------------------------------
(* Lemmas: what the helpers do to a well-typed call function.              *)

LEMMA IdleCallType == IdleCall \in Call
  BY DEF IdleCall, Call, Step, AllKinds, Definition

\* Goto changes the step of one call only.
LEMMA GotoType ==
  ASSUME TypeOK, NEW c \in Calls, NEW s \in Step, Goto(c, s)
  PROVE  call' \in [Calls -> Call]
  BY DEF TypeOK, Goto, Call

\* End forgets one call only.
LEMMA EndType ==
  ASSUME TypeOK, NEW c \in Calls, End(c)
  PROVE  /\ call' \in [Calls -> Call]
         /\ consent' \in SUBSET Calls
  BY IdleCallType DEF TypeOK, End

LEMMA AbortType ==
  ASSUME TypeOK, NEW c \in Calls, Abort(c)
  PROVE  /\ call' \in [Calls -> Call]
         /\ consent' \in SUBSET Calls
         /\ writer' \in {"none", "apply", "rollback"}
  BY EndType DEF TypeOK, Abort, EndWriter

LEMMA GuardType ==
  /\ NoGuard \in Guard
  /\ TypeOK /\ MarkDirty => guard' \in Guard
  BY DEF NoGuard, Guard, TypeOK, MarkDirty

LEMMA SetStepType ==
  ASSUME NEW r \in Call, NEW s \in Step
  PROVE  [r EXCEPT !.step = s] \in Call
  BY DEF Call

LEMMA SetResultType ==
  ASSUME NEW r \in Call, NEW s \in Step, NEW d \in Definition
  PROVE  /\ [r EXCEPT !.before = d, !.step = s] \in Call
         /\ [r EXCEPT !.removed = d, !.step = s] \in Call
  BY DEF Call

LEMMA SetCommittedType ==
  ASSUME NEW r \in Call
  PROVE  [r EXCEPT !.committed = TRUE] \in Call
  BY DEF Call

LEMMA DevGoneType ==
  ASSUME TypeOK, call' = AfterDevGone
  PROVE  call' \in [Calls -> Call]
<1>1. ASSUME NEW c \in Calls
      PROVE  [call[c] EXCEPT !.step = StepAfterDevGone(call[c])] \in Call
  <2>1. call[c] \in Call
    BY DEF TypeOK
  <2>2. StepAfterDevGone(call[c]) \in Step
    BY <2>1 DEF StepAfterDevGone, Call, Step
  <2>3. QED
    BY <2>1, <2>2, SetStepType
<1>2. QED
  BY <1>1 DEF AfterDevGone

LEMMA DevReadyType ==
  ASSUME TypeOK, call' = AfterDevReady
  PROVE  call' \in [Calls -> Call]
<1>1. ASSUME NEW c \in Calls
      PROVE  [call[c] EXCEPT !.step = StepAfterDevReady(call[c])] \in Call
  <2>1. call[c] \in Call
    BY DEF TypeOK
  <2>2. StepAfterDevReady(call[c]) \in Step
    BY <2>1 DEF StepAfterDevReady, Call, Step
  <2>3. QED
    BY <2>1, <2>2, SetStepType
<1>2. QED
  BY <1>1 DEF AfterDevReady

-----------------------------------------------------------------------------
(* Type correctness                                                        *)

LEMMA TypeInit == Init => TypeOK
  BY IdleCallType, GuardType DEF Init, TypeOK, Slots, Definition

LEMMA TypeNext == TypeOK /\ [Next]_vars => TypeOK'
<1> SUFFICES ASSUME TypeOK, [Next]_vars
             PROVE  TypeOK'
  OBVIOUS
<1>1. ASSUME NEW c \in Calls, BeginMutation(c)
      PROVE  TypeOK'
  <2>1. PICK kind \in Kinds \cap {"apply", "rollback"}, gated \in BOOLEAN :
          \E goal \in IF kind = "apply" THEN {{i} : i \in Items} ELSE history :
            /\ writer' = kind
            /\ call' = [call EXCEPT ![c] =
                 [IdleCall EXCEPT !.step = "fetching", !.kind = kind,
                                  !.gated = gated, !.goal = goal]]
    BY <1>1 DEF BeginMutation
  <2>2. (IF kind = "apply" THEN {{i} : i \in Items} ELSE history)
          \subseteq Definition
    BY DEF TypeOK, Definition
  <2>3. PICK goal \in Definition :
            /\ writer' = kind
            /\ call' = [call EXCEPT ![c] =
                 [IdleCall EXCEPT !.step = "fetching", !.kind = kind,
                                  !.gated = gated, !.goal = goal]]
    BY <2>1, <2>2, ZenonT(20)
  <2>4. [IdleCall EXCEPT !.step = "fetching", !.kind = kind,
                         !.gated = gated, !.goal = goal] \in Call
    BY DEF IdleCall, Call, Step, AllKinds, Definition
  <2>5. QED
    BY <1>1, <2>3, <2>4 DEF BeginMutation, TypeOK
<1>2. ASSUME NEW c \in Calls, BeginPrepare(c)
      PROVE  TypeOK'
  <2>1. PICK gated \in BOOLEAN, goal \in Definition :
          call' = [call EXCEPT ![c] =
            [IdleCall EXCEPT !.step = "validating", !.kind = "prepare",
                             !.gated = gated, !.goal = goal]]
    BY <1>2 DEF BeginPrepare, TypeOK
  <2>2. [IdleCall EXCEPT !.step = "validating", !.kind = "prepare",
                         !.gated = gated, !.goal = goal] \in Call
    BY DEF IdleCall, Call, Step, AllKinds, Definition
  <2>3. QED
    BY <1>2, <2>1, <2>2 DEF BeginPrepare, TypeOK
<1>3. ASSUME NEW c \in Calls, BeginRepair(c)
      PROVE  TypeOK'
  <2>1. [IdleCall EXCEPT !.step = "observing", !.kind = "repair",
                         !.before = guard.lkg] \in Call
    BY DEF TypeOK, Guard, IdleCall, Call, Step, AllKinds, Definition
  <2>2. QED
    BY <1>3, <2>1 DEF BeginRepair, TypeOK
<1>4. ASSUME NEW c \in Calls, FetchBefore(c)
      PROVE  TypeOK'
  <2>1. ASSUME NEW s \in Step
        PROVE  [call[c] EXCEPT !.before = served, !.step = s] \in Call
    BY SetResultType DEF TypeOK
  <2>2. QED
    BY <1>4, <2>1 DEF FetchBefore, TypeOK, Step
<1>5. ASSUME NEW c \in Calls, Validate(c)
      PROVE  TypeOK'
  <2>1. ASSUME NEW s \in Step, NEW d \in Definition
        PROVE  [call[c] EXCEPT !.removed = d, !.step = s] \in Call
    BY SetResultType DEF TypeOK
  <2>2. overlay \ call[c].goal \in Definition
    BY DEF TypeOK, Definition
  <2>3. QED
    BY <1>5, <2>1, <2>2 DEF Validate, TypeOK, Step
<1>6. ASSUME NEW c \in Calls, PreparationFails(c)
      PROVE  TypeOK'
  BY <1>6, AbortType DEF PreparationFails, TypeOK
<1>7. ASSUME NEW c \in Calls, Ask(c)
      PROVE  TypeOK'
  BY <1>7, GotoType DEF Ask, TypeOK, Step, Slots, SlotOf
<1>8. ASSUME NEW c \in Calls, AskFails(c)
      PROVE  TypeOK'
  BY <1>8, AbortType DEF AskFails, TypeOK, Slots, SlotOf
<1>9. ASSUME NEW c \in Calls, NEW d \in {"allow", "deny"}, Answer(c, d)
      PROVE  TypeOK'
  <2>1. call' \in [Calls -> Call]
    BY <1>9, GotoType DEF Answer, Step
  <2>2. QED
    BY <1>9, <2>1 DEF Answer, TypeOK, Slots, SlotOf
<1>10. ASSUME NEW c \in Calls, Denied(c) \/ AuthorizationRefused(c)
       PROVE  TypeOK'
  BY <1>10, AbortType DEF Denied, AuthorizationRefused, TypeOK
<1>11. ASSUME NEW c \in Calls, PrepareDone(c)
       PROVE  TypeOK'
  BY <1>11, EndType DEF PrepareDone, TypeOK
<1>12. ASSUME NEW c \in Calls, StartMutation(c)
       PROVE  TypeOK'
  <2>1. guard' \in Guard
    BY <1>12 DEF StartMutation, TypeOK, Call, Guard
  <2>2. QED
    BY <1>12, <2>1, GotoType DEF StartMutation, TypeOK, Step
<1>13. ASSUME NEW c \in Calls, Commit(c)
       PROVE  TypeOK'
  <2>1. overlay' \in Definition
    BY <1>13 DEF Commit, TypeOK, Call, Definition
  <2>2. [call[c] EXCEPT !.committed = TRUE] \in Call
    BY SetCommittedType DEF TypeOK
  <2>3. QED
    BY <1>13, <2>1, <2>2 DEF Commit, TypeOK
<1>14. ASSUME NEW c \in Calls, Reply(c)
       PROVE  TypeOK'
  BY <1>14, GotoType DEF Reply, TypeOK, Step
<1>15. ASSUME NEW c \in Calls, PostFails(c)
       PROVE  TypeOK'
  <2>1. overlay \cup call[c].goal \in Definition
    BY DEF TypeOK, Call, Definition
  <2>2. history' \in SUBSET Definition
    BY <1>15, <2>1 DEF PostFails, HistoryAfterFailure, TypeOK
  <2>3. QED
    BY <1>15, <2>2, AbortType, GuardType DEF PostFails, ClearGuard, TypeOK
<1>h. ASSUME NEW c \in Calls, HalfRolledBack(c)
      PROVE  TypeOK'
  <2>1. overlay' \in Definition
    BY <1>h DEF HalfRolledBack, TypeOK, Definition
  <2>2. QED
    BY <1>h, <2>1, AbortType, GuardType DEF HalfRolledBack, TypeOK
<1>16. ASSUME NEW c \in Calls, Restart(c)
       PROVE  TypeOK'
  BY <1>16, GotoType DEF Restart, TypeOK, Step
<1>17. ASSUME NEW c \in Calls, RestartThrows(c) \/ DirtyFail(c)
       PROVE  TypeOK'
  BY <1>17, AbortType, GuardType DEF RestartThrows, DirtyFail,
                                        StoppedDev, TypeOK
<1>18. ASSUME NEW c \in Calls, Verified(c)
       PROVE  TypeOK'
  BY <1>18, AbortType, GuardType DEF Verified, ClearGuard, TypeOK
<1>19. ASSUME NEW c \in Calls, RepairClears(c) \/ RepairRefuses(c)
       PROVE  TypeOK'
  BY <1>19, EndType, GuardType
     DEF RepairClears, RepairRefuses, ClearGuard, TypeOK
<1>20. ASSUME DevStart \/ DevReady \/ DevStops
       PROVE  TypeOK'
  BY <1>20, DevGoneType, DevReadyType DEF DevStart, DevReady, DevStops,
                                           StoppedDev, TypeOK
<1>21. ASSUME FrameworkRestarts
       PROVE  TypeOK'
  BY <1>21, IdleCallType
     DEF FrameworkRestarts, LoadedGuard, NoGuard, Guard, TypeOK
<1>22. CASE UNCHANGED vars
  BY <1>22 DEF vars, TypeOK
<1>23. QED
  BY <1>1, <1>2, <1>3, <1>4, <1>5, <1>6, <1>7, <1>8, <1>9, <1>10, <1>11,
     <1>12, <1>13, <1>14, <1>15, <1>h, <1>16, <1>17, <1>18, <1>19, <1>20,
     <1>21, <1>22
     DEF Next, CallStep

\* The variables of the model keep their types: no call ends in a step the
\* code has no continuation for.
THEOREM TypeCorrect == Spec => []TypeOK
  BY TypeInit, TypeNext, PTL DEF Spec

-----------------------------------------------------------------------------
(* The inductive invariant, in the parts the theorems need                 *)

MutationSteps == {"posting", "dropped", "stopping", "restarting",
                  "restarted", "exited"}

\* A step tells what kinds of call can be at it.
StepFitsKind ==
  \A c \in Calls :
    /\ call[c].step \in MutationSteps \cup {"fetching"} => Mutating(c)
    /\ call[c].step = "observing" <=> call[c].kind = "repair"

\* The call an approval slot names waits for the answer to its prompt.
SlotNamesWaiting ==
  \A s \in Slots : slot[s] # NoCall =>
    /\ call[slot[s]].step = "waiting"
    /\ SlotOf(slot[s]) = s

\* Past its approval a gated call has the consent of its own prompt.
PastApprovalHasConsent ==
  \A c \in Calls :
    call[c].step \in MutationSteps \cup {"decided"} /\ call[c].gated
      => c \in consent

ExclusionInv ==
  TypeOK /\ StepFitsKind /\ SlotNamesWaiting /\ WriterHeldByOneCall
         /\ PastApprovalHasConsent

-----------------------------------------------------------------------------
(* Lemmas: what the helpers and the dev process do to the calls            *)

OthersSame(c) == \A d \in Calls \ {c} : call'[d] = call[d]

\* Two records of a call that differ in the step at most.
SameButStep(r, q) ==
  /\ r.kind = q.kind
  /\ r.gated = q.gated
  /\ r.goal = q.goal
  /\ r.before = q.before
  /\ r.removed = q.removed
  /\ r.committed = q.committed

LEMMA EndEffect ==
  ASSUME TypeOK, NEW c \in Calls, End(c)
  PROVE  /\ call'[c].step = "idle" /\ call'[c].kind = "apply"
         /\ OthersSame(c)
         /\ consent' = consent \ {c}
<1>1. call'[c] = IdleCall /\ OthersSame(c)
  BY DEF TypeOK, End, OthersSame
<1>2. QED
  BY <1>1 DEF IdleCall, End

LEMMA GotoEffect ==
  ASSUME TypeOK, NEW c \in Calls, NEW s, Goto(c, s)
  PROVE  /\ call'[c].step = s
         /\ SameButStep(call'[c], call[c])
         /\ OthersSame(c)
<1>1. call[c] \in Call
  BY DEF TypeOK
<1>2. call'[c] = [call[c] EXCEPT !.step = s] /\ OthersSame(c)
  BY DEF TypeOK, Goto, OthersSame
<1>3. QED
  BY <1>1, <1>2 DEF Call, SameButStep

LEMMA DevGoneEffect ==
  ASSUME TypeOK, call' = AfterDevGone, NEW c \in Calls
  PROVE  /\ call'[c].step = StepAfterDevGone(call[c])
         /\ SameButStep(call'[c], call[c])
<1>1. call[c] \in Call
  BY DEF TypeOK
<1>2. call'[c] = [call[c] EXCEPT !.step = StepAfterDevGone(call[c])]
  BY DEF AfterDevGone
<1>3. QED
  BY <1>1, <1>2 DEF Call, SameButStep

LEMMA DevReadyEffect ==
  ASSUME TypeOK, call' = AfterDevReady, NEW c \in Calls
  PROVE  /\ call'[c].step = StepAfterDevReady(call[c])
         /\ SameButStep(call'[c], call[c])
<1>1. call[c] \in Call
  BY DEF TypeOK
<1>2. call'[c] = [call[c] EXCEPT !.step = StepAfterDevReady(call[c])]
  BY DEF AfterDevReady
<1>3. QED
  BY <1>1, <1>2 DEF Call, SameButStep

\* What the calls see of the dev process keeps every call at a step of the
\* same sort.
LEMMA DevEffect ==
  ASSUME TypeOK, StepFitsKind, NEW c \in Calls,
         DevStart \/ DevReady \/ DevStops
  PROVE  /\ SameButStep(call'[c], call[c])
         /\ \/ call'[c].step = call[c].step
            \/ /\ call[c].step \in MutationSteps
               /\ call'[c].step \in MutationSteps
  BY DevGoneEffect, DevReadyEffect
     DEF DevStart, DevReady, DevStops, StepAfterDevGone, StepAfterDevReady,
         MutationSteps, SameButStep

-----------------------------------------------------------------------------
(* One writer, and consent                                                 *)

ExclusionCore ==
  StepFitsKind /\ SlotNamesWaiting /\ WriterHeldByOneCall
               /\ PastApprovalHasConsent

\* A call that ends, releasing the writer if it holds it.
LEMMA AbortExclusion ==
  ASSUME ExclusionInv, NEW c \in Calls, Abort(c), call[c].step # "idle",
         \A s \in Slots : slot'[s] # NoCall => slot'[s] = slot[s] /\ slot[s] # c
  PROVE  ExclusionCore'
<1>1. /\ call'[c].step = "idle" /\ call'[c].kind = "apply"
      /\ OthersSame(c)
      /\ consent' = consent \ {c}
  BY EndEffect DEF ExclusionInv, Abort
<1>2. StepFitsKind'
  BY <1>1 DEF ExclusionInv, StepFitsKind, OthersSame, MutationSteps, Mutating
<1>3. SlotNamesWaiting'
  <2>1. SUFFICES ASSUME NEW s \in Slots, slot'[s] # NoCall
                 PROVE  (/\ call[slot[s]].step = "waiting"
                         /\ SlotOf(slot[s]) = s)'
    BY DEF SlotNamesWaiting
  <2>2. slot[s] # NoCall /\ slot'[s] = slot[s] /\ slot[s] \in Calls \ {c}
    BY <2>1 DEF ExclusionInv, TypeOK, SlotNamesWaiting
  <2>3. QED
    BY <1>1, <2>2 DEF ExclusionInv, SlotNamesWaiting, OthersSame, SlotOf
<1>4. WriterHeldByOneCall'
  BY <1>1 DEF ExclusionInv, TypeOK, Abort, EndWriter, WriterHeldByOneCall,
              HoldsWriter, Mutating, OthersSame
<1>5. PastApprovalHasConsent'
  BY <1>1 DEF ExclusionInv, PastApprovalHasConsent, OthersSame, MutationSteps
<1>6. QED
  BY <1>2, <1>3, <1>4, <1>5 DEF ExclusionCore

\* A call that ends and never took the writer.
LEMMA EndExclusion ==
  ASSUME ExclusionInv, NEW c \in Calls, End(c), ~Mutating(c),
         call[c].step # "waiting", UNCHANGED <<slot, writer>>
  PROVE  ExclusionCore'
<1>1. /\ call'[c].step = "idle" /\ call'[c].kind = "apply"
      /\ OthersSame(c)
      /\ consent' = consent \ {c}
  BY EndEffect DEF ExclusionInv
<1>2. StepFitsKind'
  BY <1>1 DEF ExclusionInv, StepFitsKind, OthersSame, MutationSteps, Mutating
<1>3. SlotNamesWaiting'
  <2>1. SUFFICES ASSUME NEW s \in Slots, slot'[s] # NoCall
                 PROVE  (/\ call[slot[s]].step = "waiting"
                         /\ SlotOf(slot[s]) = s)'
    BY DEF SlotNamesWaiting
  <2>2. slot[s] # NoCall /\ slot'[s] = slot[s] /\ slot[s] \in Calls \ {c}
    BY <2>1 DEF ExclusionInv, TypeOK, SlotNamesWaiting
  <2>3. QED
    BY <1>1, <2>2 DEF ExclusionInv, SlotNamesWaiting, OthersSame, SlotOf
<1>4. WriterHeldByOneCall'
  BY <1>1 DEF ExclusionInv, WriterHeldByOneCall, HoldsWriter, Mutating,
              OthersSame
<1>5. PastApprovalHasConsent'
  BY <1>1 DEF ExclusionInv, PastApprovalHasConsent, OthersSame, MutationSteps
<1>6. QED
  BY <1>2, <1>3, <1>4, <1>5 DEF ExclusionCore

\* A call that moves on and keeps its kind and its consent.
LEMMA MoveExclusion ==
  ASSUME ExclusionInv, NEW c \in Calls, OthersSame(c),
         call'[c].kind = call[c].kind, call'[c].gated = call[c].gated,
         call[c].step \notin {"idle", "waiting", "observing"},
         call'[c].step \notin {"idle", "observing"},
         call'[c].step \in MutationSteps => Mutating(c),
         call'[c].step # "fetching",
         call'[c].step \in MutationSteps \cup {"decided"} /\ call[c].gated
           => call[c].step \in MutationSteps \cup {"decided"},
         UNCHANGED <<writer, consent>>,
         \A s \in Slots : slot'[s] # NoCall =>
           IF slot'[s] = c THEN call'[c].step = "waiting" /\ SlotOf(c) = s
                           ELSE slot'[s] = slot[s]
  PROVE  ExclusionCore'
<1>1. StepFitsKind'
  BY DEF ExclusionInv, StepFitsKind, OthersSame, MutationSteps, Mutating
<1>2. SlotNamesWaiting'
  <2>1. SUFFICES ASSUME NEW s \in Slots, slot'[s] # NoCall
                 PROVE  (/\ call[slot[s]].step = "waiting"
                         /\ SlotOf(slot[s]) = s)'
    BY DEF SlotNamesWaiting
  <2>2. CASE slot'[s] = c
    BY <2>1, <2>2 DEF SlotOf
  <2>3. CASE slot'[s] # c
    <3>1. slot[s] # NoCall /\ slot'[s] = slot[s] /\ slot[s] \in Calls \ {c}
      BY <2>1, <2>3 DEF ExclusionInv, TypeOK
    <3>2. QED
      BY <3>1 DEF ExclusionInv, SlotNamesWaiting, OthersSame, SlotOf
  <2>4. QED
    BY <2>2, <2>3
<1>3. WriterHeldByOneCall'
  BY DEF ExclusionInv, WriterHeldByOneCall, HoldsWriter, Mutating, OthersSame
<1>4. PastApprovalHasConsent'
  BY DEF ExclusionInv, PastApprovalHasConsent, OthersSame
<1>5. QED
  BY <1>1, <1>2, <1>3, <1>4 DEF ExclusionCore

\* A call that begins: with the writer if it mutates, which was free.
LEMMA BeginExclusion ==
  ASSUME ExclusionInv, NEW c \in Calls, OthersSame(c),
         call[c].step = "idle",
         call'[c].step \in {"fetching", "validating", "observing"},
         call'[c].step = "observing" <=> call'[c].kind = "repair",
         call'[c].step = "fetching" <=> call'[c].kind \in {"apply", "rollback"},
         IF call'[c].step = "fetching"
         THEN writer = "none" /\ writer' = call'[c].kind
         ELSE writer' = writer,
         UNCHANGED <<slot, consent>>
  PROVE  ExclusionCore'
<1>1. StepFitsKind'
  BY DEF ExclusionInv, StepFitsKind, OthersSame, MutationSteps, Mutating
<1>2. SlotNamesWaiting'
  <2>1. SUFFICES ASSUME NEW s \in Slots, slot'[s] # NoCall
                 PROVE  (/\ call[slot[s]].step = "waiting"
                         /\ SlotOf(slot[s]) = s)'
    BY DEF SlotNamesWaiting
  <2>2. slot[s] # NoCall /\ slot'[s] = slot[s] /\ slot[s] \in Calls \ {c}
    BY <2>1 DEF ExclusionInv, TypeOK, SlotNamesWaiting
  <2>3. QED
    BY <2>2 DEF ExclusionInv, SlotNamesWaiting, OthersSame, SlotOf
<1>3. WriterHeldByOneCall'
  <2>1. \A d \in Calls \ {c} : HoldsWriter(d)' <=> HoldsWriter(d)
    BY DEF HoldsWriter, Mutating, OthersSame
  <2>2. HoldsWriter(c)' <=> call'[c].step = "fetching"
    BY DEF HoldsWriter, Mutating
  <2>3. ~HoldsWriter(c)
    BY DEF HoldsWriter
  <2>4. CASE call'[c].step = "fetching"
    <3>1. \A d \in Calls : ~HoldsWriter(d)
      BY <2>4 DEF ExclusionInv, WriterHeldByOneCall, HoldsWriter, Mutating
    <3>2. QED
      BY <2>1, <2>2, <2>4, <3>1 DEF WriterHeldByOneCall
  <2>5. CASE call'[c].step # "fetching"
    <3>1. \A d \in Calls : HoldsWriter(d)' => call'[d].kind = call[d].kind
      BY <2>2, <2>5 DEF OthersSame
    <3>2. \A d \in Calls : HoldsWriter(d)' <=> HoldsWriter(d)
      BY <2>1, <2>2, <2>3, <2>5
    <3>3. QED
      BY <2>5, <3>1, <3>2 DEF ExclusionInv, WriterHeldByOneCall
  <2>6. QED
    BY <2>4, <2>5
<1>4. PastApprovalHasConsent'
  BY DEF ExclusionInv, PastApprovalHasConsent, OthersSame, MutationSteps
<1>5. QED
  BY <1>1, <1>2, <1>3, <1>4 DEF ExclusionCore

\* The dev process starts, gets ready or stops.
LEMMA DevExclusion ==
  ASSUME ExclusionInv, DevStart \/ DevReady \/ DevStops
  PROVE  ExclusionCore'
<1>1. \A c \in Calls :
        /\ SameButStep(call'[c], call[c])
        /\ \/ call'[c].step = call[c].step
           \/ call[c].step \in MutationSteps /\ call'[c].step \in MutationSteps
  BY DevEffect DEF ExclusionInv
<1>2. UNCHANGED <<writer, slot, consent>>
  BY DEF DevStart, DevReady, DevStops
<1>3. StepFitsKind'
  BY <1>1 DEF ExclusionInv, StepFitsKind, MutationSteps, Mutating, SameButStep
<1>4. SlotNamesWaiting'
  BY <1>1, <1>2 DEF ExclusionInv, TypeOK, SlotNamesWaiting, SlotOf,
                    SameButStep, MutationSteps
<1>5. WriterHeldByOneCall'
  BY <1>1, <1>2 DEF ExclusionInv, WriterHeldByOneCall, HoldsWriter, Mutating,
                    SameButStep, MutationSteps
<1>6. PastApprovalHasConsent'
  BY <1>1, <1>2 DEF ExclusionInv, PastApprovalHasConsent, SameButStep
<1>7. QED
  BY <1>3, <1>4, <1>5, <1>6 DEF ExclusionCore

LEMMA ExclusionInit == Init => ExclusionInv
<1> SUFFICES ASSUME Init
             PROVE  ExclusionInv
  OBVIOUS
<1>1. \A c \in Calls : call[c].step = "idle" /\ call[c].kind = "apply"
  BY DEF Init, IdleCall
<1>2. QED
  BY <1>1, TypeInit
     DEF Init, ExclusionInv, StepFitsKind, SlotNamesWaiting,
         WriterHeldByOneCall, PastApprovalHasConsent, HoldsWriter, Mutating,
         MutationSteps

LEMMA RestartExclusion ==
  ASSUME FrameworkRestarts
  PROVE  ExclusionCore'
<1>1. \A c \in Calls : call'[c].step = "idle" /\ call'[c].kind = "apply"
  BY DEF FrameworkRestarts, IdleCall
<1>2. QED
  BY <1>1
     DEF FrameworkRestarts, ExclusionCore, StepFitsKind, SlotNamesWaiting,
         WriterHeldByOneCall, PastApprovalHasConsent, HoldsWriter, Mutating,
         MutationSteps

LEMMA BeginMutationEffect ==
  ASSUME TypeOK, NEW c \in Calls, BeginMutation(c)
  PROVE  /\ OthersSame(c)
         /\ call'[c].step = "fetching"
         /\ call'[c].kind \in {"apply", "rollback"}
         /\ ~call'[c].committed
         /\ writer' = call'[c].kind
<1>1. PICK kind \in {"apply", "rollback"}, gated \in BOOLEAN :
        \E goal :
          /\ writer' = kind
          /\ call' = [call EXCEPT ![c] =
               [IdleCall EXCEPT !.step = "fetching", !.kind = kind,
                                !.gated = gated, !.goal = goal]]
  BY Zenon DEF BeginMutation
<1>a. PICK goal :
      /\ writer' = kind
      /\ call' = [call EXCEPT ![c] =
           [IdleCall EXCEPT !.step = "fetching", !.kind = kind,
                            !.gated = gated, !.goal = goal]]
  BY <1>1
<1>2. /\ OthersSame(c)
      /\ call'[c] = [IdleCall EXCEPT !.step = "fetching", !.kind = kind,
                                     !.gated = gated, !.goal = goal]
  BY <1>a DEF TypeOK, OthersSame
<1>3. QED
  BY <1>a, <1>2, ZenonT(30) DEF IdleCall

LEMMA BeginPrepareEffect ==
  ASSUME TypeOK, NEW c \in Calls, BeginPrepare(c)
  PROVE  /\ OthersSame(c)
         /\ call'[c].step = "validating"
         /\ call'[c].kind = "prepare"
<1>1. PICK gated, goal :
        call' = [call EXCEPT ![c] =
          [IdleCall EXCEPT !.step = "validating", !.kind = "prepare",
                           !.gated = gated, !.goal = goal]]
  BY Zenon DEF BeginPrepare
<1>2. /\ OthersSame(c)
      /\ call'[c] = [IdleCall EXCEPT !.step = "validating", !.kind = "prepare",
                                     !.gated = gated, !.goal = goal]
  BY <1>1 DEF TypeOK, OthersSame
<1>3. QED
  BY <1>2 DEF IdleCall

LEMMA BeginRepairEffect ==
  ASSUME TypeOK, NEW c \in Calls, BeginRepair(c)
  PROVE  /\ OthersSame(c)
         /\ call'[c].step = "observing"
         /\ call'[c].kind = "repair"
         /\ call'[c].before = guard.lkg
<1>1. /\ OthersSame(c)
      /\ call'[c] = [IdleCall EXCEPT !.step = "observing", !.kind = "repair",
                                     !.before = guard.lkg]
  BY DEF BeginRepair, TypeOK, OthersSame
<1>2. QED
  BY <1>1 DEF IdleCall

LEMMA FetchBeforeEffect ==
  ASSUME TypeOK, NEW c \in Calls, FetchBefore(c)
  PROVE  /\ OthersSame(c)
         /\ call'[c].step \in {"validating", "asking", "decided"}
         /\ call'[c].step = "decided" => ~call[c].gated
         /\ call'[c].kind = call[c].kind
         /\ call'[c].gated = call[c].gated
         /\ call'[c].before = served
         /\ call'[c].committed = call[c].committed
<1>1. call[c] \in Call
  BY DEF TypeOK
<1>2. PICK s \in {"validating", "asking", "decided"} :
        /\ s = "decided" => ~call[c].gated
        /\ call' = [call EXCEPT ![c].before = served, ![c].step = s]
  BY <1>1 DEF FetchBefore, Call
<1>3. /\ OthersSame(c)
      /\ call'[c] = [call[c] EXCEPT !.before = served, !.step = s]
  BY <1>2 DEF TypeOK, OthersSame
<1>4. QED
  BY <1>1, <1>2, <1>3, ZenonT(30) DEF Call

LEMMA ValidateEffect ==
  ASSUME TypeOK, NEW c \in Calls, Validate(c)
  PROVE  /\ OthersSame(c)
         /\ call'[c].step \in {"asking", "decided"}
         /\ call'[c].step = "decided" => ~call[c].gated
         /\ call'[c].kind = call[c].kind
         /\ call'[c].gated = call[c].gated
         /\ call'[c].before = call[c].before
         /\ call'[c].committed = call[c].committed
<1>1. call[c] \in Call
  BY DEF TypeOK
<1> DEFINE s == IF call[c].gated THEN "asking" ELSE "decided"
           d == overlay \ call[c].goal
<1>2. /\ s \in {"asking", "decided"}
      /\ s = "decided" => ~call[c].gated
      /\ call' = [call EXCEPT ![c].removed = d, ![c].step = s]
  BY <1>1 DEF Validate, Call
<1> HIDE DEF s, d
<1>3. /\ OthersSame(c)
      /\ call'[c] = [call[c] EXCEPT !.removed = d, !.step = s]
  BY <1>2 DEF TypeOK, OthersSame
<1>4. QED
  BY <1>1, <1>2, <1>3, ZenonT(30) DEF Call

LEMMA CommitEffect ==
  ASSUME TypeOK, NEW c \in Calls, Commit(c)
  PROVE  /\ OthersSame(c)
         /\ call'[c].committed
         /\ call'[c].step = "posting"
         /\ call'[c].kind = call[c].kind
         /\ call'[c].gated = call[c].gated
<1>1. call[c] \in Call
  BY DEF TypeOK
<1>2. /\ OthersSame(c)
      /\ call'[c] = [call[c] EXCEPT !.committed = TRUE]
      /\ call[c].step = "posting"
  BY DEF Commit, TypeOK, OthersSame
<1>3. QED
  BY <1>1, <1>2 DEF Call

LEMMA ExclusionNext == ExclusionInv /\ [Next]_vars => ExclusionInv'
<1> SUFFICES ASSUME ExclusionInv, [Next]_vars
             PROVE  ExclusionInv'
  OBVIOUS
<1>t. TypeOK
  BY DEF ExclusionInv
<1>w. \A c \in Calls : call[c].step # "waiting" =>
        \A s \in Slots : slot[s] # NoCall => slot[s] # c
  BY DEF ExclusionInv, SlotNamesWaiting
<1>1. ASSUME NEW c \in Calls, BeginMutation(c)
      PROVE  ExclusionCore'
  BY <1>1, <1>t, BeginMutationEffect, BeginExclusion
     DEF BeginMutation, MayBegin
<1>2. ASSUME NEW c \in Calls, BeginPrepare(c)
      PROVE  ExclusionCore'
  BY <1>2, <1>t, BeginPrepareEffect, BeginExclusion DEF BeginPrepare
<1>3. ASSUME NEW c \in Calls, BeginRepair(c)
      PROVE  ExclusionCore'
  BY <1>3, <1>t, BeginRepairEffect, BeginExclusion DEF BeginRepair
<1>4. ASSUME NEW c \in Calls, FetchBefore(c)
      PROVE  ExclusionCore'
  BY <1>4, <1>t, <1>w, FetchBeforeEffect, MoveExclusion
     DEF FetchBefore, MutationSteps
<1>5. ASSUME NEW c \in Calls, Validate(c)
      PROVE  ExclusionCore'
  BY <1>5, <1>t, <1>w, ValidateEffect, MoveExclusion
     DEF Validate, MutationSteps
<1>6. ASSUME NEW c \in Calls,
             \/ PreparationFails(c) \/ Denied(c) \/ AuthorizationRefused(c)
             \/ PostFails(c) \/ HalfRolledBack(c) \/ RestartThrows(c)
             \/ Verified(c) \/ DirtyFail(c)
      PROVE  ExclusionCore'
  <2>1. /\ Abort(c)
        /\ call[c].step \notin {"idle", "waiting"}
        /\ slot' = slot
    BY <1>6 DEF PreparationFails, Denied, AuthorizationRefused, PostFails,
                HalfRolledBack, RestartThrows, Verified, DirtyFail
  <2>2. QED
    BY <2>1, <1>w, AbortExclusion
<1>7. ASSUME NEW c \in Calls, Ask(c)
      PROVE  ExclusionCore'
  <2>1. /\ call'[c].step = "waiting"
        /\ SameButStep(call'[c], call[c])
        /\ OthersSame(c)
    BY <1>7, <1>t, GotoEffect DEF Ask
  <2>2. \A s \in Slots : slot'[s] # NoCall =>
          IF slot'[s] = c THEN call'[c].step = "waiting" /\ SlotOf(c) = s
                          ELSE slot'[s] = slot[s]
    BY <1>7, <1>t, <1>w, <2>1 DEF Ask, TypeOK, Slots, SlotOf
  <2>3. QED
    BY <1>7, <2>1, <2>2, MoveExclusion DEF Ask, SameButStep, MutationSteps
<1>8. ASSUME NEW c \in Calls, AskFails(c)
      PROVE  ExclusionCore'
  <2>1. \A s \in Slots : slot'[s] # NoCall => slot'[s] = slot[s] /\ slot[s] # c
    BY <1>8, <1>t, <1>w DEF AskFails, TypeOK, Slots, SlotOf
  <2>2. QED
    BY <1>8, <2>1, AbortExclusion DEF AskFails
<1>9. ASSUME NEW c \in Calls, NEW d \in {"allow", "deny"}, Answer(c, d)
      PROVE  ExclusionCore'
  <2>1. /\ call'[c].step = IF d = "allow" THEN "decided" ELSE "denied"
        /\ SameButStep(call'[c], call[c])
        /\ OthersSame(c)
    BY <1>9, <1>t, GotoEffect DEF Answer
  <2>2. call[c].step = "waiting" /\ SlotOf(c) \in Slots
    BY <1>9, NoCallAssumption
       DEF Answer, ExclusionInv, SlotNamesWaiting, Slots, SlotOf
  <2>3. StepFitsKind'
    BY <2>1, <2>2 DEF ExclusionInv, StepFitsKind, OthersSame, SameButStep,
                      MutationSteps, Mutating
  <2>4. SlotNamesWaiting'
    <3>1. SUFFICES ASSUME NEW s \in Slots, slot'[s] # NoCall
                   PROVE  (/\ call[slot[s]].step = "waiting"
                           /\ SlotOf(slot[s]) = s)'
      BY DEF SlotNamesWaiting
    <3>2. s # SlotOf(c) /\ slot'[s] = slot[s]
      BY <1>9, <1>t, <2>2, <3>1 DEF Answer, TypeOK
    <3>3. slot[s] \in Calls \ {c}
      BY <1>t, <3>1, <3>2 DEF ExclusionInv, TypeOK, SlotNamesWaiting
    <3>4. QED
      BY <2>1, <3>1, <3>2, <3>3
         DEF ExclusionInv, SlotNamesWaiting, OthersSame, SlotOf
  <2>5. WriterHeldByOneCall'
    BY <1>9, <2>1, <2>2
       DEF Answer, ExclusionInv, WriterHeldByOneCall, HoldsWriter, Mutating,
           OthersSame, SameButStep
  <2>6. PastApprovalHasConsent'
    BY <1>9, <2>1 DEF Answer, ExclusionInv, PastApprovalHasConsent, OthersSame,
                      MutationSteps
  <2>7. QED
    BY <2>3, <2>4, <2>5, <2>6 DEF ExclusionCore
<1>10. ASSUME NEW c \in Calls,
              PrepareDone(c) \/ RepairClears(c) \/ RepairRefuses(c)
       PROVE  ExclusionCore'
  <2>1. /\ End(c)
        /\ ~Mutating(c)
        /\ call[c].step # "waiting"
        /\ UNCHANGED <<slot, writer>>
    BY <1>10 DEF PrepareDone, RepairClears, RepairRefuses, Mutating,
                 ExclusionInv, StepFitsKind
  <2>2. QED
    BY <2>1, EndExclusion
<1>11. ASSUME NEW c \in Calls, StartMutation(c) \/ Reply(c) \/ Restart(c)
       PROVE  ExclusionCore'
  <2>1. /\ call'[c].step \in MutationSteps
        /\ SameButStep(call'[c], call[c])
        /\ OthersSame(c)
    BY <1>11, <1>t, GotoEffect
       DEF StartMutation, Reply, Restart, MutationSteps
  <2>2. /\ Mutating(c)
        /\ call[c].step \in MutationSteps \cup {"decided"}
        /\ UNCHANGED <<writer, consent, slot>>
    BY <1>11 DEF StartMutation, Reply, Restart, ExclusionInv, StepFitsKind,
                 MutationSteps
  <2>3. QED
    BY <2>1, <2>2, <1>w, MoveExclusion DEF SameButStep, MutationSteps
<1>12. ASSUME NEW c \in Calls, Commit(c)
       PROVE  ExclusionCore'
  <2>1. Mutating(c) /\ call[c].step = "posting"
    BY <1>12 DEF Commit, ExclusionInv, StepFitsKind, MutationSteps
  <2>2. QED
    BY <1>12, <1>t, <1>w, <2>1, CommitEffect, MoveExclusion
       DEF Commit, MutationSteps
<1>13. ASSUME DevStart \/ DevReady \/ DevStops
       PROVE  ExclusionCore'
  BY <1>13, DevExclusion
<1>14. ASSUME FrameworkRestarts
       PROVE  ExclusionCore'
  BY <1>14, RestartExclusion
<1>15. ASSUME UNCHANGED vars
       PROVE  ExclusionCore'
  <2>1. StepFitsKind' /\ PastApprovalHasConsent'
    BY <1>15 DEF vars, ExclusionInv, StepFitsKind, PastApprovalHasConsent,
                 MutationSteps, Mutating
  <2>2. SlotNamesWaiting'
    BY <1>15 DEF vars, ExclusionInv, SlotNamesWaiting, SlotOf
  <2>3. WriterHeldByOneCall'
    BY <1>15 DEF vars, ExclusionInv, WriterHeldByOneCall, HoldsWriter, Mutating
  <2>4. QED
    BY <2>1, <2>2, <2>3 DEF ExclusionCore
<1>c. ASSUME NEW c \in Calls, CallStep(c)
      PROVE  ExclusionCore'
  BY <1>c, <1>4, <1>5, <1>6, <1>7, <1>8, <1>10, <1>11 DEF CallStep
<1>16. ExclusionCore'
  <2>1. ASSUME Next
        PROVE  ExclusionCore'
    BY <2>1, <1>1, <1>2, <1>3, <1>c, <1>9, <1>12, <1>13, <1>14, Zenon DEF Next
  <2>2. QED
    BY <2>1, <1>15
<1>17. QED
  BY <1>16, <1>t, TypeNext DEF ExclusionCore, ExclusionInv

\* One definition mutation at a time, and no end of a call leaves the writer
\* slot taken.
THEOREM OneWriter == Spec => []WriterHeldByOneCall
<1>1. ExclusionInv => WriterHeldByOneCall
  BY DEF ExclusionInv
<1>2. QED
  BY <1>1, ExclusionInit, ExclusionNext, PTL DEF Spec

\* No gated mutation starts without the builder's "allow" to its own prompt,
\* whatever other prompts shared the slot and whatever repliers do.
THEOREM ConsentedMutation == Spec => []MutationHasConsent
<1>1. ExclusionInv => MutationHasConsent
  BY DEF ExclusionInv, PastApprovalHasConsent, MutationHasConsent, InMutation,
         MutationSteps
<1>2. QED
  BY <1>1, ExclusionInit, ExclusionNext, PTL DEF Spec

-----------------------------------------------------------------------------
(* Live prompts, as long as nobody uses the public prepare: without it the *)
(* writer keeps every other call away from the approval slots.             *)

NoPrepare == \A c \in Calls : call[c].kind # "prepare"

\* A live prompt is that of a waiting call, which its slot names.
PromptsNamed == \A c \in live : call[c].step = "waiting" /\ slot[SlotOf(c)] = c

LiveInv == ExclusionInv /\ NoPrepare /\ PromptsNamed

LiveCore == NoPrepare /\ PromptsNamed

\* The call of a live prompt holds the writer, so that no other call does.
LEMMA LiveHoldsWriter ==
  ASSUME LiveInv, NEW c \in live
  PROVE  /\ c \in Calls /\ call[c].step = "waiting"
         /\ \A d \in Calls : HoldsWriter(d) => d = c
<1>1. c \in Calls /\ call[c].step = "waiting" /\ call[c] \in Call
  BY DEF LiveInv, PromptsNamed, ExclusionInv, TypeOK
<1>2. HoldsWriter(c)
  BY <1>1 DEF LiveInv, NoPrepare, ExclusionInv, StepFitsKind, HoldsWriter, Mutating,
              Call, AllKinds
<1>3. QED
  BY <1>1, <1>2 DEF LiveInv, ExclusionInv, WriterHeldByOneCall

\* A call that was not waiting moves, begins or ends, and leaves the prompts alone.
LEMMA OtherLive ==
  ASSUME LiveInv, NEW c \in Calls, OthersSame(c), call[c].step # "waiting",
         call'[c].kind # "prepare", UNCHANGED <<slot, live>>
  PROVE  LiveCore'
<1>1. NoPrepare'
  BY DEF LiveInv, NoPrepare, OthersSame
<1>2. PromptsNamed'
  <2>1. ASSUME NEW d \in live'
        PROVE  call'[d].step = "waiting" /\ (slot[SlotOf(d)] = d)'
    <3>1. d \in Calls \ {c} /\ call[d].step = "waiting" /\ slot[SlotOf(d)] = d
      BY <2>1 DEF LiveInv, PromptsNamed, ExclusionInv, TypeOK
    <3>2. QED
      BY <3>1 DEF OthersSame, SlotOf
  <2>2. QED
    BY <2>1 DEF PromptsNamed
<1>3. QED
  BY <1>1, <1>2 DEF LiveCore

\* A call at the approval: no prompt but its own is live.
LEMMA AloneAsking ==
  ASSUME LiveInv, NEW c \in Calls, call[c].step \in {"asking", "waiting"}
  PROVE  live \subseteq {c} /\ HoldsWriter(c)
<1>1. call[c] \in Call
  BY DEF LiveInv, ExclusionInv, TypeOK
<1>2. HoldsWriter(c)
  BY <1>1 DEF LiveInv, NoPrepare, ExclusionInv, StepFitsKind, HoldsWriter, Mutating,
              Call, AllKinds
<1>3. QED
  BY <1>2, LiveHoldsWriter

LEMMA LiveNext ==
  ASSUME "prepare" \notin Kinds, LiveInv, [Next]_vars
  PROVE  LiveCore'
<1>t. TypeOK /\ StepFitsKind
  BY DEF LiveInv, ExclusionInv
<1>k. \A c \in Calls : call[c].kind # "prepare"
  BY DEF LiveInv, NoPrepare
<1>1. ASSUME NEW c \in Calls, BeginMutation(c)
      PROVE  LiveCore'
  BY <1>1, <1>t, BeginMutationEffect, OtherLive DEF BeginMutation
<1>2. ASSUME NEW c \in Calls, BeginPrepare(c)
      PROVE  FALSE
  BY <1>2 DEF BeginPrepare
<1>3. ASSUME NEW c \in Calls, BeginRepair(c)
      PROVE  LiveCore'
  BY <1>3, <1>t, BeginRepairEffect, OtherLive DEF BeginRepair
<1>4. ASSUME NEW c \in Calls, FetchBefore(c)
      PROVE  LiveCore'
  BY <1>4, <1>t, <1>k, FetchBeforeEffect, OtherLive DEF FetchBefore
<1>5. ASSUME NEW c \in Calls, Validate(c)
      PROVE  LiveCore'
  BY <1>5, <1>t, <1>k, ValidateEffect, OtherLive DEF Validate
<1>6. ASSUME NEW c \in Calls,
             \/ PreparationFails(c) \/ Denied(c) \/ AuthorizationRefused(c)
             \/ PostFails(c) \/ HalfRolledBack(c) \/ RestartThrows(c)
             \/ Verified(c) \/ DirtyFail(c)
      PROVE  LiveCore'
  <2>1. End(c) /\ call[c].step # "waiting" /\ UNCHANGED <<slot, live>>
    BY <1>6 DEF PreparationFails, Denied, AuthorizationRefused, PostFails,
                HalfRolledBack, RestartThrows, Verified, DirtyFail, Abort
  <2>2. QED
    BY <2>1, <1>t, EndEffect, OtherLive
<1>7. ASSUME NEW c \in Calls, PrepareDone(c) \/ RepairClears(c) \/ RepairRefuses(c)
      PROVE  LiveCore'
  <2>1. End(c) /\ call[c].step # "waiting" /\ UNCHANGED <<slot, live>>
    BY <1>7 DEF PrepareDone, RepairClears, RepairRefuses
  <2>2. QED
    BY <2>1, <1>t, EndEffect, OtherLive
<1>8. ASSUME NEW c \in Calls, StartMutation(c) \/ Reply(c) \/ Restart(c)
      PROVE  LiveCore'
  <2>1. /\ call[c].step # "waiting" /\ UNCHANGED <<slot, live>>
        /\ \E s \in Step : Goto(c, s)
    BY <1>8 DEF StartMutation, Reply, Restart, Step
  <2>2. call'[c].kind # "prepare" /\ OthersSame(c)
    BY <2>1, <1>t, <1>k, GotoEffect DEF SameButStep
  <2>3. QED
    BY <2>1, <2>2, OtherLive
<1>9. ASSUME NEW c \in Calls, Commit(c)
      PROVE  LiveCore'
  BY <1>9, <1>t, <1>k, CommitEffect, OtherLive, ZenonT(30) DEF Commit
<1>10. ASSUME NEW c \in Calls, Ask(c)
       PROVE  LiveCore'
  <2>1. call'[c].step = "waiting" /\ SameButStep(call'[c], call[c]) /\ OthersSame(c)
    BY <1>10, <1>t, GotoEffect DEF Ask
  <2>2. live' = {c}
    BY <1>10, AloneAsking DEF Ask
  <2>3. (slot[SlotOf(c)] = c)'
    BY <1>10, <1>t, <2>1 DEF Ask, SlotOf, SameButStep, TypeOK, Slots
  <2>4. NoPrepare' /\ PromptsNamed'
    BY <1>k, <2>1, <2>2, <2>3 DEF NoPrepare, PromptsNamed, SameButStep, OthersSame
  <2>5. QED
    BY <2>4 DEF LiveCore
<1>11. ASSUME NEW c \in Calls, AskFails(c)
       PROVE  LiveCore'
  <2>1. call'[c].kind = "apply" /\ OthersSame(c) /\ live' = live
    BY <1>11, <1>t, EndEffect DEF AskFails, Abort
  <2>2. live' = {}
    BY <1>11, <2>1, AloneAsking, LiveHoldsWriter DEF AskFails
  <2>3. NoPrepare' /\ PromptsNamed'
    BY <1>k, <2>1, <2>2 DEF NoPrepare, PromptsNamed, OthersSame
  <2>4. QED
    BY <2>3 DEF LiveCore
<1>12. ASSUME NEW c \in Calls, NEW decision \in {"allow", "deny"}, Answer(c, decision)
       PROVE  LiveCore'
  <2>1. SlotOf(c) \in Slots /\ slot[SlotOf(c)] # NoCall
    BY <1>12 DEF SlotOf, Slots, Answer
  <2>2. call[c].step = "waiting"
    BY <1>12, <2>1 DEF LiveInv, ExclusionInv, SlotNamesWaiting, Answer
  <2>3. live' = {}
    BY <1>12, <2>2, AloneAsking DEF Answer
  <2>4. call'[c].kind # "prepare" /\ OthersSame(c)
    BY <1>12, <1>t, <1>k, GotoEffect DEF Answer, SameButStep
  <2>5. NoPrepare' /\ PromptsNamed'
    BY <1>k, <2>3, <2>4 DEF NoPrepare, PromptsNamed, OthersSame
  <2>6. QED
    BY <2>5 DEF LiveCore
<1>13. ASSUME DevStart \/ DevReady \/ DevStops
       PROVE  LiveCore'
  <2>1. \A c \in Calls :
          /\ SameButStep(call'[c], call[c])
          /\ call[c].step = "waiting" => call'[c].step = "waiting"
    BY <1>13, <1>t, DevEffect DEF MutationSteps
  <2>2. UNCHANGED <<slot, live>> /\ live \subseteq Calls
    BY <1>13, <1>t DEF DevStart, DevReady, DevStops, TypeOK
  <2>3. NoPrepare'
    BY <1>k, <2>1 DEF NoPrepare, SameButStep
  <2>4. PromptsNamed'
    BY <2>1, <2>2 DEF LiveInv, PromptsNamed, SlotOf, SameButStep
  <2>5. QED
    BY <2>3, <2>4 DEF LiveCore
<1>14. ASSUME FrameworkRestarts
       PROVE  LiveCore'
  BY <1>14 DEF FrameworkRestarts, IdleCall, LiveCore, NoPrepare, PromptsNamed
<1>15. ASSUME UNCHANGED vars
       PROVE  LiveCore'
  BY <1>15 DEF vars, LiveInv, LiveCore, NoPrepare, PromptsNamed, SlotOf
<1>c. ASSUME NEW c \in Calls, CallStep(c)
      PROVE  LiveCore'
  BY <1>c, <1>4, <1>5, <1>6, <1>7, <1>8, <1>10, <1>11 DEF CallStep
<1>16. CASE Next
  BY <1>16, <1>1, <1>2, <1>3, <1>c, <1>9, <1>12, <1>13, <1>14, Zenon DEF Next
<1>17. QED
  BY <1>15, <1>16

\* Every live prompt can be answered, for any number of calls, as long as the
\* tool definition.rollback.prepare is not used beside the others.
THEOREM PromptsAnswerable ==
  ASSUME "prepare" \notin Kinds
  PROVE  Spec => []LivePromptsAnswerable
<1>1. Init => LiveInv
  BY ExclusionInit DEF Init, IdleCall, LiveInv, NoPrepare, PromptsNamed
<1>2. LiveInv /\ [Next]_vars => LiveInv'
  BY ExclusionNext, LiveNext DEF LiveInv, LiveCore
<1>3. LiveInv => LivePromptsAnswerable
  BY DEF LiveInv, PromptsNamed, LivePromptsAnswerable
<1>4. QED
  BY <1>1, <1>2, <1>3, PTL DEF Spec

=============================================================================
