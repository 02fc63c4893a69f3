-------------------- MODULE DefinitionMutationGuardProofs --------------------
(***************************************************************************)
(* What the durable guard of DefinitionMutation is worth: it covers every  *)
(* mutation, a clean definition is the trusted one, and the whole          *)
(* implements GovernedDefinition.  The theorems assume what the code needs *)
(* for them: that no two repairs run at once and, for the last three, that *)
(* no failing POST has changed the definition.                             *)
(***************************************************************************)
EXTENDS DefinitionMutationProofs

USE KindsAssumption, RepairersAssumption, DirtyPostsAssumption, NoCallAssumption,
    NoSummaryAssumption

-----------------------------------------------------------------------------
(* The inductive invariant, in the parts the theorems need                 *)

SingleRepairer == \A c, d \in Repairers : c = d

\* Between taking the writer and the guard, there is no guard.
UnguardedBeforeMutation ==
  \A c \in Calls : HoldsWriter(c) /\ ~InMutation(c) => guard.status = "none"

\* A repair in progress has captured the summary of the guard that is there.
RepairSeesGuard ==
  \A c \in Calls : call[c].step = "observing" =>
    /\ c \in Repairers
    /\ guard.status = "dirty"
    /\ call[c].before = guard.lkg

GuardInv ==
  ExclusionInv /\ GuardCoversMutation /\ UnguardedBeforeMutation
               /\ RepairSeesGuard

\* Until a mutation commits, the stored definition is the trusted one; a
\* dropped POST has not committed.
UncommittedKeepsTrusted ==
  \A c \in Calls : InMutation(c) =>
    /\ ~call[c].committed => overlay = trusted
    /\ call[c].step = "dropped" => ~call[c].committed

\* The last-good summary of a guard is the trusted definition.
LastGoodIsTrusted ==
  guard.status # "none" => guard.lkg \in {trusted, NoSummary}

\* A mutation that has fetched the definition before it changes anything has
\* fetched the trusted one.
BeforeIsTrusted ==
  \A c \in Calls :
    HoldsWriter(c) /\ ~InMutation(c) /\ call[c].step # "fetching"
      => call[c].before = trusted

\* A dev process that is ready serves what is stored, except between a commit
\* and the restart that follows it.
Stale(c) ==
  InMutation(c) /\ call[c].committed /\ call[c].step \in {"posting", "stopping"}

ServedIsStored ==
  dev = "ready" => served = overlay \/ \E c \in Calls : Stale(c)

TrustInv ==
  GuardInv /\ CleanMeansTrusted /\ UncommittedKeepsTrusted
           /\ LastGoodIsTrusted /\ BeforeIsTrusted /\ ServedIsStored

-----------------------------------------------------------------------------
(* The guard covers the mutation, when at most one call runs repairs       *)

GuardCore == GuardCoversMutation /\ UnguardedBeforeMutation /\ RepairSeesGuard

\* The guard stays as it is and no call enters a mutation or a repair.
LEMMA SameGuard ==
  ASSUME GuardInv, guard' = guard,
         ASSUME NEW d \in Calls
         PROVE  /\ InMutation(d)' => InMutation(d)
                /\ HoldsWriter(d)' /\ ~InMutation(d)'
                     => \/ HoldsWriter(d) /\ ~InMutation(d)
                        \/ guard.status = "none"
                /\ call'[d].step = "observing"
                     => /\ call[d].step = "observing"
                        /\ call'[d].before = call[d].before
  PROVE  GuardCore'
<1>1. GuardCoversMutation'
  BY DEF GuardInv, GuardCoversMutation
<1>2. UnguardedBeforeMutation'
  BY DEF GuardInv, UnguardedBeforeMutation
<1>3. RepairSeesGuard'
  BY DEF GuardInv, RepairSeesGuard
<1>4. QED
  BY <1>1, <1>2, <1>3 DEF GuardCore

\* No call holds the writer any more and none observes for a repair.
LEMMA NobodyGuarded ==
  ASSUME ASSUME NEW d \in Calls
         PROVE  ~HoldsWriter(d)' /\ call'[d].step # "observing"
  PROVE  GuardCore'
<1>1. \A d \in Calls : ~InMutation(d)'
  BY DEF HoldsWriter, InMutation
<1>2. QED
  BY <1>1 DEF GuardCore, GuardCoversMutation, UnguardedBeforeMutation,
              RepairSeesGuard

LEMMA GuardInit == Init => GuardInv
<1> SUFFICES ASSUME Init
             PROVE  GuardInv
  OBVIOUS
<1>1. \A c \in Calls : call[c].step = "idle"
  BY DEF Init, IdleCall
<1>2. QED
  BY <1>1, ExclusionInit
     DEF GuardInv, GuardCoversMutation, UnguardedBeforeMutation,
         RepairSeesGuard, HoldsWriter, InMutation

\* The call that holds the writer is the only one, and while it mutates or a
\* repair observes nobody does the other.
LEMMA GuardFacts ==
  ASSUME GuardInv
  PROVE  /\ \A c, d \in Calls : HoldsWriter(c) /\ HoldsWriter(d) => c = d
         /\ \A c, d \in Calls : call[c].step = "observing" => ~HoldsWriter(d)
         /\ \A c \in Calls : InMutation(c) => HoldsWriter(c)
         /\ \A c \in Calls : call[c].step \in MutationSteps <=> InMutation(c)
<1>1. \A c, d \in Calls : HoldsWriter(c) /\ HoldsWriter(d) => c = d
  BY DEF GuardInv, ExclusionInv, WriterHeldByOneCall
<1>2. \A c \in Calls : InMutation(c) => HoldsWriter(c)
  BY DEF InMutation, HoldsWriter
<1>3. \A c, d \in Calls : call[c].step = "observing" => ~HoldsWriter(d)
  BY DEF GuardInv, RepairSeesGuard, GuardCoversMutation,
         UnguardedBeforeMutation
<1>4. \A c \in Calls : call[c].step \in MutationSteps <=> InMutation(c)
  BY DEF GuardInv, ExclusionInv, StepFitsKind, InMutation, MutationSteps
<1>5. QED
  BY <1>1, <1>2, <1>3, <1>4

\* Any step of one call that keeps the guard, its kind and its place inside
\* or outside the mutation.
LEMMA MoveGuard ==
  ASSUME GuardInv, guard' = guard, NEW c \in Calls, OthersSame(c),
         call'[c].step # "observing",
         \/ call'[c].step = "idle"
         \/ /\ call'[c].kind = call[c].kind
            /\ call[c].step # "idle"
            /\ InMutation(c)' <=> InMutation(c)
         \/ /\ guard.status = "none"
            /\ ~InMutation(c)'
         \/ call'[c].kind = "prepare"
  PROVE  GuardCore'
<1>1. ASSUME NEW d \in Calls \ {c}
      PROVE  /\ InMutation(d)' <=> InMutation(d)
             /\ HoldsWriter(d)' <=> HoldsWriter(d)
             /\ call'[d].step = call[d].step
             /\ call'[d].before = call[d].before
  BY DEF OthersSame, InMutation, HoldsWriter, Mutating
<1>2. /\ InMutation(c)' => InMutation(c)
      /\ HoldsWriter(c)' /\ ~InMutation(c)'
           => \/ HoldsWriter(c) /\ ~InMutation(c)
              \/ guard.status = "none"
  BY DEF InMutation, HoldsWriter, Mutating
<1>3. ASSUME NEW d \in Calls
      PROVE  /\ InMutation(d)' => InMutation(d)
             /\ HoldsWriter(d)' /\ ~InMutation(d)'
                  => \/ HoldsWriter(d) /\ ~InMutation(d)
                     \/ guard.status = "none"
             /\ call'[d].step = "observing"
                  => /\ call[d].step = "observing"
                     /\ call'[d].before = call[d].before
  <2>1. CASE d = c
    BY <2>1, <1>2
  <2>2. CASE d # c
    BY <2>2, <1>1
  <2>3. QED
    BY <2>1, <2>2
<1>4. QED
  BY <1>3, SameGuard

\* The actions that end a mutation or a repair, whatever they do to the guard.
EndsGuarded(c) ==
  \/ PostFails(c) \/ HalfRolledBack(c) \/ RestartThrows(c) \/ Verified(c)
  \/ DirtyFail(c) \/ RepairClears(c) \/ RepairRefuses(c)

\* After one of them nobody mutates or observes: the mutation was the only
\* one, and so, with a single repairer, was the repair.
LEMMA EndsGuardedEffect ==
  ASSUME SingleRepairer, GuardInv, NEW c \in Calls, EndsGuarded(c)
  PROVE  \A d \in Calls : ~HoldsWriter(d)' /\ call'[d].step # "observing"
<1>1. InMutation(c) \/ call[c].step = "observing"
  BY GuardFacts DEF EndsGuarded, PostFails, HalfRolledBack, RestartThrows,
                    Verified, DirtyFail, RepairClears, RepairRefuses,
                    MutationSteps
<1>2. End(c)
  BY DEF EndsGuarded, PostFails, HalfRolledBack, RestartThrows, Verified,
         DirtyFail, Abort, RepairClears, RepairRefuses
<1>3. call'[c].step = "idle" /\ OthersSame(c)
  BY <1>2, EndEffect DEF GuardInv, ExclusionInv
<1>4. ASSUME NEW d \in Calls \ {c}
      PROVE  ~HoldsWriter(d) /\ call[d].step # "observing"
  <2>1. CASE InMutation(c)
    BY <2>1, GuardFacts
  <2>2. CASE call[c].step = "observing"
    BY <2>2, GuardFacts DEF GuardInv, RepairSeesGuard, SingleRepairer
  <2>3. QED
    BY <1>1, <2>1, <2>2
<1>5. QED
  BY <1>3, <1>4 DEF OthersSame, HoldsWriter, Mutating

LEMMA GuardNext ==
  ASSUME SingleRepairer
  PROVE  GuardInv /\ [Next]_vars => GuardInv'
<1> SUFFICES ASSUME GuardInv, [Next]_vars
             PROVE  GuardInv'
  OBVIOUS
<1>e. ExclusionInv /\ TypeOK
  BY DEF GuardInv, ExclusionInv
<1>1. ASSUME NEW c \in Calls, BeginMutation(c)
      PROVE  GuardCore'
  <2>1. ~InMutation(c)'
    BY <1>1, <1>e, BeginMutationEffect DEF InMutation
  <2>2. QED
    BY <1>1, <1>e, <2>1, BeginMutationEffect, MoveGuard
       DEF BeginMutation, MayBegin
<1>2. ASSUME NEW c \in Calls, BeginPrepare(c)
      PROVE  GuardCore'
  BY <1>2, <1>e, BeginPrepareEffect, MoveGuard DEF BeginPrepare
<1>3. ASSUME NEW c \in Calls, BeginRepair(c)
      PROVE  GuardCore'
  <2>1. /\ OthersSame(c)
        /\ call'[c].step = "observing" /\ call'[c].kind = "repair"
        /\ call'[c].before = guard.lkg
        /\ c \in Repairers
        /\ guard.status = "dirty" /\ guard' = guard
    BY <1>3, <1>e, BeginRepairEffect DEF BeginRepair
  <2>2. \A d \in Calls : ~HoldsWriter(d)'
    <3>1. \A d \in Calls : ~HoldsWriter(d)
      BY <2>1 DEF GuardInv, GuardCoversMutation, UnguardedBeforeMutation
    <3>2. QED
      BY <2>1, <3>1 DEF OthersSame, HoldsWriter, Mutating
  <2>3. \A d \in Calls : ~InMutation(d)'
    BY <2>2 DEF HoldsWriter, InMutation
  <2>4. RepairSeesGuard'
    BY <2>1 DEF GuardInv, RepairSeesGuard, OthersSame
  <2>5. QED
    BY <2>2, <2>3, <2>4
       DEF GuardCore, GuardCoversMutation, UnguardedBeforeMutation
<1>4. ASSUME NEW c \in Calls, FetchBefore(c)
      PROVE  GuardCore'
  <2>1. ~InMutation(c) /\ ~InMutation(c)'
    BY <1>4, <1>e, FetchBeforeEffect DEF FetchBefore, InMutation
  <2>2. QED
    BY <1>4, <1>e, <2>1, FetchBeforeEffect, MoveGuard DEF FetchBefore
<1>5. ASSUME NEW c \in Calls, Validate(c)
      PROVE  GuardCore'
  <2>1. ~InMutation(c) /\ ~InMutation(c)'
    BY <1>5, <1>e, ValidateEffect DEF Validate, InMutation
  <2>2. QED
    BY <1>5, <1>e, <2>1, ValidateEffect, MoveGuard DEF Validate
<1>6. ASSUME NEW c \in Calls,
             \/ PreparationFails(c) \/ Denied(c) \/ AuthorizationRefused(c)
             \/ AskFails(c) \/ PrepareDone(c)
      PROVE  GuardCore'
  <2>1. End(c) /\ guard' = guard
    BY <1>6 DEF PreparationFails, Denied, AuthorizationRefused, AskFails,
                PrepareDone, Abort
  <2>2. call'[c].step = "idle" /\ OthersSame(c)
    BY <2>1, <1>e, EndEffect
  <2>3. QED
    BY <2>1, <2>2, MoveGuard
<1>7. ASSUME NEW c \in Calls, Ask(c)
      PROVE  GuardCore'
  <2>1. /\ call'[c].step = "waiting"
        /\ SameButStep(call'[c], call[c])
        /\ OthersSame(c)
    BY <1>7, <1>e, GotoEffect DEF Ask
  <2>2. ~InMutation(c) /\ ~InMutation(c)'
    BY <1>7, <2>1 DEF Ask, InMutation
  <2>3. QED
    BY <1>7, <2>1, <2>2, MoveGuard DEF Ask, SameButStep
<1>8. ASSUME NEW c \in Calls, NEW d \in {"allow", "deny"}, Answer(c, d)
      PROVE  GuardCore'
  <2>1. /\ call'[c].step = IF d = "allow" THEN "decided" ELSE "denied"
        /\ SameButStep(call'[c], call[c])
        /\ OthersSame(c)
    BY <1>8, <1>e, GotoEffect DEF Answer
  <2>2. call[c].step = "waiting"
    BY <1>8, <1>e DEF Answer, ExclusionInv, SlotNamesWaiting, Slots, SlotOf
  <2>3. ~InMutation(c) /\ ~InMutation(c)'
    BY <2>1, <2>2 DEF InMutation
  <2>4. QED
    BY <1>8, <2>1, <2>2, <2>3, MoveGuard DEF Answer, SameButStep
<1>9. ASSUME NEW c \in Calls, StartMutation(c)
      PROVE  GuardCore'
  <2>1. /\ call'[c].step = "posting"
        /\ SameButStep(call'[c], call[c])
        /\ OthersSame(c)
        /\ guard'.status = "running"
    BY <1>9, <1>e, GotoEffect DEF StartMutation
  <2>2. HoldsWriter(c)
    BY <1>9 DEF StartMutation, HoldsWriter
  <2>3. \A d \in Calls \ {c} : ~HoldsWriter(d) /\ ~HoldsWriter(d)'
    BY <2>1, <2>2, GuardFacts DEF OthersSame, HoldsWriter, Mutating
  <2>4. \A d \in Calls : call'[d].step # "observing"
    BY <2>1, <2>2, GuardFacts DEF OthersSame
  <2>5. InMutation(c)'
    BY <2>1, <1>9 DEF StartMutation, InMutation, Mutating, SameButStep
  <2>6. GuardCoversMutation'
    BY <2>1 DEF GuardCoversMutation
  <2>7. UnguardedBeforeMutation'
    BY <2>3, <2>5 DEF UnguardedBeforeMutation
  <2>8. RepairSeesGuard'
    BY <2>4 DEF RepairSeesGuard
  <2>9. QED
    BY <2>6, <2>7, <2>8 DEF GuardCore
<1>10. ASSUME NEW c \in Calls, Commit(c)
       PROVE  GuardCore'
  <2>1. InMutation(c)' <=> InMutation(c)
    BY <1>10, <1>e, CommitEffect DEF Commit, InMutation, Mutating
  <2>2. QED
    BY <1>10, <1>e, <2>1, CommitEffect, MoveGuard DEF Commit
<1>11. ASSUME NEW c \in Calls, Reply(c) \/ Restart(c)
       PROVE  GuardCore'
  <2>1. /\ call[c].step \in {"posting", "stopping"}
        /\ call'[c].step \in {"stopping", "restarting"}
        /\ SameButStep(call'[c], call[c])
        /\ OthersSame(c)
        /\ guard' = guard
    BY <1>11, <1>e, GotoEffect DEF Reply, Restart
  <2>2. InMutation(c)' <=> InMutation(c)
    BY <2>1 DEF InMutation, Mutating, SameButStep
  <2>3. QED
    BY <2>1, <2>2, MoveGuard DEF SameButStep
<1>12. ASSUME NEW c \in Calls, EndsGuarded(c)
       PROVE  GuardCore'
  BY <1>12, EndsGuardedEffect, NobodyGuarded
<1>13. ASSUME DevStart \/ DevReady \/ DevStops
       PROVE  GuardCore'
  <2>1. guard' = guard
    BY <1>13 DEF DevStart, DevReady, DevStops
  <2>2. ASSUME NEW d \in Calls
        PROVE  /\ SameButStep(call'[d], call[d])
               /\ \/ call'[d].step = call[d].step
                  \/ /\ call[d].step \in MutationSteps
                     /\ call'[d].step \in MutationSteps
    BY <1>13, <1>e, DevEffect DEF ExclusionInv
  <2>3. ASSUME NEW d \in Calls
        PROVE  /\ InMutation(d)' <=> InMutation(d)
               /\ HoldsWriter(d)' <=> HoldsWriter(d)
               /\ call'[d].step = "observing" <=> call[d].step = "observing"
               /\ call'[d].before = call[d].before
    BY <2>2 DEF InMutation, HoldsWriter, Mutating, SameButStep, MutationSteps
  <2>4. QED
    BY <2>1, <2>3, SameGuard
<1>14. ASSUME FrameworkRestarts
       PROVE  GuardCore'
  <2>1. \A d \in Calls : call'[d].step = "idle"
    BY <1>14 DEF FrameworkRestarts, IdleCall
  <2>2. QED
    BY <2>1, NobodyGuarded DEF HoldsWriter
<1>15. ASSUME UNCHANGED vars
       PROVE  GuardCore'
  <2>1. ASSUME NEW d \in Calls
        PROVE  /\ InMutation(d)' <=> InMutation(d)
               /\ HoldsWriter(d)' <=> HoldsWriter(d)
    BY <1>15 DEF vars, InMutation, HoldsWriter, Mutating
  <2>2. QED
    BY <1>15, <2>1, SameGuard DEF vars
<1>c. ASSUME NEW c \in Calls, CallStep(c)
      PROVE  GuardCore'
  BY <1>c, <1>4, <1>5, <1>6, <1>7, <1>9, <1>11, <1>12 DEF CallStep, EndsGuarded
<1>16. GuardCore'
  <2>1. ASSUME Next
        PROVE  GuardCore'
    BY <2>1, <1>1, <1>2, <1>3, <1>c, <1>8, <1>10, <1>13, <1>14, Zenon DEF Next
  <2>2. QED
    BY <2>1, <1>15
<1>17. QED
  BY <1>16, <1>e, ExclusionNext DEF GuardCore, GuardInv

\* While a definition may differ from the one last declared clean, the durable
\* guard says so, if no two repairs run at once.
THEOREM GuardedMutation ==
  ASSUME SingleRepairer
  PROVE  Spec => []GuardCoversMutation
<1>1. GuardInv => GuardCoversMutation
  BY DEF GuardInv
<1>2. QED
  BY <1>1, GuardInit, GuardNext, PTL DEF Spec

-----------------------------------------------------------------------------
(* Clean means trusted, when failed POSTs change nothing                   *)

TrustCore ==
  /\ CleanMeansTrusted
  /\ UncommittedKeepsTrusted
  /\ LastGoodIsTrusted
  /\ BeforeIsTrusted
  /\ ServedIsStored

LEMMA TrustInit == Init => TrustInv
<1> SUFFICES ASSUME Init
             PROVE  TrustInv
  OBVIOUS
<1>1. \A c \in Calls : call[c].step = "idle"
  BY DEF Init, IdleCall
<1>2. QED
  BY <1>1, GuardInit
     DEF Init, NoGuard, TrustInv, CleanMeansTrusted, UncommittedKeepsTrusted,
         LastGoodIsTrusted, BeforeIsTrusted, ServedIsStored, HoldsWriter,
         InMutation

\* A step of one call that touches neither the guard nor the runtime.
LEMMA MoveTrust ==
  ASSUME TrustInv, NEW c \in Calls, OthersSame(c),
         UNCHANGED <<guard, overlay, trusted, served, dev>>,
         InMutation(c)' => /\ InMutation(c)
                           /\ call'[c].committed = call[c].committed
                           /\ call'[c].step # "dropped",
         Stale(c) => Stale(c)',
         HoldsWriter(c)' /\ ~InMutation(c)' /\ call'[c].step # "fetching"
           => call'[c].before = trusted
  PROVE  TrustCore'
<1>1. ASSUME NEW d \in Calls \ {c}
      PROVE  /\ InMutation(d)' <=> InMutation(d)
             /\ HoldsWriter(d)' <=> HoldsWriter(d)
             /\ Stale(d)' <=> Stale(d)
             /\ call'[d] = call[d]
  BY DEF OthersSame, InMutation, HoldsWriter, Stale, Mutating
<1>2. CleanMeansTrusted' /\ LastGoodIsTrusted'
  BY DEF TrustInv, CleanMeansTrusted, LastGoodIsTrusted
<1>3. UncommittedKeepsTrusted'
  <2>1. SUFFICES ASSUME NEW d \in Calls, InMutation(d)'
                 PROVE  /\ ~call'[d].committed => overlay' = trusted'
                        /\ call'[d].step = "dropped" => ~call'[d].committed
    BY DEF UncommittedKeepsTrusted
  <2>2. CASE d = c
    BY <2>1, <2>2 DEF TrustInv, UncommittedKeepsTrusted
  <2>3. CASE d # c
    BY <1>1, <2>1, <2>3 DEF TrustInv, UncommittedKeepsTrusted
  <2>4. QED
    BY <2>2, <2>3
<1>4. BeforeIsTrusted'
  BY <1>1 DEF TrustInv, BeforeIsTrusted
<1>5. ServedIsStored'
  BY <1>1 DEF TrustInv, ServedIsStored
<1>6. QED
  BY <1>2, <1>3, <1>4, <1>5 DEF TrustCore

\* Nobody holds the writer after the step, which is where only these are left
\* to show.
LEMMA NobodyTrust ==
  ASSUME \A d \in Calls : ~HoldsWriter(d)',
         CleanMeansTrusted', LastGoodIsTrusted',
         dev' = "ready" => served' = overlay'
  PROVE  TrustCore'
<1>1. \A d \in Calls : ~InMutation(d)'
  BY DEF HoldsWriter, InMutation
<1>2. QED
  BY <1>1 DEF TrustCore, UncommittedKeepsTrusted, BeforeIsTrusted,
              ServedIsStored

\* Outside a mutation the dev process serves what is stored.
LEMMA ServedOutsideMutation ==
  ASSUME TrustInv, dev = "ready", \A d \in Calls : ~InMutation(d)
  PROVE  served = overlay
  BY DEF TrustInv, ServedIsStored, Stale

\* A mutation whose POST failed has committed nothing, when none may.
LEMMA FailedPostKeepsTrusted ==
  ASSUME TrustInv, ~DirtyPosts, NEW c \in Calls, PostFails(c)
  PROVE  overlay = trusted /\ ~call[c].committed /\ guard.status = "running"
<1>1. TypeOK
  BY DEF TrustInv, GuardInv, ExclusionInv
<1>2. InMutation(c)
  BY GuardFacts DEF TrustInv, PostFails, MutationSteps
<1>3. ~call[c].committed
  BY <1>2 DEF TrustInv, UncommittedKeepsTrusted, PostFails
<1>4. QED
  BY <1>2, <1>3 DEF TrustInv, UncommittedKeepsTrusted, GuardInv,
                    GuardCoversMutation

LEMMA MarkDirtyEffect ==
  ASSUME TypeOK, MarkDirty
  PROVE  /\ guard.status # "none" => guard'.status = "dirty"
         /\ guard'.lkg = guard.lkg
  BY DEF TypeOK, Guard, MarkDirty

\* Ending a mutation or a repair leaves the stored definition trusted when it
\* leaves no guard.
LEMMA EndsTrusted ==
  ASSUME SingleRepairer, ~DirtyPosts, TrustInv, NEW c \in Calls,
         EndsGuarded(c)
  PROVE  TrustCore'
<1>t. TypeOK /\ GuardInv
  BY DEF TrustInv, GuardInv, ExclusionInv
<1>1. \A d \in Calls : ~HoldsWriter(d)'
  BY <1>t, EndsGuardedEffect
<1>2. \A d \in Calls : InMutation(c) /\ InMutation(d) => d = c
  BY <1>t, GuardFacts
<1>3. CASE PostFails(c)
  <2>1. overlay = trusted /\ ~call[c].committed /\ guard.status = "running"
    BY <1>3, FailedPostKeepsTrusted
  <2>2. UNCHANGED <<overlay, trusted, served, dev>>
    BY <1>3 DEF PostFails
  <2>3. InMutation(c)
    BY <1>3, <1>t, GuardFacts DEF PostFails, MutationSteps
  <2>4. dev = "ready" => served = overlay
    BY <1>2, <2>1, <2>3 DEF TrustInv, ServedIsStored, Stale
  <2>5. \/ guard'.status = "none"
        \/ guard'.status = "dirty" /\ guard'.lkg = guard.lkg
    BY <1>3, <1>t, <2>1, MarkDirtyEffect DEF PostFails, ClearGuard, NoGuard
  <2>6. CleanMeansTrusted' /\ LastGoodIsTrusted'
    BY <2>1, <2>2, <2>5 DEF TrustInv, CleanMeansTrusted, LastGoodIsTrusted
  <2>7. QED
    BY <1>1, <2>2, <2>4, <2>6, NobodyTrust
<1>4. CASE RestartThrows(c) \/ DirtyFail(c)
  <2>1. InMutation(c)
    BY <1>4, <1>t, GuardFacts DEF RestartThrows, DirtyFail, MutationSteps
  <2>2. /\ guard.status = "running"
        /\ guard'.status = "dirty" /\ guard'.lkg = guard.lkg
    BY <1>4, <1>t, <2>1, MarkDirtyEffect
       DEF GuardInv, GuardCoversMutation, RestartThrows, DirtyFail
  <2>3. UNCHANGED <<overlay, trusted, served>>
    BY <1>4 DEF RestartThrows, DirtyFail
  <2>4. dev' = "ready" => served' = overlay'
    <3>1. CASE RestartThrows(c)
      BY <3>1 DEF RestartThrows, StoppedDev
    <3>2. CASE DirtyFail(c)
      BY <3>2, <1>2, <2>1, <2>3 DEF DirtyFail, TrustInv, ServedIsStored, Stale
    <3>3. QED
      BY <1>4, <3>1, <3>2
  <2>5. CleanMeansTrusted' /\ LastGoodIsTrusted'
    BY <2>2, <2>3 DEF TrustInv, CleanMeansTrusted, LastGoodIsTrusted
  <2>6. QED
    BY <1>1, <2>4, <2>5, NobodyTrust
<1>5. CASE Verified(c)
  <2>1. InMutation(c)
    BY <1>5, <1>t, GuardFacts DEF Verified, MutationSteps
  <2>2. served = overlay
    BY <1>5, <1>2, <2>1 DEF Verified, TrustInv, ServedIsStored, Stale
  <2>3. /\ guard'.status = "none" /\ trusted' = served
        /\ UNCHANGED <<overlay, served>>
    BY <1>5 DEF Verified, ClearGuard, NoGuard
  <2>4. QED
    BY <1>1, <2>2, <2>3, NobodyTrust DEF CleanMeansTrusted, LastGoodIsTrusted
<1>6. CASE RepairClears(c)
  <2>1. \A d \in Calls : ~InMutation(d)
    BY <1>6, <1>t, GuardFacts DEF RepairClears
  <2>2. served = overlay
    BY <1>6, <2>1, ServedOutsideMutation DEF RepairClears
  <2>3. /\ guard'.status = "none" /\ trusted' = served
        /\ UNCHANGED <<overlay, served>>
    BY <1>6 DEF RepairClears, ClearGuard, NoGuard
  <2>4. QED
    BY <1>1, <2>2, <2>3, NobodyTrust DEF CleanMeansTrusted, LastGoodIsTrusted
<1>7. CASE RepairRefuses(c)
  <2>1. \A d \in Calls : ~InMutation(d)
    BY <1>7, <1>t, GuardFacts DEF RepairRefuses
  <2>2. guard.status = "dirty"
    BY <1>7 DEF TrustInv, GuardInv, RepairSeesGuard, RepairRefuses
  <2>3. /\ guard'.status = "dirty" /\ guard'.lkg = guard.lkg
        /\ UNCHANGED <<overlay, served, trusted, dev>>
    BY <1>7, <1>t, <2>2, MarkDirtyEffect DEF RepairRefuses
  <2>4. CleanMeansTrusted' /\ LastGoodIsTrusted'
    BY <2>2, <2>3 DEF TrustInv, CleanMeansTrusted, LastGoodIsTrusted
  <2>5. QED
    BY <1>1, <2>1, <2>3, <2>4, ServedOutsideMutation, NobodyTrust
<1>8. QED
  BY <1>3, <1>4, <1>5, <1>6, <1>7 DEF EndsGuarded, HalfRolledBack

\* Taking the guard: nobody mutates yet, and what the call fetched is trusted.
LEMMA StartTrusted ==
  ASSUME TrustInv, NEW c \in Calls, StartMutation(c)
  PROVE  TrustCore'
<1>t. TypeOK /\ GuardInv
  BY DEF TrustInv, GuardInv, ExclusionInv
<1>1. /\ call'[c].step = "posting"
      /\ SameButStep(call'[c], call[c])
      /\ OthersSame(c)
      /\ guard'.status = "running" /\ guard'.lkg = call[c].before
      /\ UNCHANGED <<overlay, trusted, served, dev>>
  BY <1>t, GotoEffect DEF StartMutation
<1>2. HoldsWriter(c) /\ ~InMutation(c)
  BY DEF StartMutation, HoldsWriter, InMutation
<1>3. guard.status = "none" /\ overlay = trusted
  BY <1>2 DEF TrustInv, GuardInv, UnguardedBeforeMutation, CleanMeansTrusted
<1>4. call[c].before = trusted
  BY <1>2 DEF TrustInv, BeforeIsTrusted, StartMutation
<1>5. \A d \in Calls \ {c} : ~HoldsWriter(d)' /\ ~InMutation(d)
  BY <1>1, <1>2, <1>t, GuardFacts DEF OthersSame, HoldsWriter, Mutating
<1>6. InMutation(c)'
  BY <1>1 DEF StartMutation, InMutation, Mutating, SameButStep
<1>7. dev = "ready" => served = overlay
  BY <1>2, <1>5, ServedOutsideMutation
<1>8. UncommittedKeepsTrusted'
  BY <1>1, <1>3, <1>5 DEF UncommittedKeepsTrusted, InMutation, HoldsWriter
<1>9. BeforeIsTrusted'
  BY <1>5, <1>6 DEF BeforeIsTrusted
<1>10. CleanMeansTrusted' /\ LastGoodIsTrusted' /\ ServedIsStored'
  BY <1>1, <1>4, <1>7 DEF CleanMeansTrusted, LastGoodIsTrusted, ServedIsStored
<1>11. QED
  BY <1>8, <1>9, <1>10 DEF TrustCore

\* The runtime commits: from here on the call is the one that makes the dev
\* process stale.
LEMMA CommitTrusted ==
  ASSUME TrustInv, NEW c \in Calls, Commit(c)
  PROVE  TrustCore'
<1>t. TypeOK /\ GuardInv
  BY DEF TrustInv, GuardInv, ExclusionInv
<1>1. /\ OthersSame(c)
      /\ call'[c].committed
      /\ call'[c].step = "posting" /\ call[c].step = "posting"
      /\ call'[c].kind = call[c].kind
      /\ UNCHANGED <<guard, trusted, dev>>
  BY <1>t, CommitEffect DEF Commit
<1>2. InMutation(c) /\ HoldsWriter(c)
  BY <1>1, <1>t, GuardFacts DEF MutationSteps
<1>3. InMutation(c)' /\ Stale(c)'
  BY <1>1, <1>2 DEF InMutation, Mutating, Stale
<1>4. \A d \in Calls \ {c} : ~HoldsWriter(d)' /\ ~InMutation(d)'
  BY <1>1, <1>2, <1>t, GuardFacts
     DEF OthersSame, HoldsWriter, InMutation, Mutating
<1>5. guard.status = "running"
  BY <1>2, <1>t DEF GuardInv, GuardCoversMutation
<1>6. UncommittedKeepsTrusted'
  BY <1>1, <1>4 DEF UncommittedKeepsTrusted
<1>7. BeforeIsTrusted'
  BY <1>3, <1>4 DEF BeforeIsTrusted
<1>8. CleanMeansTrusted' /\ LastGoodIsTrusted' /\ ServedIsStored'
  BY <1>1, <1>3, <1>5
     DEF TrustInv, CleanMeansTrusted, LastGoodIsTrusted, ServedIsStored
<1>9. QED
  BY <1>6, <1>7, <1>8 DEF TrustCore

\* The dev process: a dropped POST is one that had not committed, and a boot
\* loads what is stored.
LEMMA DevTrusted ==
  ASSUME TrustInv, DevStart \/ DevReady \/ DevStops
  PROVE  TrustCore'
<1>t. TypeOK /\ GuardInv /\ StepFitsKind
  BY DEF TrustInv, GuardInv, ExclusionInv
<1>1. UNCHANGED <<guard, overlay, trusted>>
  BY DEF DevStart, DevReady, DevStops
<1>2. ASSUME NEW d \in Calls
      PROVE  /\ SameButStep(call'[d], call[d])
             /\ \/ call'[d].step = call[d].step
                \/ call[d].step \in MutationSteps
                   /\ call'[d].step \in MutationSteps
  BY <1>t, DevEffect
<1>3. ASSUME NEW d \in Calls
      PROVE  /\ InMutation(d)' <=> InMutation(d)
             /\ HoldsWriter(d)' <=> HoldsWriter(d)
             /\ call'[d].before = call[d].before
             /\ call'[d].committed = call[d].committed
             /\ ~InMutation(d)' => call'[d].step = call[d].step
  BY <1>2, <1>t DEF InMutation, HoldsWriter, Mutating, SameButStep,
                    MutationSteps, StepFitsKind
<1>4. ASSUME NEW d \in Calls, call'[d].step = "dropped"
      PROVE  call[d].step = "dropped" \/ ~call[d].committed
  BY <1>4, <1>t, DevGoneEffect, DevReadyEffect
     DEF DevStart, DevReady, DevStops, StepAfterDevGone, StepAfterDevReady
<1>5. UncommittedKeepsTrusted'
  <2>1. SUFFICES ASSUME NEW d \in Calls, InMutation(d)'
                 PROVE  /\ ~call'[d].committed => overlay' = trusted'
                        /\ call'[d].step = "dropped" => ~call'[d].committed
    BY DEF UncommittedKeepsTrusted
  <2>2. QED
    BY <1>1, <1>3, <1>4, <2>1 DEF TrustInv, UncommittedKeepsTrusted
<1>6. BeforeIsTrusted'
  BY <1>1, <1>3 DEF TrustInv, BeforeIsTrusted
<1>7. CleanMeansTrusted' /\ LastGoodIsTrusted'
  BY <1>1 DEF TrustInv, CleanMeansTrusted, LastGoodIsTrusted
<1>8. ServedIsStored'
  BY <1>1 DEF DevStart, DevReady, DevStops, StoppedDev, ServedIsStored
<1>9. QED
  BY <1>5, <1>6, <1>7, <1>8 DEF TrustCore

\* The framework process restarts: whatever guard was there comes back dirty.
LEMMA RestartTrusted ==
  ASSUME TrustInv, FrameworkRestarts
  PROVE  TrustCore'
<1>1. \A d \in Calls : call'[d].step = "idle"
  BY DEF FrameworkRestarts, IdleCall
<1>2. CleanMeansTrusted'
  BY DEF FrameworkRestarts, LoadedGuard, NoGuard, TrustInv, CleanMeansTrusted
<1>3. LastGoodIsTrusted'
  BY DEF FrameworkRestarts, LoadedGuard, NoGuard, TrustInv, LastGoodIsTrusted
<1>4. dev' # "ready"
  BY DEF FrameworkRestarts
<1>5. QED
  BY <1>1, <1>2, <1>3, <1>4, NobodyTrust DEF HoldsWriter

LEMMA TrustNext ==
  ASSUME SingleRepairer, ~DirtyPosts
  PROVE  TrustInv /\ [Next]_vars => TrustInv'
<1> SUFFICES ASSUME TrustInv, [Next]_vars
             PROVE  TrustInv'
  OBVIOUS
<1>t. TypeOK /\ ExclusionInv /\ GuardInv
  BY DEF TrustInv, GuardInv, ExclusionInv
<1>b. ASSUME NEW c \in Calls, HoldsWriter(c), ~InMutation(c),
             call[c].step # "fetching"
      PROVE  call[c].before = trusted
  BY <1>b DEF TrustInv, BeforeIsTrusted
<1>1. ASSUME NEW c \in Calls,
             BeginMutation(c) \/ BeginPrepare(c) \/ BeginRepair(c)
      PROVE  TrustCore'
  <2>1. /\ OthersSame(c)
        /\ call'[c].step \in {"fetching", "validating", "observing"}
        /\ HoldsWriter(c)' => call'[c].step = "fetching"
    BY <1>1, <1>t, BeginMutationEffect, BeginPrepareEffect, BeginRepairEffect
       DEF HoldsWriter, Mutating
  <2>2. /\ UNCHANGED <<guard, overlay, trusted, served, dev>>
        /\ call[c].step = "idle"
    BY <1>1 DEF BeginMutation, BeginPrepare, BeginRepair
  <2>3. ~InMutation(c)' /\ ~Stale(c)
    BY <2>1, <2>2 DEF InMutation, Stale
  <2>4. QED
    BY <2>1, <2>2, <2>3, MoveTrust
<1>2. ASSUME NEW c \in Calls, FetchBefore(c)
      PROVE  TrustCore'
  <2>1. /\ call[c].step = "fetching" /\ dev = "ready"
        /\ UNCHANGED <<guard, overlay, trusted, served, dev>>
    BY <1>2 DEF FetchBefore
  <2>2. HoldsWriter(c) /\ ~InMutation(c) /\ ~Stale(c)
    BY <2>1, <1>t DEF ExclusionInv, StepFitsKind, HoldsWriter, InMutation, Stale
  <2>3. ~InMutation(c)'
    BY <1>2, <1>t, FetchBeforeEffect DEF InMutation
  <2>4. \A d \in Calls : ~InMutation(d)
    BY <2>2, <1>t, GuardFacts
  <2>5. served = trusted
    BY <2>1, <2>2, <2>4, ServedOutsideMutation
       DEF TrustInv, GuardInv, UnguardedBeforeMutation, CleanMeansTrusted
  <2>6. QED
    BY <1>2, <1>t, <2>1, <2>2, <2>3, <2>5, FetchBeforeEffect, MoveTrust
<1>3. ASSUME NEW c \in Calls, Validate(c)
      PROVE  TrustCore'
  <2>1. /\ call[c].step = "validating"
        /\ UNCHANGED <<guard, overlay, trusted, served, dev>>
    BY <1>3 DEF Validate
  <2>2. ~InMutation(c) /\ ~Stale(c) /\ (HoldsWriter(c)' => HoldsWriter(c))
    BY <2>1, <1>3, <1>t, ValidateEffect
       DEF HoldsWriter, Mutating, InMutation, Stale
  <2>3. ~InMutation(c)'
    BY <1>3, <1>t, ValidateEffect DEF InMutation
  <2>4. QED
    BY <1>3, <1>t, <1>b, <2>1, <2>2, <2>3, ValidateEffect, MoveTrust
<1>4. ASSUME NEW c \in Calls,
             \/ PreparationFails(c) \/ Denied(c) \/ AuthorizationRefused(c)
             \/ AskFails(c) \/ PrepareDone(c)
      PROVE  TrustCore'
  <2>1. /\ End(c)
        /\ call[c].step \notin MutationSteps
        /\ UNCHANGED <<guard, overlay, trusted, served, dev>>
    BY <1>4 DEF PreparationFails, Denied, AuthorizationRefused, AskFails,
                PrepareDone, Abort, MutationSteps
  <2>2. call'[c].step = "idle" /\ OthersSame(c)
    BY <2>1, <1>t, EndEffect
  <2>3. ~HoldsWriter(c)' /\ ~InMutation(c)' /\ ~Stale(c)
    BY <2>1, <2>2 DEF HoldsWriter, InMutation, Stale, MutationSteps
  <2>4. QED
    BY <2>1, <2>2, <2>3, MoveTrust
<1>5. ASSUME NEW c \in Calls, NEW s \in {"waiting", "decided", "denied"},
             call[c].step \in {"asking", "waiting"}, Goto(c, s),
             UNCHANGED <<guard, overlay, trusted, served, dev>>
      PROVE  TrustCore'
  <2>1. /\ call'[c].step = s
        /\ SameButStep(call'[c], call[c])
        /\ OthersSame(c)
    BY <1>5, <1>t, GotoEffect
  <2>2. /\ ~InMutation(c) /\ ~InMutation(c)' /\ ~Stale(c)
        /\ HoldsWriter(c)' => HoldsWriter(c)
    BY <1>5, <2>1 DEF InMutation, Stale, HoldsWriter, Mutating, SameButStep
  <2>3. QED
    BY <1>5, <1>b, <2>1, <2>2, MoveTrust DEF SameButStep
<1>6. ASSUME NEW c \in Calls, Ask(c)
      PROVE  TrustCore'
  BY <1>5, <1>6 DEF Ask
<1>7. ASSUME NEW c \in Calls, NEW d \in {"allow", "deny"}, Answer(c, d)
      PROVE  TrustCore'
  <2>1. call[c].step = "waiting"
    BY <1>7, <1>t DEF Answer, ExclusionInv, SlotNamesWaiting, Slots, SlotOf
  <2>2. QED
    BY <1>5, <1>7, <2>1 DEF Answer
<1>8. ASSUME NEW c \in Calls, Reply(c)
      PROVE  TrustCore'
  <2>1. /\ call'[c].step = "stopping"
        /\ SameButStep(call'[c], call[c])
        /\ OthersSame(c)
        /\ UNCHANGED <<guard, overlay, trusted, served, dev>>
    BY <1>8, <1>t, GotoEffect DEF Reply
  <2>2. InMutation(c) /\ InMutation(c)' /\ (Stale(c) => Stale(c)')
    BY <1>8, <1>t, <2>1, GuardFacts
       DEF Reply, InMutation, Stale, Mutating, SameButStep, MutationSteps
  <2>3. QED
    BY <2>1, <2>2, MoveTrust DEF SameButStep
<1>9. ASSUME NEW c \in Calls, Restart(c)
      PROVE  TrustCore'
  <2>1. /\ call'[c].step = "restarting" /\ call[c].step = "stopping"
        /\ SameButStep(call'[c], call[c])
        /\ OthersSame(c)
        /\ UNCHANGED <<guard, overlay, trusted>>
        /\ dev' # "ready"
    BY <1>9, <1>t, GotoEffect DEF Restart
  <2>2. InMutation(c) /\ InMutation(c)'
    BY <1>t, <2>1, GuardFacts
       DEF InMutation, Mutating, SameButStep, MutationSteps
  <2>3. ASSUME NEW d \in Calls \ {c}
        PROVE  /\ InMutation(d)' <=> InMutation(d)
               /\ HoldsWriter(d)' <=> HoldsWriter(d)
               /\ call'[d] = call[d]
    BY <2>1 DEF OthersSame, InMutation, HoldsWriter, Mutating
  <2>4. UncommittedKeepsTrusted'
    BY <2>1, <2>2, <2>3 DEF TrustInv, UncommittedKeepsTrusted, SameButStep
  <2>5. BeforeIsTrusted'
    BY <2>1, <2>2, <2>3 DEF TrustInv, BeforeIsTrusted
  <2>6. CleanMeansTrusted' /\ LastGoodIsTrusted' /\ ServedIsStored'
    BY <2>1 DEF TrustInv, CleanMeansTrusted, LastGoodIsTrusted, ServedIsStored
  <2>7. QED
    BY <2>4, <2>5, <2>6 DEF TrustCore
<1>10. ASSUME UNCHANGED vars
       PROVE  TrustCore'
  <2>1. \A d \in Calls : /\ InMutation(d)' <=> InMutation(d)
                         /\ HoldsWriter(d)' <=> HoldsWriter(d)
                         /\ Stale(d)' <=> Stale(d)
    BY <1>10 DEF vars, InMutation, HoldsWriter, Stale, Mutating
  <2>2. UncommittedKeepsTrusted' /\ BeforeIsTrusted' /\ ServedIsStored'
    BY <1>10, <2>1 DEF vars, TrustInv, UncommittedKeepsTrusted,
                       BeforeIsTrusted, ServedIsStored
  <2>3. CleanMeansTrusted' /\ LastGoodIsTrusted'
    BY <1>10 DEF vars, TrustInv, CleanMeansTrusted, LastGoodIsTrusted
  <2>4. QED
    BY <2>2, <2>3 DEF TrustCore
<1>c. ASSUME NEW c \in Calls, CallStep(c)
      PROVE  TrustCore'
  BY <1>c, <1>2, <1>3, <1>4, <1>6, <1>8, <1>9, StartTrusted, EndsTrusted
     DEF CallStep, EndsGuarded
<1>11. TrustCore'
  <2>1. ASSUME Next
        PROVE  TrustCore'
    BY <2>1, <1>1, <1>c, <1>7, CommitTrusted, DevTrusted, RestartTrusted,
       Zenon DEF Next
  <2>2. QED
    BY <2>1, <1>10
<1>12. QED
  BY <1>11, <1>t, GuardNext DEF TrustCore, TrustInv

\* Without a guard the stored definition is the one last verified, if no failed
\* POST has changed the definition and no two repairs run at once.
THEOREM CleanIsTrusted ==
  ASSUME SingleRepairer, ~DirtyPosts
  PROVE  Spec => []CleanMeansTrusted
<1>1. TrustInv => CleanMeansTrusted
  BY DEF TrustInv
<1>2. QED
  BY <1>1, TrustInit, TrustNext, PTL DEF Spec

-----------------------------------------------------------------------------
(* The guarded mutation implements the abstract one                        *)

LEMMA InitImplements == Init => Governed!Init
  BY DEF Init, NoGuard, Governed!Init, Standing

LEMMA StandingValue ==
  /\ Standing = "clean" <=> guard.status = "none"
  /\ Standing = "mutating" <=> guard.status = "running"
  /\ TypeOK => (Standing = "dirty" <=> guard.status = "dirty")
  BY DEF Standing, TypeOK, Guard

LEMMA StutterImplements ==
  ASSUME UNCHANGED <<guard, overlay, trusted>>
  PROVE  UNCHANGED Governed!vars
  BY DEF Governed!vars, Standing

LEMMA StartImplements ==
  ASSUME TrustInv, NEW c \in Calls, StartMutation(c)
  PROVE  Governed!Next
<1>1. guard.status = "none"
  BY DEF StartMutation, HoldsWriter, InMutation, TrustInv, GuardInv,
         UnguardedBeforeMutation
<1>2. Standing = "clean" /\ Standing' = "mutating"
  BY <1>1 DEF StartMutation, Standing
<1>3. Governed!Begin
  BY <1>2 DEF StartMutation, Governed!Begin
<1>4. QED
  BY <1>3 DEF Governed!Next

LEMMA CommitImplements ==
  ASSUME TrustInv, TypeOK', NEW c \in Calls, Commit(c)
  PROVE  Governed!Next
<1>1. InMutation(c)
  BY GuardFacts DEF Commit, TrustInv, MutationSteps
<1>2. guard.status = "running"
  BY <1>1 DEF TrustInv, GuardInv, GuardCoversMutation
<1>3. Standing = "mutating" /\ Standing' = Standing
  BY <1>2 DEF Commit, Standing
<1>4. Governed!Store
  BY <1>3 DEF Commit, Governed!Store, TypeOK, Definition
<1>5. QED
  BY <1>4 DEF Governed!Next

LEMMA EndImplements ==
  ASSUME ~DirtyPosts, TrustInv, NEW c \in Calls, EndsGuarded(c)
  PROVE  Governed!Next \/ UNCHANGED Governed!vars
<1>t. TypeOK /\ GuardInv
  BY DEF TrustInv, GuardInv, ExclusionInv
<1>1. ASSUME InMutation(c)
      PROVE  /\ guard.status = "running" /\ Standing = "mutating"
             /\ \A d \in Calls : InMutation(d) => d = c
  BY <1>1, <1>t, GuardFacts, StandingValue DEF GuardInv, GuardCoversMutation
<1>2. ASSUME InMutation(c), MarkDirty, UNCHANGED <<overlay, trusted>>
      PROVE  Governed!Doubt
  <2>1. guard'.status = "dirty"
    BY <1>t, <1>1, <1>2, MarkDirtyEffect
  <2>2. Standing' = "dirty"
    BY <2>1 DEF Standing
  <2>3. QED
    BY <1>1, <1>2, <2>2 DEF Governed!Doubt
<1>3. ASSUME InMutation(c), ClearGuard, trusted' = overlay, overlay' = overlay
      PROVE  Governed!Settle
  <2>1. Standing' = "clean"
    BY <1>3 DEF ClearGuard, NoGuard, Standing
  <2>2. QED
    BY <1>1, <1>3, <2>1 DEF Governed!Settle
<1>4. CASE PostFails(c)
  <2>1. InMutation(c)
    BY <1>4, <1>t, GuardFacts DEF PostFails, MutationSteps
  <2>2. overlay = trusted
    BY <1>4, FailedPostKeepsTrusted
  <2>3. UNCHANGED <<overlay, trusted>> /\ (ClearGuard \/ MarkDirty)
    BY <1>4 DEF PostFails
  <2>4. QED
    BY <1>2, <1>3, <2>1, <2>2, <2>3 DEF Governed!Next
<1>5. CASE RestartThrows(c) \/ DirtyFail(c)
  <2>1. InMutation(c)
    BY <1>5, <1>t, GuardFacts DEF RestartThrows, DirtyFail, MutationSteps
  <2>2. UNCHANGED <<overlay, trusted>> /\ MarkDirty
    BY <1>5 DEF RestartThrows, DirtyFail
  <2>3. QED
    BY <1>2, <2>1, <2>2 DEF Governed!Next
<1>6. CASE Verified(c)
  <2>1. InMutation(c)
    BY <1>6, <1>t, GuardFacts DEF Verified, MutationSteps
  <2>2. served = overlay
    BY <1>1, <1>6, <2>1 DEF Verified, TrustInv, ServedIsStored, Stale
  <2>3. ClearGuard /\ trusted' = overlay /\ overlay' = overlay
    BY <1>6, <2>2 DEF Verified
  <2>4. QED
    BY <1>3, <2>1, <2>3 DEF Governed!Next
<1>7. CASE RepairClears(c)
  <2>1. guard.status = "dirty" /\ call[c].before = guard.lkg
    BY <1>7, <1>t DEF GuardInv, RepairSeesGuard, RepairClears
  <2>2. \A d \in Calls : ~InMutation(d)
    BY <1>7, <1>t, GuardFacts DEF RepairClears
  <2>3. served = overlay
    BY <1>7, <2>2, ServedOutsideMutation DEF RepairClears
  <2>4. served # NoSummary
    BY <1>t, NoSummaryAssumption DEF TypeOK, Definition
  <2>5. overlay = trusted
    BY <1>7, <2>1, <2>3, <2>4 DEF RepairClears, TrustInv, LastGoodIsTrusted
  <2>6. Standing = "dirty" /\ Standing' = "clean"
    BY <1>7, <2>1 DEF RepairClears, ClearGuard, NoGuard, Standing
  <2>7. UNCHANGED <<overlay, trusted>>
    BY <1>7, <2>3, <2>5 DEF RepairClears
  <2>8. Governed!Reset
    BY <2>5, <2>6, <2>7 DEF Governed!Reset
  <2>9. QED
    BY <2>8 DEF Governed!Next
<1>8. CASE RepairRefuses(c)
  <2>1. guard.status = "dirty"
    BY <1>8, <1>t DEF GuardInv, RepairSeesGuard, RepairRefuses
  <2>2. guard'.status = "dirty"
    BY <1>8, <1>t, <2>1, MarkDirtyEffect DEF RepairRefuses
  <2>3. Standing' = Standing
    BY <2>1, <2>2 DEF Standing
  <2>4. QED
    BY <1>8, <2>3 DEF RepairRefuses, Governed!vars
<1>9. QED
  BY <1>4, <1>5, <1>6, <1>7, <1>8 DEF EndsGuarded, HalfRolledBack

LEMMA RestartImplements ==
  ASSUME TypeOK, FrameworkRestarts
  PROVE  Governed!Next \/ UNCHANGED Governed!vars
<1>1. UNCHANGED <<overlay, trusted>>
  BY DEF FrameworkRestarts
<1>2. CASE guard.status = "none"
  <2>1. guard'.status = "none"
    BY <1>2 DEF FrameworkRestarts, LoadedGuard, NoGuard
  <2>2. QED
    BY <1>1, <1>2, <2>1 DEF Standing, Governed!vars
<1>3. CASE guard.status = "running"
  <2>1. guard'.status = "dirty"
    BY <1>3 DEF FrameworkRestarts, LoadedGuard
  <2>2. Governed!Doubt
    BY <1>1, <1>3, <2>1 DEF Standing, Governed!Doubt
  <2>3. QED
    BY <2>2 DEF Governed!Next
<1>4. CASE guard.status = "dirty"
  <2>1. guard'.status = "dirty"
    BY <1>4 DEF FrameworkRestarts, LoadedGuard
  <2>2. QED
    BY <1>1, <1>4, <2>1 DEF Standing, Governed!vars
<1>5. QED
  BY <1>2, <1>3, <1>4 DEF TypeOK, Guard

LEMMA StepImplements ==
  ASSUME ~DirtyPosts
  PROVE  TrustInv /\ TypeOK' /\ [Next]_vars => [Governed!Next]_(Governed!vars)
<1> SUFFICES ASSUME TrustInv, TypeOK', [Next]_vars
             PROVE  Governed!Next \/ UNCHANGED Governed!vars
  OBVIOUS
<1>t. TypeOK
  BY DEF TrustInv, GuardInv, ExclusionInv
<1>1. ASSUME NEW c \in Calls, CallStep(c)
      PROVE  Governed!Next \/ UNCHANGED Governed!vars
  <2>1. CASE StartMutation(c)
    BY <2>1, StartImplements
  <2>2. CASE EndsGuarded(c)
    BY <2>2, EndImplements
  <2>3. CASE ~StartMutation(c) /\ ~EndsGuarded(c)
    <3>1. \/ FetchBefore(c) \/ Validate(c) \/ PreparationFails(c) \/ Ask(c)
          \/ AskFails(c) \/ Denied(c) \/ AuthorizationRefused(c)
          \/ PrepareDone(c) \/ Reply(c) \/ Restart(c)
      BY <1>1, <2>3 DEF CallStep, EndsGuarded
    <3>2. UNCHANGED <<guard, overlay, trusted>>
      BY <3>1 DEF FetchBefore, Validate, PreparationFails, Ask, AskFails,
                  Denied, AuthorizationRefused, PrepareDone, Reply, Restart
    <3>3. QED
      BY <3>2, StutterImplements
  <2>4. QED
    BY <2>1, <2>2, <2>3
<1>2. ASSUME NEW c \in Calls,
             \/ BeginMutation(c) \/ BeginPrepare(c) \/ BeginRepair(c)
             \/ \E decision \in {"allow", "deny"} : Answer(c, decision)
      PROVE  UNCHANGED Governed!vars
  <2>1. UNCHANGED <<guard, overlay, trusted>>
    BY <1>2 DEF BeginMutation, BeginPrepare, BeginRepair, Answer
  <2>2. QED
    BY <2>1, StutterImplements
<1>3. ASSUME DevStart \/ DevReady \/ DevStops \/ UNCHANGED vars
      PROVE  UNCHANGED Governed!vars
  <2>1. UNCHANGED <<guard, overlay, trusted>>
    BY <1>3 DEF DevStart, DevReady, DevStops, vars
  <2>2. QED
    BY <2>1, StutterImplements
<1>4. ASSUME Next
      PROVE  Governed!Next \/ UNCHANGED Governed!vars
  BY <1>4, <1>t, <1>1, <1>2, <1>3, CommitImplements, RestartImplements, Zenon
     DEF Next
<1>5. QED
  BY <1>3, <1>4

\* Every behaviour of the calls, prompts, restarts and crashes is a behaviour
\* of the abstract mutation.
THEOREM Implementation ==
  ASSUME SingleRepairer, ~DirtyPosts
  PROVE  Spec => ImplementsGoverned
<1>1. TrustInv => TypeOK
  BY DEF TrustInv, GuardInv, ExclusionInv
<1>2. QED
  BY <1>1, TrustInit, TrustNext, InitImplements, StepImplements, PTL
     DEF Spec, ImplementsGoverned, Governed!Spec

\* A dirty guard blocks: the stored definition changes only while it is
\* being mutated.
THEOREM DirtyGuardBlocks ==
  ASSUME SingleRepairer, ~DirtyPosts
  PROVE  Spec => DirtyBlocks
<1>1. ASSUME TrustInv, TypeOK', [Next]_vars
      PROVE  [guard.status = "dirty" => overlay' = overlay]_vars
  <2>1. [Governed!Next]_(Governed!vars)
    BY <1>1, StepImplements
  <2>2. guard.status = "dirty" => Standing = "dirty"
    BY DEF Standing
  <2>3. guard.status = "dirty" => overlay' = overlay
    BY <2>1, <2>2
       DEF Governed!Next, Governed!vars, Governed!Begin, Governed!Store,
           Governed!Settle, Governed!Doubt, Governed!Reset
  <2>4. QED
    BY <2>3
<1>2. TrustInv => TypeOK
  BY DEF TrustInv, GuardInv, ExclusionInv
<1>3. QED
  BY <1>1, <1>2, TrustInit, TrustNext, PTL DEF Spec, DirtyBlocks

=============================================================================
