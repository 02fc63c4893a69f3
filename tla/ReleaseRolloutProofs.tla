------------------------ MODULE ReleaseRolloutProofs ------------------------
(***************************************************************************)
(* Theorems of ReleaseRollout, for any callers, versions and bounds.       *)
(***************************************************************************)
EXTENDS ReleaseRollout, TLAPS

USE ConstantsAssumption

-----------------------------------------------------------------------------
(* The transitions of the rollout state. *)

LEMMA InstanceType ==
  ASSUME NEW v \in Versions, NEW failed \in BOOLEAN
  PROVE  /\ Instance(v, failed) \in Release
         /\ Instance(v, failed).version = v
         /\ Instance(v, failed).healthy => ~Instance(v, failed).failed
         /\ ~failed => Instance(v, failed).healthy
  BY DEF Instance, Release

LEMMA EmptyType == Empty \in State /\ Empty.timeline = <<>>
  BY DEF Empty, State

LEMMA IdleType == Idle \in Call /\ Idle.step = "idle" /\ Idle.release = None /\ Idle.loaded = Empty
  BY EmptyType DEF Idle, Call, Steps, Kinds

LEMMA StateFields ==
  ASSUME NEW s \in State
  PROVE  /\ s.active \in Release \cup {None}
         /\ s.previous \in Release \cup {None}
         /\ s.candidate \in Release \cup {None}
         /\ s.timeline \in Seq(Event)
  BY DEF State

(* The event that is appended, and what the timeline is afterwards. *)
LEMMA HappenedIs ==
  ASSUME NEW s \in State, NEW r \in Release, NEW replaced \in Release \cup {None},
         NEW type \in {"candidate_staged", "candidate_promoted", "rollback_completed"}
  PROVE  \E e \in Event :
           /\ e = [type |-> type, version |-> r.version, previous |-> Id(replaced)]
           /\ e.type = type /\ e.version = r.version /\ e.previous = Id(replaced)
           /\ Happened(s, type, r, replaced) = Append(s.timeline, e)
           /\ Happened(s, type, r, replaced) \in Seq(Event)
<1> DEFINE e == [type |-> type, version |-> r.version, previous |-> Id(replaced)]
<1>1. r.version \in Versions /\ Id(replaced) \in Versions \cup {None}
  BY DEF Release, Id
<1>2. e \in Event
  BY <1>1 DEF Event
<1>3. Append(s.timeline, e) \in Seq(Event)
  BY <1>2, StateFields
<1>4. QED
  BY <1>2, <1>3 DEF Happened

LEMMA StagedIs ==
  ASSUME NEW s \in State, NEW r \in Release
  PROVE  Staged(s, r) \in State
<1>1. Happened(s, "candidate_staged", r, None) \in Seq(Event)
  BY HappenedIs
<1>2. QED
  BY <1>1, StateFields DEF Staged, State

LEMMA PromotedIs ==
  ASSUME NEW s \in State, s.candidate \in Release
  PROVE  Promoted(s) \in State
<1>1. Happened(s, "candidate_promoted", s.candidate, s.active) \in Seq(Event)
  BY HappenedIs, StateFields
<1>2. QED
  BY <1>1, StateFields DEF Promoted, State

LEMMA RolledBackIs ==
  ASSUME NEW s \in State, s.previous \in Release
  PROVE  RolledBack(s) \in State
<1>1. Happened(s, "rollback_completed", s.previous, s.active) \in Seq(Event)
  BY HappenedIs, StateFields
<1>2. QED
  BY <1>1, StateFields DEF RolledBack, State

(***************************************************************************)
(* What a call has that is about to save: a publish or a staging brings a  *)
(* release, a release that is healthy has no failed check, and one that is *)
(* published is healthy.                                                   *)
(***************************************************************************)
Brings(k) ==
  /\ k.kind \in {"publish", "stage"} => /\ k.release \in Release
                                        /\ k.release.healthy => ~k.release.failed
  /\ k.kind = "publish" => k.release.healthy

LEMMA OutcomeIs ==
  ASSUME NEW k \in Call, Brings(k), May(k)
  PROVE  \/ /\ k.kind = "publish"
            /\ Outcome(k) = Promoted(Staged(k.loaded, k.release))
            /\ k.release \in Release
         \/ /\ k.kind = "stage"
            /\ Outcome(k) = Staged(k.loaded, k.release)
            /\ k.release \in Release
         \/ /\ k.kind = "promote"
            /\ Outcome(k) = Promoted(k.loaded)
            /\ k.loaded.candidate \in Release /\ k.loaded.candidate.healthy
         \/ /\ k.kind = "rollback"
            /\ Outcome(k) = RolledBack(k.loaded)
            /\ k.loaded.previous \in Release /\ k.loaded.previous.healthy
<1>1. k.loaded \in State /\ k.kind \in Kinds
  BY DEF Call
<1>2. QED
  BY <1>1, StateFields DEF Kinds, Brings, May, Outcome, MayPromote, MayRollBack

LEMMA OutcomeType ==
  ASSUME NEW k \in Call, Brings(k), May(k)
  PROVE  Outcome(k) \in State
<1>1. k.loaded \in State
  BY DEF Call
<1>2. CASE k.kind = "publish"
  <2>1. k.release \in Release /\ Outcome(k) = Promoted(Staged(k.loaded, k.release))
    BY <1>2, OutcomeIs
  <2>2. Staged(k.loaded, k.release) \in State /\ Staged(k.loaded, k.release).candidate \in Release
    BY <1>1, <2>1, StagedIs DEF Staged
  <2>3. QED
    BY <2>1, <2>2, PromotedIs
<1>3. CASE k.kind = "stage"
  BY <1>1, <1>3, OutcomeIs, StagedIs
<1>4. CASE k.kind = "promote"
  BY <1>1, <1>4, OutcomeIs, PromotedIs
<1>5. CASE k.kind = "rollback"
  BY <1>1, <1>5, OutcomeIs, RolledBackIs
<1>6. QED
  BY <1>2, <1>3, <1>4, <1>5 DEF Call, Kinds

-----------------------------------------------------------------------------
(***************************************************************************)
(* What every step does to the copies of the state: a call loads the saved *)
(* one or forgets its own, and only a save changes the saved one.          *)
(***************************************************************************)
Planned ==
  \A c \in Callers :
    /\ ~At(c, "idle") => Brings(call[c])
    /\ call[c].step \in {"removing", "starting", "waiting", "stopping"} => call[c].kind = "publish"

TypeInv == TypeOK /\ Planned

(* A call that has returned, and one that goes on to another step. *)
LEMMA ReturnsEffect ==
  ASSUME TypeOK, NEW c \in Callers, Returns(c)
  PROVE  /\ call' \in [Callers -> Call]
         /\ call'[c] = Idle
         /\ \A d \in Callers : d # c => call'[d] = call[d]
  BY IdleType DEF TypeOK, Returns

LEMMA GoesEffect ==
  ASSUME TypeOK, NEW c \in Callers, NEW step \in Steps, Goes(c, step)
  PROVE  /\ call' \in [Callers -> Call]
         /\ call'[c].step = step /\ call'[c].kind = call[c].kind
         /\ call'[c].release = call[c].release /\ call'[c].loaded = call[c].loaded
         /\ \A d \in Callers : d # c => call'[d] = call[d]
<1> DEFINE r == [call[c] EXCEPT !.step = step]
<1>1. call[c] \in Call
  BY DEF TypeOK
<1>2. r \in Call /\ r.step = step /\ r.kind = call[c].kind
      /\ r.release = call[c].release /\ r.loaded = call[c].loaded
  BY <1>1 DEF Call
<1>3. call' = [call EXCEPT ![c] = r]
  BY DEF Goes
<1>4. QED
  <2> HIDE DEF r
  <2>1. QED
    BY <1>2, <1>3 DEF TypeOK

LEMMA ReadyEffect ==
  ASSUME TypeOK, NEW c \in Callers, Ready(c)
  PROVE  /\ call' \in [Callers -> Call]
         /\ call'[c].step = "saving" /\ call'[c].kind = call[c].kind
         /\ call'[c].release = call[c].release /\ call'[c].loaded = store
         /\ \A d \in Callers : d # c => call'[d] = call[d]
<1> DEFINE r == [call[c] EXCEPT !.step = "saving", !.loaded = store]
<1>1. call[c] \in Call /\ store \in State
  BY DEF TypeOK
<1>2. r \in Call /\ r.step = "saving" /\ r.kind = call[c].kind
      /\ r.release = call[c].release /\ r.loaded = store
  BY <1>1 DEF Call, Steps
<1>3. call' = [call EXCEPT ![c] = r]
  BY DEF Ready
<1>4. QED
  <2> HIDE DEF r
  <2>1. QED
    BY <1>2, <1>3 DEF TypeOK

LEMMA BeginEffect ==
  ASSUME TypeOK, NEW c \in Callers, NEW k \in Call, Begin(c, k)
  PROVE  /\ call' \in [Callers -> Call]
         /\ call'[c] = k
         /\ \A d \in Callers : d # c => call'[d] = call[d]
  BY DEF TypeOK, Begin

(* A call that begins is one the code can make. *)
LEMMA LoadBegins ==
  ASSUME TypeOK, NEW c \in Callers, Stage(c) \/ Promote(c) \/ Rollback(c)
  PROVE  \E k \in Call :
           /\ Begin(c, k) /\ Brings(k) /\ k.step = "saving" /\ k.loaded = store
           /\ k.kind # "publish"
           /\ UNCHANGED <<store, up, reported, shaken, stale>>
<1>1. store \in State
  BY DEF TypeOK
<1>2. ASSUME NEW kind \in Kinds \ {"publish"}, NEW r \in Release \cup {None}, Load(c, kind, r),
             kind = "stage" => r \in Release /\ (r.healthy => ~r.failed)
      PROVE  \E k \in Call :
           /\ Begin(c, k) /\ Brings(k) /\ k.step = "saving" /\ k.loaded = store
           /\ k.kind # "publish"
           /\ UNCHANGED <<store, up, reported, shaken, stale>>
  <2> DEFINE k == [step |-> "saving", kind |-> kind, release |-> r, loaded |-> store]
  <2>1. k \in Call
    BY <1>1, <1>2 DEF Call, Steps
  <2>2. Begin(c, k) /\ UNCHANGED <<store, up, reported, shaken, stale>>
    BY <1>2 DEF Load
  <2>3. Brings(k)
    BY <1>2 DEF Brings
  <2>4. k.step = "saving" /\ k.loaded = store /\ k.kind # "publish"
    BY <1>2
  <2>5. QED
    <3> HIDE DEF k
    <3>1. QED
      BY <2>1, <2>2, <2>3, <2>4
<1>3. CASE Stage(c)
  <2>1. PICK v \in Versions, failed \in BOOLEAN : Load(c, "stage", Instance(v, failed))
    BY <1>3 DEF Stage
  <2>2. QED
    BY <2>1, <1>2, InstanceType DEF Kinds
<1>4. CASE Promote(c)
  BY <1>4, <1>2 DEF Promote, Kinds
<1>5. CASE Rollback(c)
  BY <1>5, <1>2 DEF Rollback, Kinds
<1>6. QED
  BY <1>3, <1>4, <1>5

LEMMA PublishBegins ==
  ASSUME TypeOK, NEW c \in Callers, NEW v \in Versions, Publish(c, v)
  PROVE  \E k \in Call :
           /\ Begin(c, k) /\ Brings(k) /\ k.step = "removing" /\ k.loaded = Empty
           /\ k.kind = "publish" /\ k.release.version = v /\ k.release \in Release
<1> DEFINE k == [step |-> "removing", kind |-> "publish",
                 release |-> Instance(v, FALSE), loaded |-> Empty]
<1>1. k \in Call
  BY InstanceType, EmptyType DEF Call, Steps, Kinds
<1>2. Begin(c, k)
  BY DEF Publish
<1>3. Brings(k)
  BY InstanceType DEF Brings
<1>4. k.step = "removing" /\ k.loaded = Empty /\ k.kind = "publish"
      /\ k.release.version = v /\ k.release \in Release
  BY InstanceType
<1>5. QED
  <2> HIDE DEF k
  <2>1. QED
    BY <1>1, <1>2, <1>3, <1>4

-----------------------------------------------------------------------------
(* Types. *)

LEMMA VersionType ==
  ASSUME TypeInv, NEW c \in Callers, ~At(c, "idle"), call[c].kind \in {"publish", "stage"}
  PROVE  /\ call[c].release \in Release /\ call[c].release # None
         /\ Version(c) \in Versions /\ Version(c) # None /\ Id(call[c].release) = Version(c)
         /\ Name(c) \in Names /\ Name(c) = NameOf[Version(c)]
<1>1. call[c].release \in Release
  BY DEF TypeInv, Planned, Brings
<1>2. QED
  BY <1>1 DEF Version, Name, Id, Release

(* An operation that goes on brings what it brought, one that ends nothing. *)
LEMMA PlannedKept ==
  ASSUME TypeInv, NEW c \in Callers, call' \in [Callers -> Call],
         \A d \in Callers : d # c => call'[d] = call[d],
         \/ call'[c] = Idle
         \/ /\ ~At(c, "idle")
            /\ call'[c].kind = call[c].kind /\ call'[c].release = call[c].release
            /\ \/ call[c].step \in {"removing", "starting", "waiting", "stopping"}
               \/ call'[c].step = "saving"
         \/ /\ Brings(call'[c])
            /\ call'[c].kind = "publish" \/ call'[c].step = "saving"
  PROVE  Planned'
<1>1. ASSUME NEW d \in Callers PROVE ~At(d, "idle")' => Brings(call'[d])
  BY <1>1, IdleType DEF TypeInv, Planned, At, Brings
<1>2. ASSUME NEW d \in Callers, call'[d].step \in {"removing", "starting", "waiting", "stopping"}
      PROVE  call'[d].kind = "publish"
  BY <1>2, IdleType DEF TypeInv, Planned
<1>3. QED
  BY <1>1, <1>2 DEF Planned, Brings, At

LEMMA TypeInit == Init => TypeInv
<1> SUFFICES ASSUME Init PROVE TypeInv
  OBVIOUS
<1>1. TypeOK
  BY IdleType, EmptyType DEF Init, TypeOK
<1>2. Planned
  BY IdleType DEF Init, Planned, At
<1>3. QED
  BY <1>1, <1>2 DEF TypeInv

LEMMA TypeStep == TypeInv /\ [Next]_vars => TypeInv'
<1> SUFFICES ASSUME TypeInv, [Next]_vars PROVE TypeInv'
  OBVIOUS
<1> USE DEF TypeInv
<1>1. ASSUME NEW c \in Callers, Stage(c) \/ Promote(c) \/ Rollback(c) PROVE TypeInv'
  <2>1. PICK k \in Call : /\ Begin(c, k) /\ Brings(k) /\ k.step = "saving"
                          /\ UNCHANGED <<store, up, reported, shaken, stale>>
    BY <1>1, LoadBegins
  <2>2. Planned' /\ call' \in [Callers -> Call]
    BY <2>1, BeginEffect, PlannedKept
  <2>3. QED
    BY <2>1, <2>2 DEF TypeOK
<1>2. ASSUME NEW c \in Callers, NEW v \in Versions, Publish(c, v) PROVE TypeInv'
  <2>1. PICK k \in Call : Begin(c, k) /\ Brings(k) /\ k.kind = "publish"
    BY <1>2, PublishBegins
  <2>2. Planned' /\ call' \in [Callers -> Call]
    BY <2>1, BeginEffect, PlannedKept
  <2>3. QED
    BY <1>2, <2>2 DEF TypeOK, Publish
\* The steps in which a publish has a name to itself, or so it thinks.
<1>0. ASSUME NEW c \in Callers,
             At(c, "removing") \/ At(c, "starting") \/ At(c, "waiting") \/ At(c, "stopping")
      PROVE  Version(c) \in Versions /\ Name(c) \in Names
  BY <1>0, VersionType DEF At, Planned
<1>3. ASSUME NEW c \in Callers, RemoveOld(c) PROVE TypeInv'
  <2>1. Planned' /\ call' \in [Callers -> Call]
    BY <1>3, GoesEffect, PlannedKept DEF RemoveOld, At, Steps
  <2>2. QED
    BY <1>0, <1>3, <2>1 DEF TypeOK, RemoveOld, Removed
<1>4. ASSUME NEW c \in Callers, Runs(c) PROVE TypeInv'
  <2>1. Planned' /\ call' \in [Callers -> Call]
    BY <1>4, GoesEffect, PlannedKept DEF Runs, At, Steps
  <2>2. Version(c) \in Versions /\ Name(c) \in Names
    BY <1>0, <1>4 DEF Runs
  <2>3. QED
    BY <1>4, <2>1, <2>2 DEF TypeOK, Runs
<1>5. ASSUME NEW c \in Callers, Ready(c) PROVE TypeInv'
  <2>1. Planned' /\ call' \in [Callers -> Call]
    BY <1>5, ReadyEffect, PlannedKept DEF Ready, At
  <2>2. QED
    BY <1>5, <2>1 DEF TypeOK, Ready
<1>6. ASSUME NEW c \in Callers, NotReady(c) PROVE TypeInv'
  <2>1. Planned' /\ call' \in [Callers -> Call]
    BY <1>6, GoesEffect, PlannedKept DEF NotReady, At, Steps
  <2>2. QED
    BY <1>6, <2>1 DEF TypeOK, NotReady
\* The steps after which a call is over.
<1>7. ASSUME NEW c \in Callers, Returns(c) PROVE Planned' /\ call' \in [Callers -> Call]
  BY <1>7, ReturnsEffect, PlannedKept
<1>8. ASSUME NEW c \in Callers, RunFails(c) \/ Refused(c) PROVE TypeInv'
  BY <1>7, <1>8 DEF TypeOK, RunFails, Refused
<1>9. ASSUME NEW c \in Callers, Stops(c) PROVE TypeInv'
  BY <1>0, <1>7, <1>9 DEF TypeOK, Stops, Stopped, Removed
<1>10. ASSUME NEW c \in Callers, StopFails(c) PROVE TypeInv'
  <2>1. Name(c) \in Names
    BY <1>0, <1>10 DEF StopFails
  <2>2. QED
    BY <1>7, <1>10, <2>1 DEF TypeOK, StopFails
<1>11. ASSUME NEW c \in Callers, Save(c) PROVE TypeInv'
  <2>1. call[c] \in Call /\ Brings(call[c]) /\ May(call[c])
    BY <1>11 DEF Save, At, TypeOK, Planned
  <2>2. store' \in State
    BY <1>11, <2>1, OutcomeType DEF Save
  <2>3. call[c].kind = "publish" => Version(c) \in Versions
    BY <1>11, VersionType DEF Save, At
  <2>4. reported' \subseteq Versions
    BY <1>11, <2>3 DEF Save, TypeOK
  <2>5. stale' \in BOOLEAN /\ UNCHANGED <<up, shaken>> /\ Returns(c)
    BY <1>11 DEF Save, TypeOK
  <2>6. QED
    BY <1>7, <2>2, <2>4, <2>5 DEF TypeOK
<1>12. ASSUME NEW c \in Callers, SaveFails(c) \/ Crash(c) PROVE TypeInv'
  <2>1. call[c].kind = "publish" => Name(c) \in Names
    BY <1>12, VersionType DEF SaveFails, Crash, At
  <2>2. shaken' \subseteq Names
    BY <1>12, <2>1 DEF SaveFails, Crash, TypeOK
  <2>3. QED
    BY <1>7, <1>12, <2>2 DEF TypeOK, SaveFails, Crash
<1>13. ASSUME NEW n \in Names, RuntimeEnds(n) PROVE TypeInv'
  BY <1>13 DEF TypeOK, RuntimeEnds, Removed, Planned, At
<1>14. CASE UNCHANGED vars
  BY <1>14 DEF vars, TypeOK, Planned, At
<1>15. QED
  <2>1. ASSUME NEW c \in Callers, Proceeds(c) PROVE TypeInv'
    BY <2>1, <1>3, <1>4, <1>5, <1>6, <1>8, <1>9, <1>10, <1>11, <1>12 DEF Proceeds
  <2>2. QED
    BY <2>1, <1>1, <1>2, <1>12, <1>13, <1>14 DEF Next

LEMMA TypeInvHolds == Spec => []TypeInv
<1>1. QED
  BY TypeInit, TypeStep, PTL DEF Spec

(***************************************************************************)
(* Every variable has its type: a call that has a runtime in its hands is  *)
(* a publish, and whoever saves has loaded a state and brings a release if *)
(* it needs one.                                                           *)
(***************************************************************************)
THEOREM RolloutTypeCorrect == Spec => []TypeOK
<1>1. TypeInv => TypeOK
  BY DEF TypeInv
<1>2. QED
  BY <1>1, TypeInvHolds, PTL

-----------------------------------------------------------------------------
(***************************************************************************)
(* The copies of the state: a call loads the saved one or drops its own,   *)
(* and the saved one is only changed into the outcome of what a call has.  *)
(***************************************************************************)
LEMMA CopiesStep ==
  ASSUME TypeInv, [Next]_vars
  PROVE  /\ \A c \in Callers : call'[c].loaded \in {Empty, store, call[c].loaded}
         /\ store' # store => \E c \in Callers : Save(c)
<1> USE DEF TypeInv
<1>1. ASSUME NEW c \in Callers, Stage(c) \/ Promote(c) \/ Rollback(c)
      PROVE  store' = store /\ \A d \in Callers : call'[d].loaded \in {store, call[d].loaded}
  <2>1. PICK k \in Call : Begin(c, k) /\ k.loaded = store /\ UNCHANGED store
    BY <1>1, LoadBegins
  <2>2. QED
    BY <2>1, BeginEffect
<1>2. ASSUME NEW c \in Callers, NEW v \in Versions, Publish(c, v)
      PROVE  store' = store /\ \A d \in Callers : call'[d].loaded \in {Empty, call[d].loaded}
  <2>1. PICK k \in Call : Begin(c, k) /\ k.loaded = Empty
    BY <1>2, PublishBegins
  <2>2. QED
    BY <1>2, <2>1, BeginEffect DEF Publish
<1>3. ASSUME NEW c \in Callers, RemoveOld(c) \/ Runs(c) \/ NotReady(c)
      PROVE  store' = store /\ \A d \in Callers : call'[d].loaded = call[d].loaded
  BY <1>3, GoesEffect DEF RemoveOld, Runs, NotReady, Steps
<1>4. ASSUME NEW c \in Callers, Ready(c)
      PROVE  store' = store /\ \A d \in Callers : call'[d].loaded \in {store, call[d].loaded}
  BY <1>4, ReadyEffect DEF Ready
<1>5. ASSUME NEW c \in Callers, Returns(c)
      PROVE  \A d \in Callers : call'[d].loaded \in {Empty, call[d].loaded}
  BY <1>5, ReturnsEffect, IdleType
<1>6. ASSUME NEW c \in Callers, RunFails(c) \/ Stops(c) \/ StopFails(c) \/ Refused(c)
                                \/ SaveFails(c) \/ Crash(c)
      PROVE  store' = store /\ Returns(c)
  BY <1>6 DEF RunFails, Stops, StopFails, Refused, SaveFails, Crash
<1>7. ASSUME NEW c \in Callers, Save(c) PROVE Returns(c)
  BY <1>7 DEF Save
<1>8. ASSUME NEW n \in Names, RuntimeEnds(n)
      PROVE  store' = store /\ \A d \in Callers : call'[d].loaded = call[d].loaded
  BY <1>8 DEF RuntimeEnds
<1>9. CASE UNCHANGED vars
  BY <1>9 DEF vars
<1>10. CASE Next
  <2>1. ASSUME NEW c \in Callers, Proceeds(c)
        PROVE  /\ \A d \in Callers : call'[d].loaded \in {Empty, store, call[d].loaded}
               /\ store' = store \/ Save(c)
    BY <2>1, <1>3, <1>4, <1>5, <1>6, <1>7 DEF Proceeds
  <2>2. ASSUME NEW c \in Callers, Crash(c)
        PROVE  /\ \A d \in Callers : call'[d].loaded \in {Empty, store, call[d].loaded}
               /\ store' = store
    BY <2>2, <1>5, <1>6
  <2>3. QED
    BY <1>10, <2>1, <2>2, <1>1, <1>2, <1>8 DEF Next
<1>11. QED
  BY <1>9, <1>10

-----------------------------------------------------------------------------
(* Health. *)

Honest(r) == r # None => (r.healthy => ~r.failed)
Healthy(r) == r # None => r.healthy

Sane(s) ==
  /\ Honest(s.active) /\ Honest(s.previous) /\ Honest(s.candidate)
  /\ Healthy(s.active) /\ Healthy(s.previous)

SaneInv == Sane(store) /\ \A c \in Callers : Sane(call[c].loaded)

(* The slots of the outcome of a call. *)
LEMMA OutcomeSlots ==
  ASSUME NEW k \in Call, Brings(k), May(k)
  PROVE  \/ /\ Outcome(k).active = k.release /\ Outcome(k).previous = k.loaded.active
            /\ Outcome(k).candidate = None
            /\ k.release \in Release /\ k.release.healthy /\ ~k.release.failed
         \/ /\ Outcome(k).active = k.loaded.active /\ Outcome(k).previous = k.loaded.previous
            /\ Outcome(k).candidate = k.release
            /\ k.release.healthy => ~k.release.failed
         \/ /\ Outcome(k).active = k.loaded.candidate /\ Outcome(k).previous = k.loaded.active
            /\ Outcome(k).candidate = None
            /\ k.loaded.candidate.healthy
         \/ /\ Outcome(k).active = k.loaded.previous /\ Outcome(k).previous = k.loaded.active
            /\ Outcome(k).candidate = k.loaded.candidate
            /\ k.loaded.previous.healthy
<1> DEFINE s == k.loaded
           r == k.release
<1>1. /\ Promoted(Staged(s, r)).active = r /\ Promoted(Staged(s, r)).previous = s.active
      /\ Promoted(Staged(s, r)).candidate = None
  BY DEF Promoted, Staged
<1>2. /\ Staged(s, r).active = s.active /\ Staged(s, r).previous = s.previous
      /\ Staged(s, r).candidate = r
  BY DEF Staged
<1>3. /\ Promoted(s).active = s.candidate /\ Promoted(s).previous = s.active
      /\ Promoted(s).candidate = None
  BY DEF Promoted
<1>4. /\ RolledBack(s).active = s.previous /\ RolledBack(s).previous = s.active
      /\ RolledBack(s).candidate = s.candidate
  BY DEF RolledBack
<1>5. CASE k.kind = "publish"
  BY <1>1, <1>5, OutcomeIs DEF Brings
<1>6. CASE k.kind = "stage"
  BY <1>2, <1>6, OutcomeIs DEF Brings
<1>7. CASE k.kind = "promote"
  BY <1>3, <1>7, OutcomeIs
<1>8. CASE k.kind = "rollback"
  BY <1>4, <1>8, OutcomeIs
<1>9. QED
  BY <1>5, <1>6, <1>7, <1>8 DEF Call, Kinds

LEMMA SaneOutcome ==
  ASSUME NEW k \in Call, Brings(k), May(k), Sane(k.loaded)
  PROVE  Sane(Outcome(k))
<1> DEFINE o == Outcome(k)
           s == k.loaded
<1>1. Honest(None) /\ Healthy(None)
  BY DEF Honest, Healthy
<1>2. \/ /\ o.active = k.release /\ o.previous = s.active /\ o.candidate = None
         /\ Honest(k.release) /\ Healthy(k.release)
      \/ /\ o.active = s.active /\ o.previous = s.previous /\ o.candidate = k.release
         /\ Honest(k.release)
      \/ /\ o.active = s.candidate /\ o.previous = s.active /\ o.candidate = None
         /\ Healthy(s.candidate)
      \/ /\ o.active = s.previous /\ o.previous = s.active /\ o.candidate = s.candidate
  <2> HIDE DEF o
  <2>1. ASSUME k.release.healthy, ~k.release.failed PROVE Honest(k.release) /\ Healthy(k.release)
    BY <2>1 DEF Honest, Healthy
  <2>2. ASSUME k.release.healthy => ~k.release.failed PROVE Honest(k.release)
    BY <2>2 DEF Honest
  <2>3. ASSUME s.candidate.healthy PROVE Healthy(s.candidate)
    BY <2>3 DEF Healthy
  <2>4. QED
    BY <2>1, <2>2, <2>3, OutcomeSlots DEF o
<1>3. QED
  <2> HIDE DEF o, s
  <2>1. Sane(s)
    BY DEF s
  <2>2. QED
    BY <1>1, <1>2, <2>1 DEF Sane, o

LEMMA SaneInit == Init => SaneInv
  BY IdleType DEF Init, SaneInv, Sane, Honest, Healthy, Empty

LEMMA SaneStep == TypeInv /\ SaneInv /\ [Next]_vars => SaneInv'
<1> SUFFICES ASSUME TypeInv, SaneInv, [Next]_vars PROVE SaneInv'
  OBVIOUS
<1>1. Sane(Empty)
  BY DEF Sane, Honest, Healthy, Empty
<1>2. \A c \in Callers : Sane(call'[c].loaded)
  BY <1>1, CopiesStep DEF SaneInv
<1>3. ASSUME NEW c \in Callers, Save(c) PROVE Sane(store')
  <2>1. /\ call[c] \in Call /\ Brings(call[c]) /\ May(call[c]) /\ store' = Outcome(call[c])
        /\ Sane(call[c].loaded)
    BY <1>3 DEF Save, At, TypeInv, TypeOK, Planned, SaneInv
  <2>2. QED
    BY <2>1, SaneOutcome
<1>4. Sane(store')
  BY <1>3, CopiesStep DEF SaneInv
<1>5. QED
  BY <1>2, <1>4 DEF SaneInv

(***************************************************************************)
(* No release with a failed check becomes active or the target of a        *)
(* rollback: promote looks at the status of the candidate in the state it  *)
(* has loaded, and that status was made of its checks when it was staged,  *)
(* in whichever of the states that are saved over each other.              *)
(***************************************************************************)
THEOREM HealthyCorrect == Spec => []HealthyOnly
<1>1. SaneInv => HealthyOnly
  BY DEF SaneInv, Sane, Honest, Healthy, HealthyOnly
<1>2. QED
  BY <1>1, TypeInvHolds, SaneInit, SaneStep, PTL DEF Spec

-----------------------------------------------------------------------------
(* Timelines only grow, and a publish is in the one it makes. *)

Extended(t, u) == DOMAIN t \subseteq DOMAIN u /\ \A i \in DOMAIN t : u[i] = t[i]

PromotedIn(t, v) == \E i \in DOMAIN t : t[i].type = "candidate_promoted" /\ t[i].version = v

LEMMA AppendExtends ==
  ASSUME NEW t \in Seq(Event), NEW e \in Event
  PROVE  /\ Extended(t, Append(t, e))
         /\ Len(t) + 1 \in DOMAIN Append(t, e)
         /\ Append(t, e)[Len(t) + 1] = e
  BY DEF Extended

LEMMA OutcomeTimeline ==
  ASSUME NEW k \in Call, Brings(k), May(k)
  PROVE  /\ Extended(k.loaded.timeline, Outcome(k).timeline)
         /\ k.kind = "publish" => PromotedIn(Outcome(k).timeline, k.release.version)
<1> DEFINE s == k.loaded
           r == k.release
<1>1. s \in State
  BY DEF Call
<1>2. CASE k.kind = "publish"
  <2>1. r \in Release /\ Outcome(k) = Promoted(Staged(s, r))
    BY <1>2, OutcomeIs
  <2>2. Staged(s, r) \in State /\ Staged(s, r).candidate = r
        /\ Staged(s, r).active \in Release \cup {None}
        /\ Staged(s, r).timeline = Happened(s, "candidate_staged", r, None)
    BY <1>1, <2>1, StagedIs, StateFields DEF Staged
  <2>3. PICK e \in Event : Staged(s, r).timeline = Append(s.timeline, e)
    BY <1>1, <2>1, HappenedIs DEF Staged
  <2>4. Promoted(Staged(s, r)).timeline
          = Happened(Staged(s, r), "candidate_promoted", r, Staged(s, r).active)
    BY <2>2 DEF Promoted
  <2>5. PICK f \in Event : /\ f.type = "candidate_promoted" /\ f.version = r.version
                           /\ Promoted(Staged(s, r)).timeline = Append(Staged(s, r).timeline, f)
    BY <2>1, <2>2, <2>4, HappenedIs
  <2>6. s.timeline \in Seq(Event) /\ Staged(s, r).timeline \in Seq(Event)
    BY <1>1, <2>2, StateFields
  <2>7. Extended(s.timeline, Promoted(Staged(s, r)).timeline)
    BY <2>3, <2>5, <2>6, AppendExtends DEF Extended
  <2>8. PromotedIn(Promoted(Staged(s, r)).timeline, r.version)
    <3>1. Len(Staged(s, r).timeline) + 1 \in DOMAIN Promoted(Staged(s, r)).timeline
          /\ Promoted(Staged(s, r)).timeline[Len(Staged(s, r).timeline) + 1] = f
      BY <2>5, <2>6, AppendExtends
    <3>2. QED
      BY <3>1, <2>5 DEF PromotedIn
  <2>9. QED
    BY <2>1, <2>7, <2>8
<1>3. CASE k.kind = "stage"
  <2>1. r \in Release /\ Outcome(k) = Staged(s, r)
    BY <1>3, OutcomeIs
  <2>2. PICK e \in Event : Outcome(k).timeline = Append(s.timeline, e)
    BY <1>1, <2>1, HappenedIs DEF Staged
  <2>3. QED
    BY <1>1, <1>3, <2>2, StateFields, AppendExtends
<1>4. CASE k.kind = "promote"
  <2>1. s.candidate \in Release /\ Outcome(k) = Promoted(s)
    BY <1>4, OutcomeIs
  <2>2. s.active \in Release \cup {None}
    BY <1>1, StateFields
  <2>3. PICK e \in Event : Outcome(k).timeline = Append(s.timeline, e)
    BY <1>1, <2>1, <2>2, HappenedIs DEF Promoted
  <2>4. QED
    BY <1>1, <1>4, <2>3, StateFields, AppendExtends
<1>5. CASE k.kind = "rollback"
  <2>1. s.previous \in Release /\ Outcome(k) = RolledBack(s)
    BY <1>5, OutcomeIs
  <2>2. s.active \in Release \cup {None}
    BY <1>1, StateFields
  <2>3. PICK e \in Event : Outcome(k).timeline = Append(s.timeline, e)
    BY <1>1, <2>1, <2>2, HappenedIs, SMTT(30) DEF RolledBack
  <2>4. QED
    BY <1>1, <1>5, <2>3, StateFields, AppendExtends
<1>6. QED
  BY <1>2, <1>3, <1>4, <1>5 DEF Call, Kinds

-----------------------------------------------------------------------------
(***************************************************************************)
(* The accounts of the runtimes.  Two publishes to one name under way, or  *)
(* one to a name that serves a version, or did when one was reported: all  *)
(* that is in shaken, whether the versions are the same or only share the  *)
(* name.  A name that is not has at most one publish, which alone starts   *)
(* and stops what bears it.                                                *)
(***************************************************************************)
Alone ==
  \A c, d \in Callers :
    c # d /\ Publishes(c) /\ Publishes(d) /\ Name(c) = Name(d) => Name(c) \in shaken

First ==
  \A c \in Callers :
    /\ At(c, "removing") \/ At(c, "starting") => Name(c) \in shaken \/ up[Name(c)] = None
    /\ Publishes(c) => Name(c) \in shaken \/ \A v \in reported : NameOf[v] # Name(c)

Runtimes ==
  /\ \A c \in Callers : Publishes(c) /\ (At(c, "waiting") \/ At(c, "saving"))
                          => Name(c) \in shaken \/ up[Name(c)] = Version(c)
  /\ \A v \in reported : NameOf[v] \in shaken \/ up[NameOf[v]] = v

(* A container serves a version of its name. *)
Labelled == \A n \in Names : up[n] # None => NameOf[up[n]] = n

RecordedIn(t, v) == \E i \in DOMAIN t : t[i].version = v

Known ==
  ~stale => /\ \A n \in Names \ shaken : up[n] # None =>
                 \/ \E c \in Callers : Publishes(c) /\ Version(c) = up[n]
                 \/ RecordedIn(store.timeline, up[n])
            /\ \A v \in reported : PromotedIn(store.timeline, v)

Accounts == Alone /\ First /\ Runtimes /\ Labelled /\ Known

LEMMA AccountsInit == Init => Accounts
  BY IdleType DEF Init, Accounts, Alone, First, Runtimes, Labelled, Known, Publishes, At

\* A call that does not publish begins.
LEMMA AccountsLoad ==
  ASSUME TypeInv, Accounts, NEW c \in Callers, Stage(c) \/ Promote(c) \/ Rollback(c)
  PROVE  Accounts'
<1>1. PICK k \in Call :
        /\ Begin(c, k) /\ k.step = "saving" /\ k.kind # "publish"
        /\ UNCHANGED <<store, up, reported, shaken, stale>>
  BY LoadBegins DEF TypeInv
<1>2. At(c, "idle") /\ call'[c] = k /\ \A d \in Callers : d # c => call'[d] = call[d]
  BY <1>1, BeginEffect DEF TypeInv, Begin
<1>3. \A d \in Callers : /\ Publishes(d)' <=> Publishes(d)
                         /\ Publishes(d) => call'[d] = call[d]
                         /\ At(d, "removing")' \/ At(d, "starting")' => call'[d] = call[d]
  BY <1>1, <1>2 DEF Publishes, At
<1>4. QED
  BY <1>1, <1>3 DEF Accounts, Alone, First, Runtimes, Labelled, Known, Publishes, At, Version, Name

\* A publish begins: its name is shaken when it is used.
LEMMA AccountsPublish ==
  ASSUME TypeInv, Accounts, NEW c \in Callers, NEW v \in Versions, Publish(c, v)
  PROVE  Accounts'
<1>1. PICK k \in Call :
        /\ Begin(c, k) /\ k.step = "removing" /\ k.kind = "publish" /\ k.release.version = v
    BY PublishBegins DEF TypeInv
<1>2. At(c, "idle") /\ call'[c] = k /\ \A d \in Callers : d # c => call'[d] = call[d]
  BY <1>1, BeginEffect DEF TypeInv, Begin
<1>3. UNCHANGED <<store, up, reported, stale>>
  BY DEF Publish
<1>4. shaken \subseteq shaken'
  BY DEF Publish
<1>5. /\ up[NameOf[v]] = None \/ NameOf[v] \in shaken'
      /\ \A w \in reported : NameOf[w] = NameOf[v] => NameOf[v] \in shaken'
  BY DEF Publish, Used
<1>6. ASSUME NEW d \in Callers, Publishes(d), Name(d) = NameOf[v] PROVE NameOf[v] \in shaken'
  BY <1>6 DEF Publish, Used
<1>7. ~Publishes(c) /\ Publishes(c)' /\ Name(c)' = NameOf[v] /\ At(c, "removing")'
  BY <1>1, <1>2 DEF Publishes, At, Version, Name
<1>8. \A d \in Callers : d # c => /\ Publishes(d)' <=> Publishes(d)
                                  /\ Version(d)' = Version(d) /\ Name(d)' = Name(d)
                                  /\ \A s \in Steps : At(d, s)' <=> At(d, s)
  BY <1>2 DEF Publishes, At, Version, Name
<1>9. Alone' /\ First' /\ Runtimes'
  BY <1>3, <1>4, <1>5, <1>6, <1>7, <1>8 DEF Accounts, Alone, First, Runtimes, At, Steps
<1>10. Labelled' /\ Known'
  BY <1>3, <1>4, <1>7, <1>8 DEF Accounts, Labelled, Known
<1>11. QED
  BY <1>9, <1>10 DEF Accounts

\* A publish takes a step that is not its last one.
LEMMA AccountsGoes ==
  ASSUME TypeInv, Accounts, NEW c \in Callers,
         RemoveOld(c) \/ Runs(c) \/ Ready(c) \/ NotReady(c)
  PROVE  Accounts'
<1> DEFINE n == Name(c)
<1>0. TypeOK /\ Planned
  BY DEF TypeInv
<1>1. UNCHANGED <<store, reported, shaken, stale>>
  BY DEF RemoveOld, Runs, Ready, NotReady
<1>2. /\ Publishes(c) /\ Publishes(c)' /\ Version(c)' = Version(c)
      /\ \A d \in Callers : d # c => call'[d] = call[d]
      /\ \/ At(c, "removing") /\ At(c, "starting")' /\ up' \in {up, Removed(n)}
         \/ /\ At(c, "starting") /\ At(c, "waiting")' /\ up[n] = None
            /\ up' = [up EXCEPT ![n] = Version(c)]
         \/ At(c, "waiting") /\ At(c, "saving")' /\ up' = up
         \/ At(c, "waiting") /\ At(c, "stopping")' /\ up' = up
  <2>1. CASE RemoveOld(c)
    BY <1>0, <2>1, GoesEffect DEF RemoveOld, Publishes, At, Version, Steps, Planned
  <2>2. CASE Runs(c)
    BY <1>0, <2>2, GoesEffect DEF Runs, Publishes, At, Version, Steps, Planned
  <2>3. CASE Ready(c)
    BY <1>0, <2>3, ReadyEffect DEF Ready, Publishes, At, Version, Steps, Planned
  <2>4. CASE NotReady(c)
    BY <1>0, <2>4, GoesEffect DEF NotReady, Publishes, At, Version, Steps, Planned
  <2>5. QED
    BY <2>1, <2>2, <2>3, <2>4
<1>3. \A d \in Callers : /\ Publishes(d)' <=> Publishes(d)
                         /\ Version(d)' = Version(d) /\ Name(d)' = Name(d)
                         /\ d # c => \A s \in Steps : At(d, s)' <=> At(d, s)
  BY <1>2 DEF Publishes, At, Version, Name
<1>4. /\ Version(c) \in Versions /\ n \in Names /\ n = NameOf[Version(c)]
      /\ up \in [Names -> Versions \cup {None}]
  BY <1>0, <1>2, VersionType DEF TypeInv, TypeOK, Publishes
\* Only what bears the name of the publish is touched.
<1>5. /\ up' \in [Names -> Versions \cup {None}]
      /\ \A m \in Names : m # n => up'[m] = up[m]
      /\ \/ At(c, "removing") /\ At(c, "starting")' /\ up'[n] \in {None, up[n]}
         \/ At(c, "starting") /\ At(c, "waiting")' /\ up[n] = None /\ up'[n] = Version(c)
         \/ At(c, "waiting") /\ (At(c, "saving")' \/ At(c, "stopping")') /\ up' = up
  <2> HIDE DEF n
  <2>1. QED
    BY <1>2, <1>4 DEF Removed
<1> HIDE DEF n
<1>6. n = Name(c)
  BY DEF n
<1>7. Alone'
  BY <1>1, <1>3 DEF Accounts, Alone
<1>8. ASSUME NEW d \in Callers, Publishes(d)
      PROVE  /\ Name(d) \in Names
             /\ d # c => Name(d) # n \/ Name(d) \in shaken
  BY <1>2, <1>6, <1>8, VersionType DEF Accounts, Alone, Publishes
<1>9. First'
  <2>1. ASSUME NEW d \in Callers, At(d, "removing")' \/ At(d, "starting")'
        PROVE  Name(d) \in shaken \/ up'[Name(d)] = None
    <3>1. CASE d = c
      BY <1>4, <1>5, <1>6, <2>1, <3>1 DEF Accounts, First, At
    <3>2. CASE d # c
      <4>1. At(d, "removing") \/ At(d, "starting")
        BY <1>3, <2>1, <3>2 DEF Steps
      <4>2. Publishes(d)
        BY <1>0, <4>1 DEF Planned, Publishes, At
      <4>3. QED
        BY <1>5, <1>8, <3>2, <4>1, <4>2 DEF Accounts, First
    <3>3. QED
      BY <3>1, <3>2
  <2>2. QED
    BY <1>1, <1>3, <2>1 DEF Accounts, First
<1>10. Runtimes'
  <2>1. ASSUME NEW d \in Callers, Publishes(d), At(d, "waiting")' \/ At(d, "saving")'
        PROVE  Name(d) \in shaken \/ up'[Name(d)] = Version(d)
    <3>1. CASE d = c
      BY <1>4, <1>5, <1>6, <2>1, <3>1 DEF Accounts, Runtimes, At
    <3>2. CASE d # c
      <4>1. At(d, "waiting") \/ At(d, "saving")
        BY <1>3, <2>1, <3>2 DEF Steps
      <4>2. QED
        BY <1>5, <1>8, <2>1, <3>2, <4>1 DEF Accounts, Runtimes
    <3>3. QED
      BY <3>1, <3>2
  <2>2. ASSUME NEW v \in reported PROVE NameOf[v] \in shaken \/ up'[NameOf[v]] = v
    <3>1. NameOf[v] \in Names
      BY <1>0 DEF TypeOK
    <3>2. NameOf[v] = n => NameOf[v] \in shaken
      BY <1>2, <1>6 DEF Accounts, First
    <3>3. QED
      BY <1>5, <3>1, <3>2 DEF Accounts, Runtimes
  <2>3. QED
    BY <1>1, <1>3, <2>1, <2>2 DEF Runtimes
<1>11. Labelled'
  BY <1>4, <1>5 DEF Accounts, Labelled
<1>12. Known'
  BY <1>1, <1>2, <1>3, <1>5 DEF Accounts, Known
<1>13. QED
  BY <1>7, <1>9, <1>10, <1>11, <1>12 DEF Accounts

\* A call ends, and leaves the saved state and what was reported as it is.
LEMMA AccountsEnds ==
  ASSUME TypeInv, Accounts, NEW c \in Callers, Returns(c),
         UNCHANGED <<store, reported, stale>>, shaken \subseteq shaken',
         \A n \in Names : up'[n] = up[n] \/ (Publishes(c) /\ n = Name(c) /\ up'[n] = None),
         Publishes(c) => up'[Name(c)] = None \/ Name(c) \in shaken'
  PROVE  Accounts'
<1>1. /\ ~Publishes(c)' /\ \A s \in Steps \ {"idle"} : ~At(c, s)'
      /\ \A d \in Callers : d # c => call'[d] = call[d]
  BY ReturnsEffect, IdleType DEF TypeInv, Publishes, At
<1>2. \A d \in Callers : d # c => /\ Publishes(d)' <=> Publishes(d)
                                  /\ Version(d)' = Version(d) /\ Name(d)' = Name(d)
                                  /\ \A s \in Steps : At(d, s)' <=> At(d, s)
  BY <1>1 DEF Publishes, At, Version, Name
<1>3. Alone'
  BY <1>1, <1>2 DEF Accounts, Alone
<1>4. ASSUME NEW d \in Callers, d # c, Publishes(d)
      PROVE  Name(d) \in Names /\ (Name(d) \in shaken \/ up'[Name(d)] = up[Name(d)])
  <2>1. Name(d) \in Names
    BY <1>4, VersionType DEF Publishes
  <2>2. Publishes(c) /\ Name(c) = Name(d) => Name(d) \in shaken
    BY <1>4 DEF Accounts, Alone
  <2>3. QED
    BY <2>1, <2>2
<1>5. First'
  <2>1. ASSUME NEW d \in Callers, d # c, At(d, "removing") \/ At(d, "starting")
        PROVE  Name(d) \in shaken' \/ up'[Name(d)] = None
    <3>1. Publishes(d)
      BY <2>1 DEF TypeInv, Planned, Publishes, At
    <3>2. QED
      BY <1>4, <2>1, <3>1 DEF Accounts, First
  <2>2. ASSUME NEW d \in Callers, d # c, Publishes(d)
        PROVE  Name(d) \in shaken' \/ \A v \in reported' : NameOf[v] # Name(d)
    BY <2>2 DEF Accounts, First
  <2>3. QED
    BY <1>1, <1>2, <2>1, <2>2 DEF First, Steps
<1>6. Runtimes'
  <2>1. ASSUME NEW d \in Callers, d # c, Publishes(d), At(d, "waiting") \/ At(d, "saving")
        PROVE  Name(d) \in shaken' \/ up'[Name(d)] = Version(d)
    BY <1>4, <2>1 DEF Accounts, Runtimes
  <2>2. ASSUME NEW v \in reported PROVE NameOf[v] \in shaken' \/ up'[NameOf[v]] = v
    <3>1. NameOf[v] \in Names
      BY DEF TypeInv, TypeOK
    <3>2. Publishes(c) /\ NameOf[v] = Name(c) => NameOf[v] \in shaken
      BY DEF Accounts, First
    <3>3. QED
      BY <3>1, <3>2 DEF Accounts, Runtimes
  <2>3. QED
    BY <1>1, <1>2, <2>1, <2>2 DEF Runtimes, Steps
<1>7. Labelled'
  BY DEF Accounts, Labelled
<1>8. Known'
  <2>1. ASSUME ~stale, NEW n \in Names \ shaken', up'[n] # None
        PROVE  \/ \E d \in Callers : Publishes(d)' /\ Version(d)' = up'[n]
               \/ RecordedIn(store.timeline, up'[n])
    <3>1. up'[n] = up[n] /\ n \notin shaken /\ NameOf[up[n]] = n
      BY <2>1 DEF Accounts, Labelled
    <3>2. \/ \E d \in Callers : Publishes(d) /\ Version(d) = up[n]
          \/ RecordedIn(store.timeline, up[n])
      BY <2>1, <3>1 DEF Accounts, Known
    <3>3. ~(Publishes(c) /\ Version(c) = up[n])
      BY <2>1, <3>1 DEF Name
    <3>4. QED
      BY <1>2, <3>1, <3>2, <3>3
  <2>2. QED
    BY <2>1 DEF Accounts, Known
<1>9. QED
  BY <1>3, <1>5, <1>6, <1>7, <1>8 DEF Accounts

LEMMA AccountsSave ==
  ASSUME TypeInv, Accounts, NEW c \in Callers, Save(c)
  PROVE  Accounts'
<1>1. /\ ~Publishes(c)' /\ (\A s \in Steps \ {"idle"} : ~At(c, s)')
      /\ \A d \in Callers : d # c => call'[d] = call[d]
  BY ReturnsEffect, IdleType DEF Save, TypeInv, Publishes, At
<1>2. \A d \in Callers : d # c => /\ Publishes(d)' <=> Publishes(d)
                                  /\ Version(d)' = Version(d) /\ Name(d)' = Name(d)
                                  /\ \A s \in Steps : At(d, s)' <=> At(d, s)
  BY <1>1 DEF Publishes, At, Version, Name
<1>3. UNCHANGED <<up, shaken>>
  BY DEF Save
<1>4. \A v \in reported' : v \in reported \/ (Publishes(c) /\ v = Version(c))
  BY DEF Save, Publishes, At
<1>5. Publishes(c) => Name(c) \in shaken \/ up[Name(c)] = Version(c)
  BY DEF Save, Accounts, Runtimes
<1>6. Alone'
  BY <1>1, <1>2, <1>3 DEF Accounts, Alone
<1>7. First'
  <2>1. ASSUME NEW d \in Callers, d # c, Publishes(d)
        PROVE  Name(d) \in shaken \/ \A v \in reported' : NameOf[v] # Name(d)
    <3>1. Publishes(c) /\ Name(c) = Name(d) => Name(d) \in shaken
      BY <2>1 DEF Accounts, Alone
    <3>2. QED
      BY <1>4, <2>1, <3>1 DEF Accounts, First, Name
  <2>2. QED
    BY <1>1, <1>2, <1>3, <2>1 DEF Accounts, First, Steps
<1>8. Runtimes' /\ Labelled'
  BY <1>1, <1>2, <1>3, <1>4, <1>5 DEF Accounts, Runtimes, Labelled, Steps, Name
<1>9. Known'
  <2>1. /\ call[c] \in Call /\ Brings(call[c]) /\ May(call[c]) /\ store' = Outcome(call[c])
        /\ stale' = (stale \/ call[c].loaded # store)
    BY DEF Save, At, TypeInv, TypeOK, Planned
  <2>2. SUFFICES ASSUME ~stale' PROVE /\ \A n \in Names \ shaken : up[n] # None =>
                                           \/ \E d \in Callers : Publishes(d)' /\ Version(d)' = up[n]
                                           \/ RecordedIn(store'.timeline, up[n])
                                      /\ \A v \in reported' : PromotedIn(store'.timeline, v)
    BY <1>3 DEF Known
  <2>3. ~stale /\ call[c].loaded = store
    BY <2>1, <2>2
  <2>4. Extended(store.timeline, store'.timeline)
    BY <2>1, <2>3, OutcomeTimeline
  <2>5. Publishes(c) => PromotedIn(store'.timeline, Version(c))
    BY <2>1, OutcomeTimeline DEF Publishes, Version
  <2>6. ASSUME NEW n \in Names \ shaken, up[n] # None
        PROVE  \/ \E d \in Callers : Publishes(d)' /\ Version(d)' = up[n]
               \/ RecordedIn(store'.timeline, up[n])
    <3>1. \/ \E d \in Callers : Publishes(d) /\ Version(d) = up[n]
          \/ RecordedIn(store.timeline, up[n])
      BY <2>3, <2>6 DEF Accounts, Known
    <3>2. RecordedIn(store.timeline, up[n]) => RecordedIn(store'.timeline, up[n])
      BY <2>4 DEF RecordedIn, Extended
    <3>3. Publishes(c) /\ Version(c) = up[n] => RecordedIn(store'.timeline, up[n])
      BY <2>5 DEF RecordedIn, PromotedIn
    <3>4. QED
      BY <1>2, <3>1, <3>2, <3>3
  <2>7. ASSUME NEW v \in reported' PROVE PromotedIn(store'.timeline, v)
    <3>1. v \in reported => PromotedIn(store.timeline, v)
      BY <2>3 DEF Accounts, Known
    <3>2. QED
      BY <1>4, <2>4, <2>5, <2>7, <3>1 DEF PromotedIn, Extended
  <2>8. QED
    BY <2>6, <2>7
<1>10. QED
  BY <1>6, <1>7, <1>8, <1>9 DEF Accounts

LEMMA AccountsRuntimeEnds ==
  ASSUME TypeInv, Accounts, NEW n \in Names, RuntimeEnds(n)
  PROVE  Accounts'
<1>1. UNCHANGED <<store, call, reported, stale>> /\ up' = Removed(n) /\ shaken' = shaken \cup {n}
  BY DEF RuntimeEnds
<1>2. up'[n] = None /\ \A m \in Names : m # n => up'[m] = up[m]
  BY <1>1 DEF Removed, TypeInv, TypeOK
<1>3. \A d \in Callers : /\ Publishes(d)' <=> Publishes(d)
                         /\ Version(d)' = Version(d) /\ Name(d)' = Name(d)
                         /\ \A s \in Steps : At(d, s)' <=> At(d, s)
  BY <1>1 DEF Publishes, At, Version, Name
<1>4. \A d \in Callers : Publishes(d) => Name(d) \in Names
  BY VersionType DEF Publishes
<1>5. ASSUME NEW d \in Callers, At(d, "removing") \/ At(d, "starting") PROVE Publishes(d)
  BY <1>5 DEF TypeInv, Planned, Publishes, At
<1>6. Alone' /\ First'
  BY <1>1, <1>2, <1>3, <1>4, <1>5 DEF Accounts, Alone, First, Steps
<1>7. Runtimes'
  <2>1. \A v \in reported : NameOf[v] \in Names
    BY DEF TypeInv, TypeOK
  <2>2. QED
    BY <1>1, <1>2, <1>3, <1>4, <2>1 DEF Accounts, Runtimes, Steps
<1>8. Labelled' /\ Known'
  BY <1>1, <1>2, <1>3 DEF Accounts, Labelled, Known
<1>9. QED
  BY <1>6, <1>7, <1>8 DEF Accounts

LEMMA AccountsStep == TypeInv /\ Accounts /\ [Next]_vars => Accounts'
<1> SUFFICES ASSUME TypeInv, Accounts, [Next]_vars PROVE Accounts'
  OBVIOUS
<1>1. ASSUME NEW c \in Callers, RunFails(c) PROVE Accounts'
  <2>1. Publishes(c) /\ (Name(c) \in shaken \/ up[Name(c)] = None)
    BY <1>1 DEF RunFails, Publishes, At, TypeInv, Planned, Accounts, First
  <2>2. Returns(c) /\ UNCHANGED <<store, up, reported, shaken, stale>>
    BY <1>1 DEF RunFails
  <2>3. QED
    BY <2>1, <2>2, AccountsEnds
<1>2. ASSUME NEW c \in Callers, Refused(c) PROVE Accounts'
  <2>1. ~Publishes(c)
    BY <1>2 DEF Refused, Publishes, May
  <2>2. Returns(c) /\ UNCHANGED <<store, up, reported, shaken, stale>>
    BY <1>2 DEF Refused
  <2>3. QED
    BY <2>1, <2>2, AccountsEnds
<1>3. ASSUME NEW c \in Callers, Stops(c) PROVE Accounts'
  <2>1. Publishes(c) /\ Name(c) \in Names
    BY <1>3, VersionType DEF Stops, Publishes, At, TypeInv, Planned
  <2>2. /\ Returns(c) /\ UNCHANGED <<store, reported, shaken, stale>>
        /\ up'[Name(c)] = None /\ \A n \in Names : n # Name(c) => up'[n] = up[n]
    BY <1>3, <2>1 DEF Stops, Stopped, Removed, TypeInv, TypeOK
  <2>3. QED
    BY <2>1, <2>2, AccountsEnds
<1>4. ASSUME NEW c \in Callers, StopFails(c) PROVE Accounts'
  <2>1. /\ Returns(c) /\ UNCHANGED <<store, up, reported, stale>>
        /\ shaken' = shaken \cup {Name(c)}
    BY <1>4 DEF StopFails
  <2>2. QED
    BY <2>1, AccountsEnds
<1>5. ASSUME NEW c \in Callers, SaveFails(c) \/ Crash(c) PROVE Accounts'
  <2>1. /\ Returns(c) /\ UNCHANGED <<store, up, reported, stale>>
        /\ shaken \subseteq shaken'
        /\ Publishes(c) => Name(c) \in shaken'
    BY <1>5 DEF SaveFails, Crash, Publishes
  <2>2. QED
    BY <2>1, AccountsEnds
<1>6. CASE UNCHANGED vars
  BY <1>6 DEF vars, Accounts, Alone, First, Runtimes, Labelled, Known, Publishes, At, Version, Name
<1>7. CASE Next
  <2>1. ASSUME NEW c \in Callers, Proceeds(c) PROVE Accounts'
    BY <2>1, <1>1, <1>2, <1>3, <1>4, <1>5, AccountsGoes, AccountsSave DEF Proceeds
  <2>2. QED
    BY <1>7, <2>1, <1>5, AccountsLoad, AccountsPublish, AccountsRuntimeEnds DEF Next
<1>8. QED
  BY <1>6, <1>7

LEMMA AccountsHold == Spec => []Accounts
  BY AccountsInit, AccountsStep, TypeInvHolds, PTL DEF Spec

(***************************************************************************)
(* The runtime of a published release that is active or previous runs and  *)
(* serves that version, as long as its name was published to once and its  *)
(* container did not end by itself: no publish to another name, and no     *)
(* clean-up after one, touches it.  Nothing is assumed of the naming: of   *)
(* versions that share a name it speaks until the second of them is        *)
(* published.                                                              *)
(***************************************************************************)
THEOREM SlotsServedCorrect == Spec => []SlotsServed
<1>1. Accounts => SlotsServed
  BY DEF Accounts, Runtimes, SlotsServed
<1>2. QED
  BY <1>1, AccountsHold, PTL

(***************************************************************************)
(* A publish that said it succeeded is promoted in the saved timeline, as  *)
(* long as no state was saved over a newer one.                            *)
(***************************************************************************)
THEOREM ReportedCorrect == Spec => []ReportedRecorded
<1>1. Accounts => ReportedRecorded
  BY DEF Accounts, Known, PromotedIn, ReportedRecorded
<1>2. QED
  BY <1>1, AccountsHold, PTL

(***************************************************************************)
(* A runtime that runs is being published or known to the timeline, except *)
(* for what crashes, failing saves and stops, second publishes to a name   *)
(* and overwritten states have left.                                       *)
(***************************************************************************)
THEOREM NoOrphanCorrect == Spec => []NoOrphan
<1>1. Accounts => NoOrphan
  BY DEF Accounts, Known, RecordedIn, NoOrphan
<1>2. QED
  BY <1>1, AccountsHold, PTL

-----------------------------------------------------------------------------
(***************************************************************************)
(* The timeline.  The slots a timeline reaches are those of its last move, *)
(* and there is a last one among the moves before any event: the moves are *)
(* appended one by one.                                                    *)
(***************************************************************************)
HasLast(t) ==
  \A i \in 1 .. Len(t) + 1 :
    Before(t, i) = {} \/ \E m \in Before(t, i) : \A j \in Before(t, i) : j <= m

Sound(s) == Explains(s) /\ HasLast(s.timeline)

LEMMA ReachedLast ==
  ASSUME NEW t, NEW M \in SUBSET Nat, NEW m \in M, \A j \in M : j <= m
  PROVE  Reached(t, M) = [active |-> t[m].version, previous |-> t[m].previous]
<1>1. ASSUME NEW i \in M, \A j \in M : j <= i PROVE i = m
  BY <1>1
<1>2. (CHOOSE i \in M : \A j \in M : j <= i) = m
  BY <1>1
<1>3. QED
  BY <1>2 DEF Reached

LEMMA AppendMoves ==
  ASSUME NEW t \in Seq(Event), NEW e \in Event, HasLast(t)
  PROVE  LET u == Append(t, e)
             n == Len(t)
         IN  /\ n \in Nat /\ DOMAIN t = 1 .. n /\ DOMAIN u = 1 .. n + 1
             /\ u[n + 1] = e /\ \A i \in 1 .. n : u[i] = t[i]
             /\ Before(t, n + 1) = Moves(t)
             /\ \A i \in 1 .. n + 1 : Before(u, i) = Before(t, i)
             /\ \A i \in 1 .. n + 1 : Reached(u, Before(u, i)) = Reached(t, Before(t, i))
             /\ e.type = "candidate_staged" =>
                  Moves(u) = Moves(t) /\ Reached(u, Moves(u)) = Reached(t, Moves(t))
             /\ e.type # "candidate_staged" =>
                  /\ Moves(u) = Moves(t) \cup {n + 1}
                  /\ Reached(u, Moves(u)) = [active |-> e.version, previous |-> e.previous]
             /\ HasLast(u)
<1> DEFINE u == Append(t, e)
           n == Len(t)
<1>1. n \in Nat /\ DOMAIN t = 1 .. n /\ DOMAIN u = 1 .. n + 1 /\ Len(u) = n + 1
      /\ u[n + 1] = e /\ \A i \in 1 .. n : u[i] = t[i]
  OBVIOUS
<1> HIDE DEF u, n
<1>2. Before(t, n + 1) = Moves(t)
  BY <1>1 DEF Before, Moves
<1>3. ASSUME NEW i \in 1 .. n + 1 PROVE Before(u, i) = Before(t, i) /\ Before(t, i) \subseteq 1 .. n
  BY <1>1 DEF Before, Moves
<1>4. ASSUME NEW i \in 1 .. n + 1 PROVE Reached(u, Before(u, i)) = Reached(t, Before(t, i))
  <2>1. CASE Before(t, i) = {}
    BY <1>3, <2>1 DEF Reached
  <2>2. CASE Before(t, i) # {}
    <3>1. PICK m \in Before(t, i) : \A j \in Before(t, i) : j <= m
      BY <2>2 DEF HasLast, n
    <3>2. m \in 1 .. n /\ u[m] = t[m] /\ Before(t, i) \in SUBSET Nat
      BY <1>1, <1>3
    <3>3. Reached(t, Before(t, i)) = [active |-> t[m].version, previous |-> t[m].previous]
      BY <3>1, <3>2, ReachedLast
    <3>4. Reached(u, Before(t, i)) = [active |-> u[m].version, previous |-> u[m].previous]
      BY <3>1, <3>2, ReachedLast
    <3>5. QED
      BY <1>3, <3>2, <3>3, <3>4
  <2>3. QED
    BY <2>1, <2>2
<1>5. e.type = "candidate_staged" => Moves(u) = Moves(t)
  BY <1>1 DEF Moves
<1>6. e.type # "candidate_staged" => Moves(u) = Moves(t) \cup {n + 1}
  BY <1>1 DEF Moves
<1>7. n + 1 \in 1 .. n + 1
  BY <1>1
<1>8. e.type = "candidate_staged" => Reached(u, Moves(u)) = Reached(t, Moves(t))
  BY <1>2, <1>3, <1>4, <1>5, <1>7
<1>9. Moves(t) \subseteq 1 .. n
  BY <1>1 DEF Moves
<1>10. ASSUME e.type # "candidate_staged"
       PROVE  Reached(u, Moves(u)) = [active |-> e.version, previous |-> e.previous]
  <2>1. Moves(u) \in SUBSET Nat /\ n + 1 \in Moves(u) /\ \A j \in Moves(u) : j <= n + 1
    BY <1>1, <1>6, <1>9, <1>10
  <2>2. QED
    BY <1>1, <2>1, ReachedLast
<1>11. HasLast(u)
  <2>1. Before(u, n + 2) = Moves(u)
    BY <1>1 DEF Before, Moves
  <2>2. Moves(u) = {} \/ \E m \in Moves(u) : \A j \in Moves(u) : j <= m
    <3>1. Moves(t) = {} \/ \E m \in Moves(t) : \A j \in Moves(t) : j <= m
      BY <1>2, <1>7 DEF HasLast, n
    <3>2. CASE e.type = "candidate_staged"
      BY <1>5, <3>1, <3>2
    <3>3. CASE e.type # "candidate_staged"
      <4>1. n + 1 \in Moves(u) /\ \A j \in Moves(u) : j <= n + 1
        BY <1>1, <1>6, <1>9, <3>3
      <4>2. QED
        BY <4>1
    <3>4. QED
      BY <3>2, <3>3
  <2>3. ASSUME NEW i \in 1 .. n + 1
        PROVE  Before(u, i) = {} \/ \E m \in Before(u, i) : \A j \in Before(u, i) : j <= m
    BY <1>3, <2>3 DEF HasLast, n
  <2>4. \A i \in 1 .. Len(u) + 1 : i \in 1 .. n + 1 \/ i = n + 2
    BY <1>1
  <2>5. QED
    BY <2>1, <2>2, <2>3, <2>4 DEF HasLast
<1>12. QED
  BY <1>1, <1>2, <1>3, <1>4, <1>5, <1>6, <1>8, <1>10, <1>11 DEF u, n

\* What Explains says, with the timeline by name.
LEMMA ExplainsIs ==
  ASSUME NEW s, NEW t, t = s.timeline
  PROVE  Explains(s) <=>
      /\ Reached(t, Moves(t)) = [active |-> Id(s.active), previous |-> Id(s.previous)]
      /\ \A i \in Moves(t) :
           /\ t[i].previous = Reached(t, Before(t, i)).active
           /\ t[i].type = "rollback_completed" => t[i].version = Reached(t, Before(t, i)).previous
      /\ \A i \in DOMAIN t : Awaits(t, i) => Id(s.candidate) = t[i].version
      /\ s.candidate # None => \E i \in DOMAIN t : Awaits(t, i)
  BY DEF Explains

\* The same for the timeline of a sound state.
LEMMA SoundIs ==
  ASSUME NEW s, Sound(s)
  PROVE  /\ Reached(s.timeline, Moves(s.timeline))
              = [active |-> Id(s.active), previous |-> Id(s.previous)]
         /\ \A i \in Moves(s.timeline) :
              /\ s.timeline[i].previous = Reached(s.timeline, Before(s.timeline, i)).active
              /\ s.timeline[i].type = "rollback_completed"
                   => s.timeline[i].version = Reached(s.timeline, Before(s.timeline, i)).previous
         /\ \A i \in DOMAIN s.timeline : Awaits(s.timeline, i) => Id(s.candidate) = s.timeline[i].version
         /\ s.candidate # None => \E i \in DOMAIN s.timeline : Awaits(s.timeline, i)
  BY DEF Sound, Explains

LEMMA StagedSound ==
  ASSUME NEW s \in State, NEW r \in Release, Sound(s)
  PROVE  Sound(Staged(s, r))
<1> DEFINE t == s.timeline
           n == Len(t)
           o == Staged(s, r)
<1>1. PICK e \in Event : /\ e.type = "candidate_staged" /\ e.version = r.version
                         /\ Happened(s, "candidate_staged", r, None) = Append(t, e)
  BY HappenedIs
<1> DEFINE u == Append(t, e)
<1>2. o.timeline = u /\ o.active = s.active /\ o.previous = s.previous /\ o.candidate = r
  BY <1>1 DEF Staged
<1>3. t \in Seq(Event) /\ HasLast(t)
  BY StateFields DEF Sound
<1>4. /\ n \in Nat /\ DOMAIN t = 1 .. n /\ DOMAIN u = 1 .. n + 1
      /\ u[n + 1] = e /\ \A i \in 1 .. n : u[i] = t[i]
      /\ \A i \in 1 .. n + 1 : Reached(u, Before(u, i)) = Reached(t, Before(t, i))
      /\ Moves(u) = Moves(t) /\ Reached(u, Moves(u)) = Reached(t, Moves(t))
      /\ HasLast(u)
  BY <1>1, <1>3, AppendMoves
<1>5. /\ Reached(t, Moves(t)) = [active |-> Id(s.active), previous |-> Id(s.previous)]
      /\ \A i \in Moves(t) :
           /\ t[i].previous = Reached(t, Before(t, i)).active
           /\ t[i].type = "rollback_completed" => t[i].version = Reached(t, Before(t, i)).previous
  BY SoundIs
<1> HIDE DEF t, u, n, o
<1>6. r # None /\ Id(r) = r.version
  BY DEF Id
<1>7. Moves(t) \subseteq 1 .. n
  BY <1>4 DEF Moves
<1>8. Reached(u, Moves(u)) = [active |-> Id(o.active), previous |-> Id(o.previous)]
  BY <1>2, <1>4, <1>5
<1>9. ASSUME NEW i \in Moves(u)
      PROVE  /\ u[i].previous = Reached(u, Before(u, i)).active
             /\ u[i].type = "rollback_completed" => u[i].version = Reached(u, Before(u, i)).previous
  <2>1. i \in Moves(t) /\ u[i] = t[i] /\ Reached(u, Before(u, i)) = Reached(t, Before(t, i))
    BY <1>4, <1>7
  <2>2. QED
    BY <1>5, <2>1
<1>10. ASSUME NEW i \in DOMAIN u, Awaits(u, i) PROVE Id(o.candidate) = u[i].version
  <2>1. i = n + 1
    BY <1>1, <1>4, <1>10 DEF Awaits
  <2>2. QED
    BY <1>1, <1>2, <1>4, <1>6, <2>1
<1>11. n + 1 \in DOMAIN u /\ Awaits(u, n + 1)
  BY <1>1, <1>4 DEF Awaits
<1>12. Explains(o)
  BY <1>2, <1>8, <1>9, <1>10, <1>11, ExplainsIs
<1>13. QED
  BY <1>2, <1>4, <1>12 DEF Sound, o

LEMMA PromotedSound ==
  ASSUME NEW s \in State, s.candidate \in Release, Sound(s)
  PROVE  Sound(Promoted(s))
<1> DEFINE t == s.timeline
           n == Len(t)
           o == Promoted(s)
<1>1. PICK e \in Event : /\ e.type = "candidate_promoted" /\ e.version = s.candidate.version
                         /\ e.previous = Id(s.active)
                         /\ Happened(s, "candidate_promoted", s.candidate, s.active) = Append(t, e)
  BY HappenedIs, StateFields
<1> DEFINE u == Append(t, e)
<1>2. o.timeline = u /\ o.active = s.candidate /\ o.previous = s.active /\ o.candidate = None
  BY <1>1 DEF Promoted
<1>3. t \in Seq(Event) /\ HasLast(t)
  BY StateFields DEF Sound
<1>4. /\ n \in Nat /\ DOMAIN t = 1 .. n /\ DOMAIN u = 1 .. n + 1
      /\ u[n + 1] = e /\ \A i \in 1 .. n : u[i] = t[i]
      /\ Before(t, n + 1) = Moves(t)
      /\ \A i \in 1 .. n + 1 : Reached(u, Before(u, i)) = Reached(t, Before(t, i))
      /\ Moves(u) = Moves(t) \cup {n + 1}
      /\ Reached(u, Moves(u)) = [active |-> e.version, previous |-> e.previous]
      /\ HasLast(u)
  BY <1>1, <1>3, AppendMoves, ZenonT(30)
<1>5. /\ Reached(t, Moves(t)) = [active |-> Id(s.active), previous |-> Id(s.previous)]
      /\ \A i \in Moves(t) :
           /\ t[i].previous = Reached(t, Before(t, i)).active
           /\ t[i].type = "rollback_completed" => t[i].version = Reached(t, Before(t, i)).previous
  BY SoundIs
<1> HIDE DEF t, u, n, o
<1>6. s.candidate # None /\ Id(s.candidate) = s.candidate.version
  BY DEF Id
<1>7. Moves(t) \subseteq 1 .. n /\ n + 1 \in 1 .. n + 1
  BY <1>4 DEF Moves
<1>8. Reached(u, Moves(u)) = [active |-> Id(o.active), previous |-> Id(o.previous)]
  BY <1>1, <1>2, <1>4, <1>6
<1>9. ASSUME NEW i \in Moves(u)
      PROVE  /\ u[i].previous = Reached(u, Before(u, i)).active
             /\ u[i].type = "rollback_completed" => u[i].version = Reached(u, Before(u, i)).previous
  <2>1. CASE i \in Moves(t)
    <3>1. u[i] = t[i] /\ Reached(u, Before(u, i)) = Reached(t, Before(t, i))
      BY <1>4, <1>7, <2>1
    <3>2. QED
      BY <1>5, <2>1, <3>1
  <2>2. CASE i = n + 1
    <3>1. Reached(u, Before(u, i)) = [active |-> Id(s.active), previous |-> Id(s.previous)]
      BY <1>4, <1>5, <1>7, <2>2
    <3>2. QED
      BY <1>1, <1>4, <2>2, <3>1
  <2>3. QED
    BY <1>4, <2>1, <2>2
<1>10. \A i \in DOMAIN u : ~Awaits(u, i)
  BY <1>1, <1>4 DEF Awaits
<1>11. Explains(o)
  BY <1>2, <1>8, <1>9, <1>10, ExplainsIs
<1>12. QED
  BY <1>2, <1>4, <1>11 DEF Sound, o

LEMMA RolledBackSound ==
  ASSUME NEW s \in State, s.previous \in Release, Sound(s)
  PROVE  Sound(RolledBack(s))
<1> DEFINE t == s.timeline
           n == Len(t)
           o == RolledBack(s)
<1>1. PICK e \in Event : /\ e.type = "rollback_completed" /\ e.version = s.previous.version
                         /\ e.previous = Id(s.active)
                         /\ Happened(s, "rollback_completed", s.previous, s.active) = Append(t, e)
  BY HappenedIs, StateFields
<1> DEFINE u == Append(t, e)
<1>2. o.timeline = u /\ o.active = s.previous /\ o.previous = s.active /\ o.candidate = s.candidate
  BY <1>1 DEF RolledBack
<1>3. t \in Seq(Event) /\ HasLast(t)
  BY StateFields DEF Sound
<1>4. /\ n \in Nat /\ DOMAIN t = 1 .. n /\ DOMAIN u = 1 .. n + 1
      /\ u[n + 1] = e /\ \A i \in 1 .. n : u[i] = t[i]
      /\ Before(t, n + 1) = Moves(t)
      /\ \A i \in 1 .. n + 1 : Reached(u, Before(u, i)) = Reached(t, Before(t, i))
      /\ Moves(u) = Moves(t) \cup {n + 1}
      /\ Reached(u, Moves(u)) = [active |-> e.version, previous |-> e.previous]
      /\ HasLast(u)
  BY <1>1, <1>3, AppendMoves
<1>5. /\ Reached(t, Moves(t)) = [active |-> Id(s.active), previous |-> Id(s.previous)]
      /\ \A i \in Moves(t) :
           /\ t[i].previous = Reached(t, Before(t, i)).active
           /\ t[i].type = "rollback_completed" => t[i].version = Reached(t, Before(t, i)).previous
      /\ \A i \in DOMAIN t : Awaits(t, i) => Id(s.candidate) = t[i].version
      /\ s.candidate # None => \E i \in DOMAIN t : Awaits(t, i)
  BY SoundIs
<1> HIDE DEF t, u, n, o
<1>6. s.previous # None /\ Id(s.previous) = s.previous.version
  BY DEF Id
<1>7. Moves(t) \subseteq 1 .. n /\ n + 1 \in 1 .. n + 1
  BY <1>4 DEF Moves
<1>8. Reached(u, Moves(u)) = [active |-> Id(o.active), previous |-> Id(o.previous)]
  BY <1>1, <1>2, <1>4, <1>6
<1>9. ASSUME NEW i \in Moves(u)
      PROVE  /\ u[i].previous = Reached(u, Before(u, i)).active
             /\ u[i].type = "rollback_completed" => u[i].version = Reached(u, Before(u, i)).previous
  <2>1. CASE i \in Moves(t)
    <3>1. u[i] = t[i] /\ Reached(u, Before(u, i)) = Reached(t, Before(t, i))
      BY <1>4, <1>7, <2>1
    <3>2. QED
      BY <1>5, <2>1, <3>1
  <2>2. CASE i = n + 1
    <3>1. Reached(u, Before(u, i)) = [active |-> Id(s.active), previous |-> Id(s.previous)]
      BY <1>4, <1>5, <1>7, <2>2
    <3>2. QED
      BY <1>1, <1>4, <1>6, <2>2, <3>1
  <2>3. QED
    BY <1>4, <2>1, <2>2
<1>10. ASSUME NEW i \in DOMAIN u, Awaits(u, i) PROVE Id(o.candidate) = u[i].version
  <2>1. i \in DOMAIN t /\ u[i] = t[i] /\ Awaits(t, i)
    BY <1>1, <1>4, <1>10 DEF Awaits
  <2>2. QED
    BY <1>2, <1>5, <2>1
<1>11. o.candidate # None => \E i \in DOMAIN u : Awaits(u, i)
  <2>1. ASSUME NEW i \in DOMAIN t, Awaits(t, i) PROVE i \in DOMAIN u /\ Awaits(u, i)
    BY <1>1, <1>4, <2>1 DEF Awaits
  <2>2. QED
    BY <1>2, <1>5, <2>1
<1>12. Explains(o)
  BY <1>2, <1>8, <1>9, <1>10, <1>11, ExplainsIs, ZenonT(30)
<1>13. QED
  BY <1>2, <1>4, <1>12 DEF Sound, o

LEMMA OutcomeSound ==
  ASSUME NEW k \in Call, Brings(k), May(k), Sound(k.loaded)
  PROVE  Sound(Outcome(k))
<1>1. k.loaded \in State
  BY DEF Call
<1>2. CASE k.kind = "publish"
  <2>1. k.release \in Release /\ Outcome(k) = Promoted(Staged(k.loaded, k.release))
    BY <1>2, OutcomeIs
  <2>2. /\ Staged(k.loaded, k.release) \in State /\ Sound(Staged(k.loaded, k.release))
        /\ Staged(k.loaded, k.release).candidate \in Release
    BY <1>1, <2>1, StagedIs, StagedSound DEF Staged
  <2>3. QED
    BY <2>1, <2>2, PromotedSound
<1>3. CASE k.kind = "stage"
  BY <1>1, <1>3, OutcomeIs, StagedSound
<1>4. CASE k.kind = "promote"
  BY <1>1, <1>4, OutcomeIs, PromotedSound
<1>5. CASE k.kind = "rollback"
  BY <1>1, <1>5, OutcomeIs, RolledBackSound
<1>6. QED
  BY <1>2, <1>3, <1>4, <1>5 DEF Call, Kinds

SoundInv == Sound(store) /\ \A c \in Callers : Sound(call[c].loaded)

LEMMA EmptySound == Sound(Empty)
<1>1. Moves(<<>>) = {} /\ Before(<<>>, 1) = {}
  BY DEF Moves, Before
<1>2. HasLast(<<>>)
  BY <1>1 DEF HasLast
<1>3. Empty.active = None /\ Empty.previous = None /\ Empty.candidate = None
      /\ Empty.timeline = <<>>
  BY DEF Empty
<1>4. Explains(Empty)
  BY <1>1, <1>3 DEF Explains, Reached, Id
<1>5. QED
  BY <1>2, <1>3, <1>4 DEF Sound

LEMMA SoundInit == Init => SoundInv
  BY EmptySound, IdleType DEF Init, SoundInv

LEMMA SoundStep == TypeInv /\ SoundInv /\ [Next]_vars => SoundInv'
<1> SUFFICES ASSUME TypeInv, SoundInv, [Next]_vars PROVE SoundInv'
  OBVIOUS
<1>1. \A c \in Callers : Sound(call'[c].loaded)
  BY EmptySound, CopiesStep DEF SoundInv
<1>2. ASSUME NEW c \in Callers, Save(c) PROVE Sound(store')
  <2>1. /\ call[c] \in Call /\ Brings(call[c]) /\ May(call[c]) /\ store' = Outcome(call[c])
        /\ Sound(call[c].loaded)
    BY <1>2 DEF Save, At, TypeInv, TypeOK, Planned, SoundInv
  <2>2. QED
    BY <2>1, OutcomeSound
<1>3. Sound(store')
  BY <1>2, CopiesStep DEF SoundInv
<1>4. QED
  BY <1>1, <1>3 DEF SoundInv

(***************************************************************************)
(* The saved slots are what the saved timeline says, move by move,         *)
(* whichever of the states that calls have loaded was saved last: slots    *)
(* and timeline are changed and saved together.                            *)
(***************************************************************************)
THEOREM TimelineCorrect == Spec => []TimelineExplains
<1>1. SoundInv => TimelineExplains
  BY DEF SoundInv, Sound, TimelineExplains
<1>2. QED
  BY <1>1, TypeInvHolds, SoundInit, SoundStep, PTL DEF Spec
=============================================================================
