--------------------------- MODULE ReleaseRollout ---------------------------
(***************************************************************************)
(* The releases of an app: the rollout state (an active, a previous and a  *)
(* candidate release, with a timeline), the file it is kept in, the        *)
(* release.* tools that change it, and the publish and the rollback of the *)
(* host kit, of which a publish also starts and stops published runtimes.  *)
(*                                                                         *)
(* Every operation loads the state, makes the next one of it and saves     *)
(* that, and others may load and save in between: the tools of the         *)
(* framework and a Host are different processes, and in one process there  *)
(* is an await.  A save replaces the file as a whole.                      *)
(*                                                                         *)
(* A published runtime is the container that bears the name which the      *)
(* docker adapter makes of the version: in lower case, with every other    *)
(* character replaced by a dash.  Versions may share a name, so that a     *)
(* publish of one removes the runtime of the other.  Containers outlive    *)
(* the Host.                                                               *)
(***************************************************************************)
EXTENDS Naturals, Sequences, FiniteSets

CONSTANTS
  Callers,      \* operations that may be under way together
  Versions,     \* the versions of the app
  Names,        \* the names of containers
  NameOf,       \* containerName: the name for each version, not of each its own
  None,         \* no release, and no version
  MaxStaged,    \* bound: so many candidates are staged in a timeline
  MaxRolledBack \* bound: and so many rollbacks are in it

VARIABLES
  store,    \* the saved ReleaseRolloutState
  up,       \* the version that the running container of each name serves
  call,     \* the operation each caller has under way
  reported, \* history: the versions of which a publish has reported success
  shaken,   \* history: names published to again, or whose container ended by itself,
            \* or a publish to which was cut short
  stale     \* history: a state was saved that was made of an older one

vars == <<store, up, call, reported, shaken, stale>>

(* A release instance: its status, which is "healthy" or not, and whether   *)
(* one of the checks reported with it has failed.                           *)
Release == [version : Versions, healthy : BOOLEAN, failed : BOOLEAN]

ASSUME ConstantsAssumption ==
  /\ None \notin Versions \cup Release
  /\ NameOf \in [Versions -> Names]
  /\ MaxStaged \in Nat
  /\ MaxRolledBack \in Nat

Event == [type : {"candidate_staged", "candidate_promoted", "rollback_completed"},
          version : Versions, previous : Versions \cup {None}]
State == [active : Release \cup {None}, previous : Release \cup {None},
          candidate : Release \cup {None}, timeline : Seq(Event)]

(***************************************************************************)
(* "removing"  the container of that name is being removed                 *)
(* "starting"  the container is being run                                  *)
(* "waiting"   for the runtime to be ready                                 *)
(* "stopping"  it is not, and is being removed                             *)
(* "saving"    the state has been loaded                                   *)
(***************************************************************************)
Steps == {"idle", "removing", "starting", "waiting", "stopping", "saving"}
Kinds == {"publish", "stage", "promote", "rollback"}
Call == [step : Steps, kind : Kinds, release : Release \cup {None}, loaded : State]

TypeOK ==
  /\ store \in State
  /\ up \in [Names -> Versions \cup {None}]
  /\ call \in [Callers -> Call]
  /\ reported \subseteq Versions
  /\ shaken \subseteq Names
  /\ stale \in BOOLEAN

Empty == [active |-> None, previous |-> None, candidate |-> None, timeline |-> <<>>]
Idle == [step |-> "idle", kind |-> "publish", release |-> None, loaded |-> Empty]

Init ==
  /\ store = Empty
  /\ up = [n \in Names |-> None]
  /\ call = [c \in Callers |-> Idle]
  /\ reported = {}
  /\ shaken = {}
  /\ stale = FALSE

At(c, step) == call[c].step = step
Goes(c, step) == call' = [call EXCEPT ![c].step = step]
Count(s, type) == Cardinality({i \in DOMAIN s.timeline : s.timeline[i].type = type})
Bounded(s) ==
  /\ Count(s, "candidate_staged") <= MaxStaged
  /\ Count(s, "rollback_completed") <= MaxRolledBack

Returns(c) == call' = [call EXCEPT ![c] = Idle]

-----------------------------------------------------------------------------
(***************************************************************************)
(* The transitions of the rollout state.                                   *)
(***************************************************************************)
Id(r) == IF r = None THEN None ELSE r.version

Happened(s, type, r, replaced) ==
  Append(s.timeline, [type |-> type, version |-> r.version, previous |-> Id(replaced)])

\* Mutant: the candidate's id, and not the candidate.
StagedId(s, r) ==
  [s EXCEPT !.candidate = r.version, !.timeline = Happened(s, "candidate_staged", r, None)]

(* A staged candidate takes the place of another one. *)
Staged(s, r) ==
  [active |-> s.active, previous |-> s.previous, candidate |-> r,
   timeline |-> Happened(s, "candidate_staged", r, None)]

MayPromote(s) == s.candidate # None /\ s.candidate.healthy

\* Mutant: the previous release stays the previous one.
PromotedKeepsPrevious(s) ==
  [s EXCEPT !.active = s.candidate, !.candidate = None,
            !.timeline = Happened(s, "candidate_promoted", s.candidate, s.active)]

Promoted(s) ==
  [active |-> s.candidate, previous |-> s.active, candidate |-> None,
   timeline |-> Happened(s, "candidate_promoted", s.candidate, s.active)]

MayRollBack(s) == s.previous # None /\ s.previous.healthy

RolledBack(s) ==
  [active |-> s.previous, previous |-> s.active, candidate |-> s.candidate,
   timeline |-> Happened(s, "rollback_completed", s.previous, s.active)]

(* What an operation makes of the state it has loaded, if it may: a publish *)
(* stages a healthy candidate and promotes it in one save.                  *)
May(k) ==
  CASE k.kind \in {"publish", "stage"} -> TRUE
    [] k.kind = "promote"              -> MayPromote(k.loaded)
    [] k.kind = "rollback"             -> MayRollBack(k.loaded)

Outcome(k) ==
  CASE k.kind = "publish"  -> Promoted(Staged(k.loaded, k.release))
    [] k.kind = "stage"    -> Staged(k.loaded, k.release)
    [] k.kind = "promote"  -> Promoted(k.loaded)
    [] k.kind = "rollback" -> RolledBack(k.loaded)

-----------------------------------------------------------------------------
(***************************************************************************)
(* The release.* tools and rollbackPublishedVersion load at once.          *)
(***************************************************************************)
Begin(c, k) ==
  /\ At(c, "idle")
  /\ call' = [call EXCEPT ![c] = k]

Load(c, kind, r) ==
  /\ Begin(c, [step |-> "saving", kind |-> kind, release |-> r, loaded |-> store])
  /\ UNCHANGED <<store, up, reported, shaken, stale>>

\* Mutant: the caller's word is taken for it, whatever the checks say.
ClaimedHealthy(v, failed) == [version |-> v, healthy |-> TRUE, failed |-> failed]

(* parseReleaseStage: a release staged as healthy is unhealthy when one of  *)
(* its checks has failed.  Staging it with another status has no other      *)
(* effect, and is not told apart.                                           *)
Instance(v, failed) == [version |-> v, healthy |-> ~failed, failed |-> failed]

Stage(c) ==
  /\ Count(store, "candidate_staged") < MaxStaged
  /\ \E v \in Versions, failed \in BOOLEAN : Load(c, "stage", Instance(v, failed))

Promote(c) == Load(c, "promote", None)
Rollback(c) == Load(c, "rollback", None)

(***************************************************************************)
(* publishVerifiedVersion.                                                 *)
(***************************************************************************)
Publishes(c) == ~At(c, "idle") /\ call[c].kind = "publish"
Version(c) == call[c].release.version
Name(c) == NameOf[Version(c)]

(* The name serves a version, did when a publish to it succeeded, or is    *)
(* being published to.                                                     *)
Used(n) ==
  \/ up[n] # None
  \/ \E v \in reported : NameOf[v] = n
  \/ \E c \in Callers : Publishes(c) /\ Name(c) = n

Publish(c, v) ==
  /\ Count(store, "candidate_staged") < MaxStaged
  /\ Begin(c, [step |-> "removing", kind |-> "publish",
               release |-> Instance(v, FALSE), loaded |-> Empty])
  /\ shaken' = IF Used(NameOf[v]) THEN shaken \cup {NameOf[v]} ELSE shaken
  /\ UNCHANGED <<store, up, reported, stale>>

(* docker rm -f, of whatever has the name. *)
Removed(n) == [up EXCEPT ![n] = None]

(* startPublished: what bears the name of the new container goes first, of *)
(* whichever version it is, and nobody looks at whether it could be        *)
(* removed.                                                                *)
RemoveOld(c) ==
  /\ At(c, "removing")
  /\ up' \in {up, Removed(Name(c))}
  /\ Goes(c, "starting")
  /\ UNCHANGED <<store, reported, shaken, stale>>

Runs(c) ==
  /\ At(c, "starting")
  /\ up[Name(c)] = None
  /\ up' = [up EXCEPT ![Name(c)] = Version(c)]
  /\ Goes(c, "waiting")
  /\ UNCHANGED <<store, reported, shaken, stale>>

(* The name is taken, the image is missing, ...: the publish throws. *)
RunFails(c) ==
  /\ At(c, "starting")
  /\ Returns(c)
  /\ UNCHANGED <<store, up, reported, shaken, stale>>

(* waitUntilReady has an answer from the host port of the adapter, behind  *)
(* which any runtime may be, and the state is loaded.                      *)
Ready(c) ==
  /\ At(c, "waiting")
  /\ \E n \in Names : up[n] # None
  /\ call' = [call EXCEPT ![c].step = "saving", ![c].loaded = store]
  /\ UNCHANGED <<store, up, reported, shaken, stale>>

\* Mutant: a publish that is refused leaves its runtime behind.
NotReadyLeaves(c) ==
  /\ At(c, "waiting")
  /\ Returns(c)
  /\ UNCHANGED <<store, up, reported, shaken, stale>>

(* It throws, times out or reports a failed check. *)
NotReady(c) ==
  /\ At(c, "waiting")
  /\ Goes(c, "stopping")
  /\ UNCHANGED <<store, up, reported, shaken, stale>>

\* Mutant: what the rollout calls active is stopped.
StoppedByActive(c) == IF store.active = None THEN Name(c) ELSE NameOf[store.active.version]

(* Which container is stopped when a publish is refused. *)
Stopped(c) == Name(c)

Stops(c) ==
  /\ At(c, "stopping")
  /\ up' = Removed(Stopped(c))
  /\ Returns(c)
  /\ UNCHANGED <<store, reported, shaken, stale>>

(* It cannot be stopped, and nobody is told. *)
StopFails(c) ==
  /\ At(c, "stopping")
  /\ shaken' = shaken \cup {Name(c)}
  /\ Returns(c)
  /\ UNCHANGED <<store, up, reported, stale>>

-----------------------------------------------------------------------------
(***************************************************************************)
(* The second half of every operation.                                     *)
(***************************************************************************)
Save(c) ==
  /\ At(c, "saving")
  /\ May(call[c])
  /\ Bounded(Outcome(call[c]))
  /\ store' = Outcome(call[c])
  /\ stale' = (stale \/ call[c].loaded # store)
  /\ reported' = IF call[c].kind = "publish" THEN reported \cup {Version(c)} ELSE reported
  /\ Returns(c)
  /\ UNCHANGED <<up, shaken>>

Refused(c) ==
  /\ At(c, "saving")
  /\ ~May(call[c])
  /\ Returns(c)
  /\ UNCHANGED <<store, up, reported, shaken, stale>>

\* Mutant: the error is swallowed, and the publish reports success.
SaveFailsSilently(c) ==
  /\ At(c, "saving")
  /\ May(call[c])
  /\ Returns(c)
  /\ reported' = IF call[c].kind = "publish" THEN reported \cup {Version(c)} ELSE reported
  /\ UNCHANGED <<store, up, shaken, stale>>

(* The file cannot be written: a publish throws, and its runtime stays. *)
SaveFails(c) ==
  /\ At(c, "saving")
  /\ May(call[c])
  /\ Returns(c)
  /\ shaken' = IF call[c].kind = "publish" THEN shaken \cup {Name(c)} ELSE shaken
  /\ UNCHANGED <<store, up, reported, stale>>

(* The Host dies; runtimes do not. *)
Crash(c) ==
  /\ ~At(c, "idle")
  /\ Returns(c)
  /\ shaken' = IF call[c].kind = "publish" THEN shaken \cup {Name(c)} ELSE shaken
  /\ UNCHANGED <<store, up, reported, stale>>

RuntimeEnds(n) ==
  /\ up[n] # None
  /\ up' = Removed(n)
  /\ shaken' = shaken \cup {n}
  /\ UNCHANGED <<store, call, reported, stale>>

(* What a call does once it has begun. *)
Proceeds(c) ==
  \/ RemoveOld(c)
  \/ Runs(c)
  \/ RunFails(c)
  \/ Ready(c)
  \/ NotReady(c)
  \/ Stops(c)
  \/ StopFails(c)
  \/ Save(c)
  \/ Refused(c)
  \/ SaveFails(c)

Next ==
  \/ \E c \in Callers : \/ Stage(c)
                        \/ Promote(c)
                        \/ Rollback(c)
                        \/ \E v \in Versions : Publish(c, v)
                        \/ Proceeds(c)
                        \/ Crash(c)
  \/ \E n \in Names : RuntimeEnds(n)

Spec == Init /\ [][Next]_vars

-----------------------------------------------------------------------------
(***************************************************************************)
(* The timeline explains the slots, whoever saved over whom: the active    *)
(* and the previous release are those of the last move, every move starts  *)
(* from where the one before it ended, and the candidate is the one staged *)
(* since the last promotion.                                               *)
(***************************************************************************)
Moves(t) == {i \in DOMAIN t : t[i].type # "candidate_staged"}
Before(t, i) == {j \in Moves(t) : j < i}
Reached(t, M) ==
  IF M = {} THEN [active |-> None, previous |-> None]
  ELSE LET i == CHOOSE i \in M : \A j \in M : j <= i
       IN  [active |-> t[i].version, previous |-> t[i].previous]

Awaits(t, i) ==
  /\ t[i].type = "candidate_staged"
  /\ \A j \in DOMAIN t : j > i => t[j].type = "rollback_completed"

Explains(s) ==
  LET t == s.timeline
  IN  /\ Reached(t, Moves(t)) = [active |-> Id(s.active), previous |-> Id(s.previous)]
      /\ \A i \in Moves(t) :
           LET from == Reached(t, Before(t, i))
           IN  /\ t[i].previous = from.active
               /\ t[i].type = "rollback_completed" => t[i].version = from.previous
      /\ \A i \in DOMAIN t : Awaits(t, i) => Id(s.candidate) = t[i].version
      /\ s.candidate # None => \E i \in DOMAIN t : Awaits(t, i)

TimelineExplains == Explains(store)

(* A release that was staged with a failed check is neither active nor the  *)
(* target of a rollback, whichever state was saved over which.             *)
HealthyOnly ==
  \A r \in {store.active, store.previous} \ {None} : r.healthy /\ ~r.failed

(***************************************************************************)
(* What a rollback relies on when it looks at the health that was recorded *)
(* when a release was staged: the container of a published release that is *)
(* active or previous runs and serves that very version, whatever has been *)
(* published to other names since, has failed there and was cleaned up.    *)
(* It does not hold for a name that was published to again, which need not *)
(* be with the same version: the container that had it is removed before   *)
(* the new one is started, also when that one never gets ready.            *)
(***************************************************************************)
SlotsServed ==
  \A r \in {store.active, store.previous} \ {None} :
    r.version \in reported /\ NameOf[r.version] \notin shaken
      => up[NameOf[r.version]] = r.version

(* A publish that reported success is in the timeline for good, unless a   *)
(* state was saved over a newer one.                                       *)
ReportedRecorded ==
  ~stale => \A v \in reported : \E i \in DOMAIN store.timeline :
              /\ store.timeline[i].type = "candidate_promoted"
              /\ store.timeline[i].version = v

(***************************************************************************)
(* No runtime runs that nobody knows of: what is up is being published, or *)
(* its version is in the timeline.  It says nothing of a name that was     *)
(* published to again or a publish to which was cut short by a crash, or   *)
(* by a save or a stop that failed: nobody finds such a runtime any more,  *)
(* and as little of what a later save has wiped out of the timeline.       *)
(***************************************************************************)
NoOrphan ==
  ~stale => \A n \in Names \ shaken : up[n] # None =>
              \/ \E c \in Callers : Publishes(c) /\ Version(c) = up[n]
              \/ \E i \in DOMAIN store.timeline : store.timeline[i].version = up[n]
=============================================================================
