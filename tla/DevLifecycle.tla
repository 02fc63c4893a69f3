---------------------------- MODULE DevLifecycle ----------------------------
(***************************************************************************)
(* The dev process of the lifecycle orchestrator: runDev, runStop and      *)
(* close() as several tool calls use them at a time, the processes they    *)
(* start and signal, and the lines, exits and config answers that come     *)
(* back whenever they like.                                                *)
(*                                                                         *)
(* The orchestrator keeps one of everything: one process, one state.dev,   *)
(* one stop latch, one promise of readiness, one flag for the operations   *)
(* of the cycle and one set of op.* tools.  A process that outlives its    *)
(* cycle, or a start while a stop is on its way, makes two cycles share    *)
(* them.  The model has a process and an execution for every call of       *)
(* runDev, numbered by the cycles, and 0 where the code has undefined.     *)
(*                                                                         *)
(* JavaScript runs to completion: what follows in the same turn of the     *)
(* event loop is one step, or a "starting" call that everyone else waits   *)
(* for.                                                                    *)
(***************************************************************************)
EXTENDS Naturals

CONSTANTS
  Callers,       \* concurrent tool calls, each making one call after another
  MaxCycles      \* bound: calls of runDev

ASSUME ConstantsAssumption == MaxCycles \in Nat \ {0}

VARIABLES
  cycle,              \* calls of runDev so far: whose devReadyPromise is current
  process,            \* the dev process of each cycle
  execution,          \* the VerbExecution of each cycle
  stateDev,           \* state.dev: the cycle of the execution it holds
  devProc,            \* this.devProc
  stdin,              \* verbStdin.get("dev"): the process it writes to
  stopInvoked,        \* the stop latch
  operationsFetched,  \* the flag for the fetch of this cycle
  tools,              \* the cycle whose operations are registered as op.* tools
  call,               \* where each caller stands
  mixed,              \* history: a process was started while a stop was on its way
  clean               \* history: the cycles that began with nothing left of others

vars == <<cycle, process, execution, stateDev, devProc, stdin, stopInvoked,
          operationsFetched, tools, call, mixed, clean>>

Cycles == 1 .. MaxCycles
CycleOr0 == 0 .. MaxCycles

(***************************************************************************)
(* life  "alive" until its exit is reported, "gone" after.                 *)
(* pipe  lines of it may still arrive, from a buffer or from a background  *)
(*       child: the exit is reported 500 ms after the end at the latest.   *)
(* leaving  history: it has only said that it is stopping, or was sent     *)
(*       SIGTERM or SIGKILL.                                               *)
(***************************************************************************)
Process == [life : {"none", "alive", "gone"}, pipe : BOOLEAN,
            leaving : {"no", "said", "term", "kill"}]

(***************************************************************************)
(* state  "exited" also stands for "crashed"                               *)
(* served whether it has announced its service                             *)
(***************************************************************************)
Execution == [state : {"running", "stopped", "exited"}, served : BOOLEAN,
              operations : {"none", "asked", "loaded", "failed"}]

(***************************************************************************)
(* An "apply" is a definition.apply or a rollback: it reads the config of  *)
(* the running app, calls it, restarts it and reads the config again.      *)
(* "script" and "term" are the two waits of runStop, "on" is the cycle a   *)
(* call waits for.  A call that has returned or thrown is idle again.      *)
(***************************************************************************)
Kinds == {"none", "start", "stop", "restart", "apply"}
Steps == {"idle", "reading", "calling", "script", "term", "starting", "waiting", "verifying"}
Call == [kind : Kinds, step : Steps, on : CycleOr0]

TypeOK ==
  /\ cycle \in CycleOr0
  /\ process \in [Cycles -> Process]
  /\ execution \in [Cycles -> Execution]
  /\ {stateDev, devProc, stdin} \subseteq 0 .. cycle
  /\ tools \in CycleOr0
  /\ stopInvoked \in BOOLEAN
  /\ operationsFetched \in BOOLEAN
  /\ call \in [Callers -> Call]
  /\ mixed \in BOOLEAN
  /\ clean \subseteq Cycles

Idle == [kind |-> "none", step |-> "idle", on |-> 0]

Init ==
  /\ cycle = 0
  /\ process = [p \in Cycles |->
                  [life |-> "none", pipe |-> FALSE, leaving |-> "no"]]
  /\ execution = [p \in Cycles |->
                    [state |-> "running", served |-> FALSE, operations |-> "none"]]
  /\ stateDev = 0
  /\ devProc = 0
  /\ stdin = 0
  /\ stopInvoked = FALSE
  /\ operationsFetched = FALSE
  /\ tools = 0
  /\ call = [c \in Callers |-> Idle]
  /\ mixed = FALSE
  /\ clean = {}

Free(c) == call[c].step = "idle"
Stopping(c) == call[c].step \in {"script", "term"}
WaitsFor(c, p) == call[c].step = "waiting" /\ call[c].on = p
Reading(c) == call[c].step \in {"reading", "verifying"}
Alive(p) == process[p].life = "alive"
Served == stateDev # 0 /\ execution[stateDev].served

\* The event loop comes back to its queue only when no turn is unfinished.
Quiet == \A c \in Callers : call[c].step # "starting"

-----------------------------------------------------------------------------
(***************************************************************************)
(* Starting.                                                               *)
(***************************************************************************)
\* Nothing of an earlier cycle can still be heard of.
NothingLeft ==
  /\ \A p \in Cycles : /\ process[p].life \in {"none", "gone"}
                       /\ ~process[p].pipe
                       /\ execution[p].operations # "asked"
  /\ \A c \in Callers : ~Stopping(c) /\ ~Reading(c)

\* Mutant: the latch stays as it was.
LatchKept == stopInvoked

\* A spawn that worked takes the latch back.
LatchAfterSpawn == FALSE

\* Mutant: the flag of the cycle before is kept.
FlagKept == operationsFetched

\* Each cycle asks for its operations anew.
FlagOfNewCycle == FALSE

\* The call c returns or throws, and nothing else happens.
Returns(c) ==
  /\ call' = [call EXCEPT ![c] = Idle]
  /\ UNCHANGED <<cycle, process, execution, stateDev, devProc, stdin, stopInvoked,
                 operationsFetched, tools, mixed, clean>>

\* Mutant: the promise of the cycle before is kept.
NewCycleOldPromise ==
  /\ cycle < MaxCycles
  /\ operationsFetched' = FlagOfNewCycle
  /\ UNCHANGED <<cycle, execution, tools>>

\* The promise and the flag are new before the script is spawned.
NewCycle ==
  /\ cycle < MaxCycles
  /\ cycle' = cycle + 1
  /\ operationsFetched' = FlagOfNewCycle
  /\ UNCHANGED <<execution, tools>>

Spawned(c, kind) ==
  LET p == cycle + 1
  IN  /\ process' = [process EXCEPT ![p].life = "alive", ![p].pipe = TRUE]
      /\ stdin' = p
      /\ stateDev' = p
      /\ stopInvoked' = LatchAfterSpawn
      /\ devProc' = p
      /\ call' = [call EXCEPT ![c] = [kind |-> kind, step |-> "waiting", on |-> p]]
      /\ mixed' = (mixed \/ \E d \in Callers : Stopping(d))
      /\ clean' = IF NothingLeft THEN clean \cup {p} ELSE clean

SpawnFails(c) ==
  /\ call' = [call EXCEPT ![c] = Idle]
  /\ UNCHANGED <<process, stdin, stateDev, stopInvoked, devProc, mixed, clean>>

\* runDev: it fails before any of this when there is no dev script.
RunDev(c, kind) ==
  \/ NewCycle /\ (Spawned(c, kind) \/ SpawnFails(c))
  \/ Returns(c)

\* Mutant: nobody looks.
MayStartAlways == TRUE

\* dev.start and dev.restart refuse a second dev; apply and rollback do not look.
MayStart == stateDev # 0 => execution[stateDev].state # "running"

Refuse(c) == ~MayStart /\ Returns(c)

Start(c) ==
  /\ Quiet
  /\ Free(c)
  /\ \/ Refuse(c)
     \/ MayStart /\ RunDev(c, "start")

\* A restart or an apply goes on in the turn in which its stop returned.
Continue(c, kind) ==
  \/ kind = "restart" /\ Refuse(c)
  \/ kind = "restart" /\ MayStart /\ RunDev(c, "start")
  \/ kind = "apply" /\ RunDev(c, "apply")

StartAgain(c) ==
  /\ call[c].step = "starting"
  /\ Continue(c, call[c].kind)

-----------------------------------------------------------------------------
(***************************************************************************)
(* Stopping.  A call is in runStop with the record k.                      *)
(***************************************************************************)
After(k) ==
  IF k.kind \in {"restart", "apply"} THEN [k EXCEPT !.step = "starting", !.on = 0] ELSE Idle

\* The end of runStop: whatever state.dev holds by now is called stopped.
StateStopped(e) == IF stateDev = 0 THEN e ELSE [e EXCEPT ![stateDev].state = "stopped"]

\* The latch: whoever comes while it is set does not wait.
StopAgain(c, kind) ==
  /\ stopInvoked
  /\ (kind = "stop" /\ Returns(c)) \/ Continue(c, kind)

NothingToKill(c, k) ==
  /\ devProc = 0
  /\ execution' = StateStopped(execution)
  /\ tools' = 0
  /\ call' = [call EXCEPT ![c] = After(k)]
  /\ UNCHANGED process

Sent(p, signal) == [process EXCEPT ![p].leaving = IF @ = "kill" THEN "kill" ELSE signal]

Terminate(c, k) ==
  /\ devProc # 0
  /\ process' = Sent(devProc, "term")
  /\ call' = [call EXCEPT ![c] = [k EXCEPT !.step = "term", !.on = devProc]]
  /\ UNCHANGED <<execution, tools>>

\* Without a stop.sh that can be spawned, the first half falls away.
RunStop(c, k) ==
  /\ ~stopInvoked
  /\ stopInvoked' = TRUE
  /\ \/ /\ call' = [call EXCEPT ![c] = [k EXCEPT !.step = "script", !.on = 0]]
        /\ UNCHANGED <<process, execution, tools>>
     \/ NothingToKill(c, k)
     \/ Terminate(c, k)
  /\ UNCHANGED <<cycle, stateDev, devProc, stdin, operationsFetched, mixed, clean>>

Stop(c, kind) ==
  /\ Quiet
  /\ Free(c)
  /\ LET k == [kind |-> kind, step |-> "idle", on |-> 0]
     IN  StopAgain(c, kind) \/ RunStop(c, k)

\* close() does not stop what was never started, and relies on the latch.
Close(c) ==
  /\ stateDev # 0
  /\ Stop(c, "stop")

\* stop.sh has ended, or had its ten seconds.
ScriptEnds(c) ==
  /\ Quiet
  /\ call[c].step = "script"
  /\ NothingToKill(c, call[c]) \/ Terminate(c, call[c])
  /\ UNCHANGED <<cycle, stateDev, devProc, stdin, stopInvoked, operationsFetched,
                 mixed, clean>>

\* Mutant: SIGTERM once more.
LastSignalAgain == "term"

LastSignal == "kill"

\* The wait for the exit has timed out: the process that is devProc by now is
\* killed, and nobody waits for its exit.  Without one, runStop throws.
Escalate(c) ==
  /\ Quiet
  /\ call[c].step = "term"
  /\ \/ /\ devProc # 0
        /\ process' = Sent(devProc, LastSignal)
        /\ execution' = StateStopped(execution)
        /\ tools' = 0
        /\ call' = [call EXCEPT ![c] = After(call[c])]
     \/ /\ devProc = 0
        /\ call' = [call EXCEPT ![c] = Idle]
        /\ UNCHANGED <<process, execution, tools>>
  /\ UNCHANGED <<cycle, stateDev, devProc, stdin, stopInvoked, operationsFetched,
                 mixed, clean>>

-----------------------------------------------------------------------------
(***************************************************************************)
(* The restart inside definition.apply and rollback.execute, of which one  *)
(* at a time holds the writer.                                             *)
(***************************************************************************)
BeginApply(c) ==
  /\ Quiet
  /\ Free(c)
  /\ \A d \in Callers : call[d].kind = "apply" => Free(d)
  /\ Served
  /\ call' = [call EXCEPT ![c] = [kind |-> "apply", step |-> "reading", on |-> stateDev]]
  /\ UNCHANGED <<cycle, process, execution, stateDev, devProc, stdin, stopInvoked,
                 operationsFetched, tools, mixed, clean>>

\* recordRuntimeConfig: the config of the process that was asked, kept in the
\* execution that is state.dev by now.
ConfigRecorded(c) ==
  /\ Quiet
  /\ Reading(c)
  /\ execution' = [execution EXCEPT ![stateDev].operations = "loaded"]
  /\ tools' = call[c].on
  /\ call' = [call EXCEPT ![c] = IF @.step = "reading" THEN [@ EXCEPT !.step = "calling", !.on = 0]
                                     ELSE Idle]
  /\ UNCHANGED <<cycle, process, stateDev, devProc, stdin, stopInvoked,
                 operationsFetched, mixed, clean>>

ApplyFails(c) ==
  /\ Quiet
  /\ call[c].step \in {"reading", "calling", "verifying"}
  /\ Returns(c)

\* The operation has answered.
StopForApply(c) ==
  /\ Quiet
  /\ call[c].step = "calling"
  /\ StopAgain(c, call[c].kind) \/ RunStop(c, call[c])

-----------------------------------------------------------------------------
(***************************************************************************)
(* What processes do, and what is heard of them.                           *)
(***************************************************************************)
\* The exit is reported: at the close of the pipe, or 500 ms after the end.
\* The stops that wait for it return in the same turn.
Exit(p) ==
  LET stops == {c \in Callers : call[c].step = "term" /\ call[c].on = p}
      ended == [execution EXCEPT ![p].state = IF @ = "running" THEN "exited" ELSE @]
  IN  /\ Quiet
      /\ Alive(p)
      /\ \E open \in {FALSE, process[p].pipe} :
           process' = [process EXCEPT ![p].life = "gone", ![p].pipe = open]
      /\ execution' = IF stops = {} THEN ended ELSE StateStopped(ended)
      /\ stdin' = 0
      /\ tools' = 0
      /\ devProc' = IF devProc = p THEN 0 ELSE devProc
      /\ call' = [c \in Callers |->
                    IF c \in stops THEN After(call[c])
                    ELSE IF WaitsFor(c, p) THEN Idle
                    ELSE call[c]]
      /\ UNCHANGED <<cycle, stateDev, stopInvoked, operationsFetched, mixed, clean>>

\* A background child lets go of the pipe.
PipeCloses(p) ==
  /\ Quiet
  /\ process[p].life = "gone"
  /\ process[p].pipe
  /\ process' = [process EXCEPT ![p].pipe = FALSE]
  /\ UNCHANGED <<cycle, execution, stateDev, devProc, stdin, stopInvoked,
                 operationsFetched, tools, call, mixed, clean>>

\* ##pneuma:service-ready: the first of the cycle asks for the operations.
ServiceReady(p) ==
  /\ Quiet
  /\ process[p].pipe
  /\ ~execution[p].served
  /\ execution' = [execution EXCEPT ![p].served = TRUE,
                                    ![p].operations = IF operationsFetched THEN @ ELSE "asked"]
  /\ operationsFetched' = TRUE
  /\ UNCHANGED <<cycle, process, stateDev, devProc, stdin, stopInvoked, tools, call,
                 mixed, clean>>

\* The promise a ready marker resolves is the current one, whoever says it.
Hears(c) == WaitsFor(c, cycle)

Woken(k) ==
  IF k.kind = "apply" /\ Served THEN [k EXCEPT !.step = "verifying", !.on = stateDev] ELSE Idle

\* ##pneuma:ready
Ready(p) ==
  /\ Quiet
  /\ process[p].pipe
  /\ call' = [c \in Callers |-> IF Hears(c) THEN Woken(call[c]) ELSE call[c]]
  /\ UNCHANGED <<cycle, process, execution, stateDev, devProc, stdin, stopInvoked,
                 operationsFetched, tools, mixed, clean>>

\* ##pneuma:stopping
SaysStopping(p) ==
  /\ Quiet
  /\ process[p].pipe
  /\ process' = [process EXCEPT ![p].leaving = IF @ = "no" THEN "said" ELSE @]
  /\ execution' = [execution EXCEPT ![p].state = "stopped"]
  /\ UNCHANGED <<cycle, stateDev, devProc, stdin, stopInvoked, operationsFetched,
                 tools, call, mixed, clean>>

\* The answer of /api/config, or its failure, for the fetch of a cycle.
OperationsLoaded(p) ==
  /\ Quiet
  /\ execution[p].operations = "asked"
  /\ \/ /\ execution' = [execution EXCEPT ![p].operations = "loaded"]
        /\ tools' = p
     \/ /\ execution' = [execution EXCEPT ![p].operations = "failed"]
        /\ UNCHANGED tools
  /\ UNCHANGED <<cycle, process, stateDev, devProc, stdin, stopInvoked,
                 operationsFetched, call, mixed, clean>>

-----------------------------------------------------------------------------
CallStep(c) ==
  \/ Start(c)
  \/ StartAgain(c)
  \/ \E kind \in {"stop", "restart"} : Stop(c, kind)
  \/ Close(c)
  \/ ScriptEnds(c)
  \/ Escalate(c)
  \/ BeginApply(c)
  \/ ConfigRecorded(c)
  \/ ApplyFails(c)
  \/ StopForApply(c)

ProcessStep(p) ==
  \/ Exit(p)
  \/ PipeCloses(p)
  \/ ServiceReady(p)
  \/ Ready(p)
  \/ SaysStopping(p)
  \/ OperationsLoaded(p)

Next ==
  \/ \E c \in Callers : CallStep(c)
  \/ \E p \in Cycles : ProcessStep(p)

Spec == Init /\ [][Next]_vars

\* A stop that returned goes on in its turn, both of its waits have a timeout,
\* and a killed process ends and is reported.
Fairness ==
  /\ \A c \in Callers : WF_vars(StartAgain(c) \/ ScriptEnds(c) \/ Escalate(c))
  /\ \A p \in Cycles : WF_vars(process[p].leaving = "kill" /\ Exit(p))

FairSpec == Spec /\ Fairness

-----------------------------------------------------------------------------
(***************************************************************************)
(* Properties.                                                             *)
(***************************************************************************)
\* The process was told to stop, or has said that it does.
Leaving(p) == process[p].leaving # "no"

\* A process that nobody has told to stop is the one that runStop would
\* signal, and state.dev says that it runs: none is forgotten by the next
\* runDev, and none is called stopped while it serves.  It takes that no
\* process was started while a stop was on its way: the latch lets a restart
\* or an apply do that, and so does a stopping marker (NothingForgotten is
\* false without "mixed").
NothingForgotten ==
  ~mixed => \A p \in Cycles :
              Alive(p) /\ ~Leaving(p)
                => devProc = p /\ stateDev = p /\ execution[p].state = "running"

\* What close() relies on when it skips the teardown: with the latch set and
\* no stop on its way, no process is left that has not been told to stop.
LatchCovers ==
  stopInvoked /\ ~mixed /\ (\A c \in Callers : ~Stopping(c))
    => \A p \in Cycles : Alive(p) => Leaving(p)

\* A cycle that began with nothing left of others has the orchestrator to
\* itself while it runs: its first service asks for its operations, the
\* registered tools are its own, and a confirm reaches its stdin.
OwnCycle ==
  stateDev \in clean /\ execution[stateDev].state = "running"
    => /\ execution[stateDev].served => execution[stateDev].operations # "none"
       /\ execution[stateDev].operations = "loaded" => tools = stateDev
       /\ stdin = stateDev

\* After runStop was entered no process keeps running, whatever it makes of
\* SIGTERM and however long stop.sh hangs, unless dev is started again; but a
\* process that only said it was stopping, and was replaced, is let go.
StopTakesEffect ==
  stopInvoked ~> \/ mixed
                 \/ ~stopInvoked
                 \/ \A p \in Cycles : Alive(p) => p # devProc /\ process[p].leaving = "said"
=============================================================================
