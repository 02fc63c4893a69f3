------------------------- MODULE DevLifecycleProofs -------------------------
(***************************************************************************)
(* Theorems of DevLifecycle, for any set of callers and any number of      *)
(* cycles: what a stop covers as long as no process is started while one   *)
(* is on its way, and what a cycle has to itself.                          *)
(***************************************************************************)
EXTENDS DevLifecycle, TLAPS

USE ConstantsAssumption

-----------------------------------------------------------------------------
(* Types.                                                                  *)

LEMMA ZeroType == 0 \in CycleOr0
  BY DEF CycleOr0

LEMMA IdleType == Idle \in Call /\ Idle.step = "idle"
  BY DEF Idle, Call, Kinds, Steps, CycleOr0

LEMMA AfterType ==
  ASSUME NEW k \in Call
  PROVE  After(k) \in Call /\ After(k).step \in {"starting", "idle"}
<1> DEFINE r == [k EXCEPT !.step = "starting", !.on = 0]
<1>2. r \in Call /\ r.step = "starting"
  BY ZeroType DEF Call, Steps
<1>3. After(k) = r \/ After(k) = Idle
  BY DEF After
<1>4. QED
  <2> HIDE DEF r
  <2>1. QED
    BY <1>2, <1>3, IdleType

LEMMA RefsType ==
  ASSUME TypeOK
  PROVE  /\ stateDev \in 0 .. cycle /\ devProc \in 0 .. cycle
         /\ stdin \in 0 .. cycle
         /\ cycle \in Nat /\ cycle <= MaxCycles
         /\ stateDev # 0 => stateDev \in Cycles
         /\ devProc # 0 => devProc \in Cycles
         /\ stateDev \in CycleOr0 /\ devProc \in CycleOr0 /\ tools \in CycleOr0
  BY DEF TypeOK, CycleOr0, Cycles

LEMMA StateStoppedType ==
  ASSUME TypeOK, NEW e \in [Cycles -> Execution]
  PROVE  /\ StateStopped(e) \in [Cycles -> Execution]
         /\ \A p \in Cycles : /\ StateStopped(e)[p].served = e[p].served
                              /\ StateStopped(e)[p].operations = e[p].operations
                              /\ StateStopped(e)[p].state \in {e[p].state, "stopped"}
                              /\ p = stateDev => StateStopped(e)[p].state = "stopped"
                              /\ p # stateDev => StateStopped(e)[p] = e[p]
<1>1. CASE stateDev = 0
  BY <1>1 DEF StateStopped, Cycles
<1>2. CASE stateDev # 0
  <2> DEFINE r == [e[stateDev] EXCEPT !.state = "stopped"]
  <2>1. stateDev \in Cycles
    BY <1>2, RefsType
  <2>2. r \in Execution /\ r.state = "stopped"
        /\ r.served = e[stateDev].served /\ r.operations = e[stateDev].operations
    BY <2>1 DEF Execution
  <2>3. StateStopped(e) = [e EXCEPT ![stateDev] = r]
    BY <1>2 DEF StateStopped
  <2>4. QED
    <3> HIDE DEF r
    <3>1. QED
      BY <2>1, <2>2, <2>3
<1>3. QED
  BY <1>1, <1>2

LEMMA SentType ==
  ASSUME TypeOK, NEW p \in Cycles, NEW signal \in {"term", "kill"}
  PROVE  /\ Sent(p, signal) \in [Cycles -> Process]
         /\ \A q \in Cycles : /\ Sent(p, signal)[q].life = process[q].life
                              /\ Sent(p, signal)[q].pipe = process[q].pipe
                              /\ process[q].leaving # "no" => Sent(p, signal)[q].leaving # "no"
                              /\ q # p => Sent(p, signal)[q] = process[q]
         /\ Sent(p, signal)[p].leaving # "no"
<1> DEFINE l == IF process[p].leaving = "kill" THEN "kill" ELSE signal
           r == [process[p] EXCEPT !.leaving = l]
<1>1. process[p] \in Process
  BY DEF TypeOK
<1>2. l \in {"term", "kill"}
  OBVIOUS
<1>3. r \in Process /\ r.life = process[p].life /\ r.pipe = process[p].pipe /\ r.leaving = l
  <2> HIDE DEF l
  <2>1. QED
    BY <1>1, <1>2 DEF Process
<1>4. Sent(p, signal) = [process EXCEPT ![p] = r]
  BY DEF Sent
<1>5. QED
  <2> HIDE DEF r, l
  <2>1. QED
    BY <1>2, <1>3, <1>4 DEF TypeOK

-----------------------------------------------------------------------------
(* What a step does, by the parts it is made of.                           *)

LEMMA ReturnsEffect ==
  ASSUME TypeOK, NEW c \in Callers, call' = [call EXCEPT ![c] = Idle]
  PROVE  /\ call' \in [Callers -> Call]
         /\ call'[c].step = "idle"
         /\ \A d \in Callers : d # c => call'[d] = call[d]
  BY IdleType DEF TypeOK

LEMMA SpawnedEffect ==
  ASSUME TypeOK, NEW c \in Callers, NEW kind \in Kinds, NewCycle, Spawned(c, kind)
  PROVE  /\ cycle + 1 \in Cycles
         /\ process' \in [Cycles -> Process]
         /\ process'[cycle + 1].life = "alive"
         /\ process'[cycle + 1].leaving = process[cycle + 1].leaving
         /\ \A q \in Cycles : q # cycle + 1 => process'[q] = process[q]
         /\ call' \in [Callers -> Call]
         /\ call'[c].step = "waiting"
         /\ \A d \in Callers : d # c => call'[d] = call[d]
         /\ TypeOK'
<1> DEFINE p == cycle + 1
           r == [process[p] EXCEPT !.life = "alive", !.pipe = TRUE]
           k == [kind |-> kind, step |-> "waiting", on |-> p]
<1>1. p \in Cycles /\ p \in CycleOr0
  BY RefsType DEF NewCycle, Cycles, CycleOr0
<1>2. r \in Process /\ r.life = "alive" /\ r.leaving = process[p].leaving
  BY <1>1 DEF TypeOK, Process
<1>3. process' = [process EXCEPT ![p] = r]
  BY DEF Spawned
<1>4. /\ process' \in [Cycles -> Process]
      /\ process'[p] = r
      /\ \A q \in Cycles : q # p => process'[q] = process[q]
  <2> HIDE DEF r
  <2>1. QED
    BY <1>1, <1>2, <1>3 DEF TypeOK
<1>5. k \in Call /\ k.step = "waiting"
  BY <1>1 DEF Call, Steps
<1>6. /\ call' \in [Callers -> Call]
      /\ call'[c] = k
      /\ \A d \in Callers : d # c => call'[d] = call[d]
  <2>1. call' = [call EXCEPT ![c] = k]
    BY DEF Spawned
  <2> HIDE DEF k
  <2>2. QED
    BY <1>5, <2>1 DEF TypeOK
<1>7. TypeOK'
  <2>1. cycle' \in CycleOr0 /\ {stateDev', devProc', stdin'} \subseteq 0 .. cycle'
    BY <1>1, RefsType DEF NewCycle, Spawned, CycleOr0
  <2>2. stopInvoked' \in BOOLEAN /\ operationsFetched' \in BOOLEAN
    BY DEF Spawned, NewCycle, LatchAfterSpawn, FlagOfNewCycle
  <2>3. mixed' \in BOOLEAN
    <3>1. mixed' = (mixed \/ \E d \in Callers : Stopping(d))
      BY DEF Spawned
    <3>2. QED
      BY <3>1, Zenon
  <2>4. clean' \subseteq Cycles
    BY <1>1, Zenon DEF Spawned, TypeOK
  <2>5. execution' \in [Cycles -> Execution]
    BY DEF NewCycle, TypeOK
  <2>6. QED
    BY <1>4, <1>6, <2>1, <2>2, <2>3, <2>4, <2>5 DEF TypeOK, NewCycle
<1>8. QED
  <2> HIDE DEF r, k
  <2>1. QED
    BY <1>1, <1>2, <1>4, <1>5, <1>6, <1>7

LEMMA NothingToKillEffect ==
  ASSUME TypeOK, NEW c \in Callers, NEW k \in Call, NothingToKill(c, k)
  PROVE  /\ call' \in [Callers -> Call]
         /\ call'[c].step \in {"starting", "idle"}
         /\ \A d \in Callers : d # c => call'[d] = call[d]
         /\ execution' \in [Cycles -> Execution]
<1>1. After(k) \in Call /\ After(k).step \in {"starting", "idle"}
  BY AfterType
<1>2. call' = [call EXCEPT ![c] = After(k)] /\ execution' = StateStopped(execution)
  BY DEF NothingToKill
<1>3. execution' \in [Cycles -> Execution]
  BY <1>2, StateStoppedType DEF TypeOK
<1>4. QED
  BY <1>1, <1>2, <1>3 DEF TypeOK

LEMMA TerminateEffect ==
  ASSUME TypeOK, NEW c \in Callers, NEW k \in Call, Terminate(c, k)
  PROVE  /\ devProc \in Cycles
         /\ call' \in [Callers -> Call]
         /\ call'[c].step = "term"
         /\ \A d \in Callers : d # c => call'[d] = call[d]
         /\ process' \in [Cycles -> Process]
<1> DEFINE r == [k EXCEPT !.step = "term", !.on = devProc]
<1>1. devProc \in Cycles /\ devProc \in CycleOr0
  BY RefsType DEF Terminate
<1>2. r \in Call /\ r.step = "term"
  BY <1>1 DEF Call, Steps
<1>3. call' = [call EXCEPT ![c] = r]
  BY DEF Terminate
<1>4. process' \in [Cycles -> Process]
  BY <1>1, SentType DEF Terminate
<1>5. QED
  <2> HIDE DEF r
  <2>1. QED
    BY <1>1, <1>2, <1>3, <1>4 DEF TypeOK

LEMMA RunStopEffect ==
  ASSUME TypeOK, NEW c \in Callers, NEW k \in Call, RunStop(c, k)
  PROVE  /\ call' \in [Callers -> Call]
         /\ \A d \in Callers : d # c => call'[d] = call[d]
         /\ TypeOK'
<1>1. CASE call' = [call EXCEPT ![c] = [k EXCEPT !.step = "script", !.on = 0]]
           /\ UNCHANGED <<process, execution, tools>>
  <2> DEFINE r == [k EXCEPT !.step = "script", !.on = 0]
  <2>1. r \in Call
    BY ZeroType DEF Call, Steps
  <2>2. call' \in [Callers -> Call] /\ \A d \in Callers : d # c => call'[d] = call[d]
    <3>1. call' = [call EXCEPT ![c] = r]
      BY <1>1
    <3> HIDE DEF r
    <3>2. QED
      BY <2>1, <3>1 DEF TypeOK
  <2>3. QED
    BY <1>1, <2>2 DEF RunStop, TypeOK
<1>2. CASE NothingToKill(c, k)
  <2>1. 0 \in CycleOr0
    BY ZeroType
  <2>2. QED
    BY <1>2, <2>1, NothingToKillEffect DEF RunStop, TypeOK, NothingToKill
<1>3. CASE Terminate(c, k)
  BY <1>3, TerminateEffect DEF RunStop, TypeOK, Terminate
<1>4. QED
  BY <1>1, <1>2, <1>3 DEF RunStop

LEMMA RunDevType ==
  ASSUME TypeOK, NEW c \in Callers, NEW kind \in Kinds, RunDev(c, kind)
  PROVE  TypeOK'
<1>1. CASE NewCycle /\ Spawned(c, kind)
  BY <1>1, SpawnedEffect
<1>2. CASE NewCycle /\ SpawnFails(c)
  <2>1. call' \in [Callers -> Call]
    BY <1>2, ReturnsEffect DEF SpawnFails
  <2>2. cycle' \in CycleOr0 /\ {stateDev', devProc', stdin'} \subseteq 0 .. cycle'
    BY <1>2, RefsType DEF NewCycle, SpawnFails, CycleOr0
  <2>3. QED
    BY <1>2, <2>1, <2>2 DEF TypeOK, NewCycle, SpawnFails, FlagOfNewCycle
<1>3. CASE Returns(c)
  BY <1>3, ReturnsEffect DEF Returns, TypeOK
<1>4. QED
  BY <1>1, <1>2, <1>3 DEF RunDev

LEMMA ContinueType ==
  ASSUME TypeOK, NEW c \in Callers, NEW kind, Continue(c, kind)
  PROVE  TypeOK'
<1>1. CASE Returns(c)
  BY <1>1, ReturnsEffect DEF Returns, TypeOK
<1>2. CASE RunDev(c, "start")
  BY <1>2, RunDevType DEF Kinds
<1>3. CASE RunDev(c, "apply")
  BY <1>3, RunDevType DEF Kinds
<1>4. QED
  BY <1>1, <1>2, <1>3 DEF Continue, Refuse

LEMMA StopAgainType ==
  ASSUME TypeOK, NEW c \in Callers, NEW kind, StopAgain(c, kind)
  PROVE  TypeOK'
  BY ReturnsEffect, ContinueType, ZenonT(30) DEF StopAgain, Returns, TypeOK

LEMMA ConfigRecordedEffect ==
  ASSUME TypeOK, NEW c \in Callers, ConfigRecorded(c)
  PROVE  /\ call' \in [Callers -> Call]
         /\ call'[c].step \in {"calling", "idle"}
         /\ \A d \in Callers : d # c => call'[d] = call[d]
         /\ execution' \in [Cycles -> Execution]
         /\ \A p \in Cycles : /\ execution'[p].state = execution[p].state
                              /\ execution'[p].served = execution[p].served
                              /\ p # stateDev => execution'[p] = execution[p]
                              /\ p = stateDev => execution'[p].operations = "loaded"
<1>1. call[c] \in Call
  BY DEF TypeOK
<1> DEFINE r == [call[c] EXCEPT !.step = "calling", !.on = 0]
<1>2. r \in Call /\ r.step = "calling"
  BY <1>1, ZeroType DEF Call, Steps
<1>3. \/ call' = [call EXCEPT ![c] = r]
      \/ call' = [call EXCEPT ![c] = Idle]
  BY DEF ConfigRecorded
<1>4. /\ call' \in [Callers -> Call]
      /\ call'[c].step \in {"calling", "idle"}
      /\ \A d \in Callers : d # c => call'[d] = call[d]
  <2> HIDE DEF r
  <2>1. QED
    BY <1>2, <1>3, IdleType DEF TypeOK
<1>5. CASE stateDev \in Cycles
  <2> DEFINE x == [execution[stateDev] EXCEPT !.operations = "loaded"]
  <2>1. /\ x \in Execution
        /\ x.state = execution[stateDev].state /\ x.served = execution[stateDev].served
        /\ x.operations = "loaded"
    BY <1>5 DEF TypeOK, Execution
  <2>2. execution' = [execution EXCEPT ![stateDev] = x]
    BY DEF ConfigRecorded
  <2>3. QED
    <3> HIDE DEF x
    <3>1. QED
      BY <1>4, <1>5, <2>1, <2>2 DEF TypeOK
<1>6. CASE stateDev \notin Cycles
  <2>1. execution' = execution
    BY <1>6 DEF ConfigRecorded, TypeOK
  <2>2. QED
    BY <1>4, <1>6, <2>1 DEF TypeOK
<1>7. QED
  BY <1>5, <1>6

LEMMA ExitEffect ==
  ASSUME TypeOK, NEW p \in Cycles, Exit(p)
  PROVE  /\ process' \in [Cycles -> Process]
         /\ process'[p].life = "gone"
         /\ \A q \in Cycles : q # p => process'[q] = process[q]
         /\ execution' \in [Cycles -> Execution]
         /\ execution'[p].state # "running"
         /\ (\E c \in Callers : call[c].step = "term" /\ call[c].on = p)
              \/ \A q \in Cycles : q # p => execution'[q] = execution[q]
         /\ \A q \in Cycles : q # p /\ q # stateDev => execution'[q] = execution[q]
         /\ call' \in [Callers -> Call]
         /\ \A c \in Callers :
              IF call[c].step = "term" /\ call[c].on = p
              THEN call'[c].step \in {"starting", "idle"}
              ELSE call'[c] = call[c] \/ (call[c].step = "waiting" /\ call'[c].step = "idle")
<1> DEFINE stops == {c \in Callers : call[c].step = "term" /\ call[c].on = p}
           ended == [execution EXCEPT ![p].state = IF @ = "running" THEN "exited" ELSE @]
<1>1. /\ process' \in [Cycles -> Process]
      /\ process'[p].life = "gone"
      /\ \A q \in Cycles : q # p => process'[q] = process[q]
  <2>1. PICK open \in {FALSE, process[p].pipe} :
          process' = [process EXCEPT ![p].life = "gone", ![p].pipe = open]
    BY DEF Exit
  <2> DEFINE r == [process[p] EXCEPT !.life = "gone", !.pipe = open]
  <2>2. open \in BOOLEAN
    BY <2>1 DEF TypeOK, Process
  <2>3. r \in Process /\ r.life = "gone"
    BY <2>2 DEF TypeOK, Process
  <2>4. process' = [process EXCEPT ![p] = r]
    BY <2>1
  <2>5. QED
    <3> HIDE DEF r
    <3>1. QED
      BY <2>3, <2>4 DEF TypeOK
<1>2. /\ ended \in [Cycles -> Execution]
      /\ ended[p].state # "running"
      /\ \A q \in Cycles : q # p => ended[q] = execution[q]
  <2> DEFINE st == IF execution[p].state = "running" THEN "exited" ELSE execution[p].state
             x == [execution[p] EXCEPT !.state = st]
  <2>1. x \in Execution /\ x.state # "running"
    BY DEF TypeOK, Execution
  <2>2. ended = [execution EXCEPT ![p] = x]
    OBVIOUS
  <2>3. QED
    <3> HIDE DEF x
    <3>1. QED
      BY <2>1, <2>2 DEF TypeOK
<1>3. execution' = IF stops = {} THEN ended ELSE StateStopped(ended)
  BY DEF Exit
<1>4. /\ execution' \in [Cycles -> Execution]
      /\ execution'[p].state # "running"
      /\ stops = {} => \A q \in Cycles : q # p => execution'[q] = execution[q]
      /\ \A q \in Cycles : q # p /\ q # stateDev => execution'[q] = execution[q]
  <2> HIDE DEF ended, stops
  <2>1. CASE stops = {}
    BY <1>2, <1>3, <2>1
  <2>2. CASE stops # {}
    <3>1. /\ StateStopped(ended) \in [Cycles -> Execution]
          /\ StateStopped(ended)[p].state \in {ended[p].state, "stopped"}
          /\ \A q \in Cycles : q # stateDev => StateStopped(ended)[q] = ended[q]
      BY <1>2, StateStoppedType
    <3>2. QED
      BY <1>2, <1>3, <2>2, <3>1
  <2>3. QED
    BY <2>1, <2>2
<1>5. call' = [c \in Callers |-> IF c \in stops THEN After(call[c])
                                ELSE IF WaitsFor(c, p) THEN Idle ELSE call[c]]
  BY DEF Exit
<1>6. \A c \in Callers : /\ call'[c] \in Call
                         /\ IF c \in stops THEN call'[c].step \in {"starting", "idle"}
                            ELSE call'[c] = call[c] \/ (call[c].step = "waiting" /\ call'[c].step = "idle")
  <2> TAKE c \in Callers
  <2>1. call[c] \in Call
    BY DEF TypeOK
  <2>2. After(call[c]) \in Call /\ After(call[c]).step \in {"starting", "idle"}
    BY <2>1, AfterType
  <2> HIDE DEF stops
  <2>3. QED
    BY <1>5, <2>1, <2>2, IdleType DEF WaitsFor
<1>7. call' \in [Callers -> Call]
  <2> HIDE DEF stops
  <2>1. QED
    BY <1>5, <1>6
<1>8. QED
  BY <1>1, <1>4, <1>6, <1>7

LEMMA ReadyEffect ==
  ASSUME TypeOK, NEW p \in Cycles, Ready(p)
  PROVE  /\ call' \in [Callers -> Call]
         /\ \A c \in Callers : \/ call'[c] = call[c]
                                \/ /\ call[c].step = "waiting"
                                   /\ call'[c].step \in {"idle", "verifying"}
                                   /\ call'[c].step = "verifying" => call'[c].on = stateDev
<1>1. call' = [c \in Callers |-> IF Hears(c) THEN Woken(call[c]) ELSE call[c]]
  BY DEF Ready
<1>2. \A c \in Callers : /\ call'[c] \in Call
                         /\ \/ call'[c] = call[c]
                            \/ /\ call[c].step = "waiting"
                               /\ call'[c].step \in {"idle", "verifying"}
                               /\ call'[c].step = "verifying" => call'[c].on = stateDev
  <2> TAKE c \in Callers
  <2> DEFINE r == [call[c] EXCEPT !.step = "verifying", !.on = stateDev]
  <2>1. call[c] \in Call
    BY DEF TypeOK
  <2>2. r \in Call /\ r.step = "verifying" /\ r.on = stateDev
    BY <2>1, RefsType DEF Call, Steps
  <2>3. Woken(call[c]) = r \/ Woken(call[c]) = Idle
    BY DEF Woken
  <2> HIDE DEF r
  <2>4. QED
    BY <1>1, <2>1, <2>2, <2>3, IdleType DEF Hears, WaitsFor
<1>3. call' \in [Callers -> Call]
  BY <1>1, <1>2
<1>4. QED
  BY <1>2, <1>3

LEMMA SaysStoppingEffect ==
  ASSUME TypeOK, NEW p \in Cycles, SaysStopping(p)
  PROVE  /\ process' \in [Cycles -> Process]
         /\ execution' \in [Cycles -> Execution]
         /\ \A q \in Cycles : q # p => process'[q] = process[q] /\ execution'[q] = execution[q]
         /\ process'[p].leaving # "no"
         /\ process'[p].life = process[p].life
         /\ process'[p].pipe = process[p].pipe
         /\ execution'[p].state = "stopped"
         /\ execution'[p].operations = execution[p].operations
<1> DEFINE l == IF process[p].leaving = "no" THEN "said" ELSE process[p].leaving
           r == [process[p] EXCEPT !.leaving = l]
           x == [execution[p] EXCEPT !.state = "stopped"]
<1>1. l \in {"said", "term", "kill"}
  BY DEF TypeOK, Process
<1>2. r \in Process /\ r.leaving = l /\ r.life = process[p].life /\ r.pipe = process[p].pipe
  <2> HIDE DEF l
  <2>1. QED
    BY <1>1 DEF TypeOK, Process
<1>3. /\ x \in Execution
      /\ x.state = "stopped" /\ x.operations = execution[p].operations
  BY DEF TypeOK, Execution
<1>4. process' = [process EXCEPT ![p] = r] /\ execution' = [execution EXCEPT ![p] = x]
  BY DEF SaysStopping
<1>5. QED
  <2> HIDE DEF r, l, x
  <2>1. QED
    BY <1>1, <1>2, <1>3, <1>4 DEF TypeOK

LEMMA ServiceReadyEffect ==
  ASSUME TypeOK, NEW p \in Cycles, ServiceReady(p)
  PROVE  /\ execution' \in [Cycles -> Execution]
         /\ \A q \in Cycles : q # p => execution'[q] = execution[q]
         /\ execution'[p].state = execution[p].state
         /\ execution'[p].served
         /\ execution'[p].operations = IF operationsFetched THEN execution[p].operations ELSE "asked"
<1> DEFINE o == IF operationsFetched THEN execution[p].operations ELSE "asked"
           x == [execution[p] EXCEPT !.served = TRUE, !.operations = o]
<1>1. o \in {"none", "asked", "loaded", "failed"}
  BY DEF TypeOK, Execution
<1>2. x \in Execution /\ x.state = execution[p].state /\ x.operations = o /\ x.served
  <2> HIDE DEF o
  <2>1. QED
    BY <1>1 DEF TypeOK, Execution
<1>3. execution' = [execution EXCEPT ![p] = x]
  BY DEF ServiceReady
<1>4. QED
  <2> HIDE DEF x
  <2>1. QED
    BY <1>2, <1>3 DEF TypeOK

LEMMA OperationsLoadedEffect ==
  ASSUME TypeOK, NEW p \in Cycles, OperationsLoaded(p)
  PROVE  /\ execution' \in [Cycles -> Execution]
         /\ \A q \in Cycles : q # p => execution'[q] = execution[q]
         /\ execution'[p].state = execution[p].state
         /\ execution'[p].served = execution[p].served
         /\ \/ execution'[p].operations = "loaded" /\ tools' = p
            \/ execution'[p].operations = "failed" /\ tools' = tools
<1> DEFINE x(o) == [execution[p] EXCEPT !.operations = o]
<1>1. \A o \in {"loaded", "failed"} :
        /\ x(o) \in Execution /\ x(o).operations = o
        /\ x(o).state = execution[p].state /\ x(o).served = execution[p].served
  BY DEF TypeOK, Execution
<1>2. \/ execution' = [execution EXCEPT ![p] = x("loaded")] /\ tools' = p
      \/ execution' = [execution EXCEPT ![p] = x("failed")] /\ tools' = tools
  BY DEF OperationsLoaded
<1>3. QED
  <2> HIDE DEF x
  <2>1. QED
    BY <1>1, <1>2 DEF TypeOK

-----------------------------------------------------------------------------
(* Type correctness.                                                       *)

LEMMA TypeInit == Init => TypeOK
<1> SUFFICES ASSUME Init PROVE TypeOK
  OBVIOUS
<1>1. [life |-> "none", pipe |-> FALSE, leaving |-> "no"] \in Process
  BY DEF Process
<1>2. [state |-> "running", served |-> FALSE, operations |-> "none"] \in Execution
  BY DEF Execution
<1>3. process \in [Cycles -> Process] /\ execution \in [Cycles -> Execution]
  BY <1>1, <1>2 DEF Init
<1>4. call \in [Callers -> Call]
  BY IdleType DEF Init
<1>5. {stateDev, devProc, stdin} \subseteq 0 .. cycle
  BY DEF Init
<1>6. QED
  BY <1>3, <1>4, <1>5, ZeroType DEF Init, TypeOK

LEMMA TypeStep == TypeOK /\ [Next]_vars => TypeOK'
<1> SUFFICES ASSUME TypeOK, [Next]_vars PROVE TypeOK'
  OBVIOUS
<1>1. ASSUME NEW c \in Callers, CallStep(c) PROVE TypeOK'
  <2>1. CASE Start(c)
    BY <2>1, ReturnsEffect, RunDevType DEF Start, Refuse, Returns, TypeOK, Kinds
  <2>2. CASE StartAgain(c)
    BY <2>2, ContinueType DEF StartAgain
  <2>3. ASSUME NEW kind \in {"stop", "restart"}, Stop(c, kind) PROVE TypeOK'
    <3> DEFINE k == [kind |-> kind, step |-> "idle", on |-> 0]
    <3>1. k \in Call
      BY ZeroType DEF Call, Kinds, Steps
    <3>2. StopAgain(c, kind) \/ RunStop(c, k)
      BY <2>3 DEF Stop
    <3> HIDE DEF k
    <3>3. QED
      BY <3>1, <3>2, StopAgainType, RunStopEffect
  <2>4. CASE Close(c)
    BY <2>3, <2>4 DEF Close
  <2>5. CASE ScriptEnds(c)
    <3>1. call[c] \in Call /\ 0 \in CycleOr0
      BY ZeroType DEF TypeOK
    <3>2. CASE NothingToKill(c, call[c])
      BY <2>5, <3>1, <3>2, NothingToKillEffect DEF ScriptEnds, TypeOK, NothingToKill
    <3>3. CASE Terminate(c, call[c])
      BY <2>5, <3>1, <3>3, TerminateEffect DEF ScriptEnds, TypeOK, Terminate
    <3>4. QED
      BY <2>5, <3>2, <3>3 DEF ScriptEnds
  <2>6. CASE Escalate(c)
    <3>1. call[c] \in Call /\ 0 \in CycleOr0
      BY ZeroType DEF TypeOK
    <3>2. CASE devProc = 0
      BY <2>6, <3>2, ReturnsEffect DEF Escalate, TypeOK
    <3>3. CASE devProc # 0
      <4>1. process' \in [Cycles -> Process] /\ execution' \in [Cycles -> Execution]
        BY <2>6, <3>3, RefsType, SentType, StateStoppedType DEF Escalate, LastSignal, TypeOK
      <4>2. After(call[c]) \in Call
        BY <3>1, AfterType
      <4>3. call' \in [Callers -> Call]
        BY <2>6, <3>3, <4>2 DEF Escalate, TypeOK
      <4>4. QED
        BY <2>6, <3>1, <3>3, <4>1, <4>3 DEF Escalate, TypeOK
    <3>4. QED
      BY <3>2, <3>3
  <2>7. CASE BeginApply(c)
    <3> DEFINE k == [kind |-> "apply", step |-> "reading", on |-> stateDev]
    <3>1. k \in Call
      BY RefsType DEF Call, Kinds, Steps
    <3>2. call' = [call EXCEPT ![c] = k]
      BY <2>7 DEF BeginApply
    <3>3. call' \in [Callers -> Call]
      <4> HIDE DEF k
      <4>1. QED
        BY <3>1, <3>2 DEF TypeOK
    <3>4. QED
      BY <2>7, <3>3 DEF BeginApply, TypeOK
  <2>8. CASE ConfigRecorded(c)
    <3>1. call[c] \in Call
      BY DEF TypeOK
    <3>2. tools' = call[c].on
      BY <2>8 DEF ConfigRecorded
    <3>3. QED
      BY <2>8, <3>1, <3>2, ConfigRecordedEffect DEF ConfigRecorded, TypeOK, Call
  <2>9. CASE ApplyFails(c)
    BY <2>9, ReturnsEffect DEF ApplyFails, Returns, TypeOK
  <2>10. CASE StopForApply(c)
    BY <2>10, StopAgainType, RunStopEffect DEF StopForApply, TypeOK
  <2>11. QED
    BY <1>1, <2>1, <2>2, <2>3, <2>4, <2>5, <2>6, <2>7, <2>8, <2>9, <2>10 DEF CallStep
<1>2. ASSUME NEW p \in Cycles, ProcessStep(p) PROVE TypeOK'
  <2>1. CASE Exit(p)
    <3>1. 0 \in 0 .. cycle
      BY RefsType
    <3>2. {stateDev', devProc', stdin'} \subseteq 0 .. cycle'
      BY <2>1, <3>1 DEF Exit, TypeOK
    <3>3. QED
      BY <2>1, <3>2, ExitEffect, ZeroType DEF Exit, TypeOK
  <2>2. CASE PipeCloses(p)
    <3> DEFINE r == [process[p] EXCEPT !.pipe = FALSE]
    <3>1. r \in Process
      BY DEF TypeOK, Process
    <3>2. process' = [process EXCEPT ![p] = r]
      BY <2>2 DEF PipeCloses
    <3>3. process' \in [Cycles -> Process]
      <4> HIDE DEF r
      <4>1. QED
        BY <3>1, <3>2 DEF TypeOK
    <3>4. QED
      BY <2>2, <3>3 DEF PipeCloses, TypeOK
  <2>3. CASE ServiceReady(p)
    BY <2>3, ServiceReadyEffect DEF ServiceReady, TypeOK
  <2>4. CASE Ready(p)
    BY <2>4, ReadyEffect DEF Ready, TypeOK
  <2>5. CASE SaysStopping(p)
    BY <2>5, SaysStoppingEffect DEF SaysStopping, TypeOK
  <2>6. CASE OperationsLoaded(p)
    BY <2>6, OperationsLoadedEffect DEF OperationsLoaded, TypeOK, Cycles, CycleOr0
  <2>7. QED
    BY <1>2, <2>1, <2>2, <2>3, <2>4, <2>5, <2>6 DEF ProcessStep
<1>3. CASE UNCHANGED vars
  BY <1>3 DEF vars, TypeOK
<1>4. QED
  BY <1>1, <1>2, <1>3 DEF Next

\* Every reachable state is well typed.
THEOREM TypeCorrect == Spec => []TypeOK
  BY TypeInit, TypeStep, PTL DEF Spec

-----------------------------------------------------------------------------
(***************************************************************************)
(* What a stop covers.  As long as no process is started while a stop is   *)
(* on its way, at most one call is inside runStop or in the turn after it, *)
(* it holds the latch, and from the moment it has signalled no process is  *)
(* left that was not told to stop.                                         *)
(***************************************************************************)
Busy(c) == call[c].step \in {"script", "term", "starting"}

AllLeaving == \A p \in Cycles : Alive(p) => Leaving(p)

\* A cycle that has not begun: nothing of its process or its execution.
Fresh ==
  /\ \A p \in Cycles : p > cycle =>
       /\ process[p].life = "none" /\ ~process[p].pipe /\ process[p].leaving = "no"
       /\ execution[p].state = "running" /\ ~execution[p].served
       /\ execution[p].operations = "none"
  /\ clean \subseteq 1 .. cycle
  /\ \A c \in Callers : Reading(c) => stateDev # 0

OneStop == \A c, d \in Callers : Busy(c) /\ Busy(d) => c = d

Latched == \A c \in Callers : Stopping(c) => stopInvoked

Covered == (\E c \in Callers : call[c].step \in {"term", "starting"}) => AllLeaving

StopInv ==
  /\ ~mixed => OneStop /\ Latched /\ Covered
  /\ NothingForgotten
  /\ LatchCovers

FreshInv == TypeOK /\ Fresh

LEMMA FreshInit == Init => Fresh
  BY DEF Init, Fresh, Reading, Idle

LEMMA FreshStep == FreshInv /\ [Next]_vars => Fresh'
<1> SUFFICES ASSUME FreshInv, [Next]_vars PROVE Fresh'
  OBVIOUS
<1> USE DEF FreshInv
<1>0. cycle \in Nat /\ Cycles = 1 .. MaxCycles
  BY RefsType DEF Cycles
\* Everything but a spawn leaves the cycles alone.
<1>1. ASSUME NEW c \in Callers, call' = [call EXCEPT ![c] = Idle],
             UNCHANGED <<process, execution, stateDev, clean>>,
             cycle' = cycle \/ cycle' = cycle + 1
      PROVE  Fresh'
  <2>1. \A d \in Callers : Reading(d)' => Reading(d)
    BY <1>1, ReturnsEffect DEF Reading
  <2>2. QED
    BY <1>0, <1>1, <2>1 DEF Fresh
<1>2. ASSUME NEW c \in Callers, NEW kind \in Kinds, RunDev(c, kind) PROVE Fresh'
  <2>1. CASE NewCycle /\ Spawned(c, kind)
    <3>1. \A d \in Callers : Reading(d)' => Reading(d)
      BY <2>1, SpawnedEffect DEF Reading
    <3>2. stateDev' # 0
      BY <1>0, <2>1 DEF Spawned
    <3>3. clean' \subseteq 1 .. cycle'
      BY <1>0, <2>1 DEF Spawned, NewCycle, Fresh
    <3>4. QED
      BY <1>0, <2>1, <3>1, <3>2, <3>3, SpawnedEffect DEF Fresh, NewCycle
  <2>2. CASE NewCycle /\ SpawnFails(c)
    BY <1>1, <2>2 DEF NewCycle, SpawnFails
  <2>3. CASE Returns(c)
    BY <1>1, <2>3 DEF Returns
  <2>4. QED
    BY <1>2, <2>1, <2>2, <2>3 DEF RunDev
<1>3. ASSUME NEW c \in Callers, NEW kind, Continue(c, kind) PROVE Fresh'
  BY <1>1, <1>2, <1>3 DEF Continue, Refuse, Returns, Kinds
<1>4. ASSUME NEW c \in Callers, NEW kind, StopAgain(c, kind) PROVE Fresh'
  BY <1>1, <1>3, <1>4 DEF StopAgain, Returns
\* What happens to processes that have begun.
<1>5. ASSUME UNCHANGED <<cycle, stateDev, clean>>,
             \A p \in Cycles : p > cycle => process'[p] = process[p] /\ execution'[p] = execution[p],
             \A d \in Callers : Reading(d)' => Reading(d) \/ stateDev # 0
      PROVE  Fresh'
  BY <1>0, <1>5 DEF Fresh
<1>6. \A p \in Cycles : p > cycle => p # stateDev /\ p # devProc
  BY <1>0, RefsType
<1>7. ASSUME NEW c \in Callers, NEW k \in Call,
             NothingToKill(c, k) \/ Terminate(c, k), UNCHANGED <<cycle, stateDev, clean>>
      PROVE  Fresh'
  <2>1. CASE NothingToKill(c, k)
    <3>1. execution' = StateStopped(execution) /\ process' = process
      BY <2>1 DEF NothingToKill
    <3>2. \A p \in Cycles : p > cycle => execution'[p] = execution[p]
      BY <1>6, <3>1, StateStoppedType DEF TypeOK
    <3>3. \A d \in Callers : Reading(d)' => Reading(d)
      BY <2>1, NothingToKillEffect DEF Reading
    <3>4. QED
      BY <1>5, <1>7, <3>1, <3>2, <3>3
  <2>2. CASE Terminate(c, k)
    <3>1. process' = Sent(devProc, "term") /\ execution' = execution /\ devProc \in Cycles
      BY <2>2, TerminateEffect DEF Terminate
    <3>2. \A p \in Cycles : p > cycle => process'[p] = process[p]
      BY <1>6, <3>1, SentType
    <3>3. \A d \in Callers : Reading(d)' => Reading(d)
      BY <2>2, TerminateEffect DEF Reading
    <3>4. QED
      BY <1>5, <1>7, <3>1, <3>2, <3>3
  <2>3. QED
    BY <1>7, <2>1, <2>2
<1>8. ASSUME NEW c \in Callers, NEW k \in Call, k.step \in {"idle", "calling"}, RunStop(c, k)
      PROVE  Fresh'
  <2>1. CASE call' = [call EXCEPT ![c] = [k EXCEPT !.step = "script", !.on = 0]]
             /\ UNCHANGED <<process, execution, tools>>
    <3>1. [k EXCEPT !.step = "script", !.on = 0].step = "script"
      BY DEF Call
    <3>2. call'[c].step = "script"
      BY <2>1, <3>1 DEF TypeOK
    <3>3. \A d \in Callers : Reading(d)' => Reading(d)
      BY <1>8, <3>2, RunStopEffect DEF Reading
    <3>4. QED
      BY <1>5, <1>8, <2>1, <3>3 DEF RunStop
  <2>2. CASE NothingToKill(c, k) \/ Terminate(c, k)
    BY <1>7, <1>8, <2>2 DEF RunStop
  <2>3. QED
    BY <1>8, <2>1, <2>2 DEF RunStop
<1>9. ASSUME NEW c \in Callers, CallStep(c) PROVE Fresh'
  <2>0. call[c] \in Call
    BY DEF TypeOK
  <2>1. CASE Start(c)
    BY <1>1, <1>2, <2>1 DEF Start, Refuse, Returns, Kinds
  <2>2. CASE StartAgain(c)
    BY <1>3, <2>2 DEF StartAgain
  <2>3. ASSUME NEW kind \in {"stop", "restart"}, Stop(c, kind) PROVE Fresh'
    <3> DEFINE k == [kind |-> kind, step |-> "idle", on |-> 0]
    <3>1. k \in Call /\ k.step = "idle"
      BY ZeroType DEF Call, Kinds, Steps
    <3>2. StopAgain(c, kind) \/ RunStop(c, k)
      BY <2>3 DEF Stop
    <3> HIDE DEF k
    <3>3. QED
      BY <1>4, <1>8, <3>1, <3>2
  <2>4. CASE Close(c)
    BY <2>3, <2>4 DEF Close
  <2>5. CASE ScriptEnds(c)
    BY <1>7, <2>0, <2>5 DEF ScriptEnds
  <2>6. CASE Escalate(c)
    <3>1. CASE devProc = 0
      BY <1>1, <2>6, <3>1 DEF Escalate
    <3>2. CASE devProc # 0
      <4>1. /\ process' = Sent(devProc, "kill") /\ execution' = StateStopped(execution)
            /\ call' = [call EXCEPT ![c] = After(call[c])] /\ devProc \in Cycles
        BY <2>6, <3>2, RefsType DEF Escalate, LastSignal
      <4>2. \A p \in Cycles : p > cycle => process'[p] = process[p] /\ execution'[p] = execution[p]
        BY <1>6, <4>1, SentType, StateStoppedType DEF TypeOK
      <4>3. \A d \in Callers : Reading(d)' => Reading(d)
        BY <2>0, <4>1, AfterType DEF Reading, TypeOK
      <4>4. QED
        BY <1>5, <2>6, <4>2, <4>3 DEF Escalate
    <3>3. QED
      BY <3>1, <3>2
  <2>7. CASE BeginApply(c)
    BY <1>5, <2>7 DEF BeginApply, Served
  <2>8. CASE ConfigRecorded(c)
    BY <1>5, <1>6, <2>8, ConfigRecordedEffect DEF ConfigRecorded, Reading, Fresh
  <2>9. CASE ApplyFails(c)
    BY <1>1, <2>9 DEF ApplyFails, Returns
  <2>10. CASE StopForApply(c)
    BY <1>4, <1>8, <2>0, <2>10 DEF StopForApply
  <2>11. QED
    BY <1>9, <2>1, <2>2, <2>3, <2>4, <2>5, <2>6, <2>7, <2>8, <2>9, <2>10 DEF CallStep
<1>10. ASSUME NEW p \in Cycles, ProcessStep(p) PROVE Fresh'
  <2>1. CASE Exit(p)
    <3>1. ~(p > cycle)
      BY <2>1 DEF Exit, Alive, Fresh
    <3>3. \A q \in Cycles : q # p /\ q # stateDev => execution'[q] = execution[q]
      BY <2>1, ExitEffect
    <3>4. \A d \in Callers : Reading(d)' => Reading(d)
      BY <2>1, ExitEffect DEF Reading
    <3>5. \A q \in Cycles : q > cycle => process'[q] = process[q] /\ execution'[q] = execution[q]
      BY <1>6, <2>1, <3>1, <3>3, ExitEffect
    <3>6. QED
      BY <1>5, <2>1, <3>4, <3>5 DEF Exit
  <2>2. CASE PipeCloses(p)
    <3>1. ~(p > cycle)
      BY <2>2 DEF PipeCloses, Fresh
    <3>2. \A q \in Cycles : q # p => process'[q] = process[q]
      BY <2>2 DEF PipeCloses, TypeOK
    <3>3. QED
      BY <1>5, <2>2, <3>1, <3>2 DEF PipeCloses, Reading
  <2>3. CASE ServiceReady(p)
    <3>1. ~(p > cycle)
      BY <2>3 DEF ServiceReady, Fresh
    <3>2. QED
      BY <1>5, <2>3, <3>1, ServiceReadyEffect DEF ServiceReady, Reading
  <2>4. CASE Ready(p)
    <3>1. \A d \in Callers : Reading(d)' => Reading(d) \/ stateDev # 0
      <4>1. \A d \in Callers : call'[d] = call[d] \/ call'[d] = Idle \/ stateDev # 0
        BY <2>4 DEF Ready, Woken, Served
      <4>2. QED
        BY <4>1, IdleType DEF Reading
    <3>2. QED
      BY <1>5, <2>4, <3>1 DEF Ready
  <2>5. CASE SaysStopping(p)
    <3>1. ~(p > cycle)
      BY <2>5 DEF SaysStopping, Fresh
    <3>2. QED
      BY <1>5, <2>5, <3>1, SaysStoppingEffect DEF SaysStopping, Reading
  <2>6. CASE OperationsLoaded(p)
    <3>1. ~(p > cycle)
      BY <2>6 DEF OperationsLoaded, Fresh
    <3>2. QED
      BY <1>5, <2>6, <3>1, OperationsLoadedEffect DEF OperationsLoaded, Reading
  <2>7. QED
    BY <1>10, <2>1, <2>2, <2>3, <2>4, <2>5, <2>6 DEF ProcessStep
<1>11. CASE UNCHANGED vars
  BY <1>5, <1>11 DEF vars, Reading
<1>12. QED
  BY <1>9, <1>10, <1>11 DEF Next

THEOREM FreshCorrect == Spec => []FreshInv
<1>1. Init => FreshInv
  BY TypeInit, FreshInit DEF FreshInv
<1>2. FreshInv /\ [Next]_vars => FreshInv'
  BY TypeStep, FreshStep DEF FreshInv
<1>3. QED
  BY <1>1, <1>2, PTL DEF Spec

LEMMA StopInit == Init => StopInv
<1> SUFFICES ASSUME Init PROVE StopInv
  OBVIOUS
<1>1. \A c \in Callers : call[c].step = "idle"
  BY DEF Init, Idle
<1>2. \A p \in Cycles : ~Alive(p)
  BY DEF Init, Alive
<1>3. QED
  BY <1>1, <1>2 DEF StopInv, OneStop, Latched, Covered, Busy, Stopping, AllLeaving,
     NothingForgotten, LatchCovers

\* A step that tells no process anything and ends no stop.
LEMMA NothingStops ==
  ASSUME StopInv, UNCHANGED <<stateDev, devProc, stopInvoked, mixed>>,
         \A p \in Cycles : /\ process'[p].life = process[p].life
                           /\ process'[p].leaving = process[p].leaving
                           /\ execution'[p].state = execution[p].state,
         \A c \in Callers : \/ call'[c].step = call[c].step
                            \/ ~Busy(c)' /\ ~Stopping(c)
  PROVE  StopInv'
<1>1. AllLeaving' <=> AllLeaving
  BY DEF AllLeaving, Alive, Leaving
<1>2. \A c \in Callers : (Busy(c)' => Busy(c)) /\ (Stopping(c)' <=> Stopping(c))
  BY DEF Busy, Stopping
<1>3. \A c \in Callers : call'[c].step \in {"term", "starting"} => call[c].step \in {"term", "starting"}
  BY DEF Busy
<1>4. ~mixed' => OneStop' /\ Latched' /\ Covered'
  BY <1>1, <1>2, <1>3 DEF StopInv, OneStop, Latched, Covered
<1>5. NothingForgotten'
  BY DEF StopInv, NothingForgotten, Alive, Leaving
<1>6. LatchCovers'
  BY <1>1, <1>2 DEF StopInv, LatchCovers, AllLeaving
<1>7. QED
  BY <1>4, <1>5, <1>6 DEF StopInv

\* A step after which every process was told to stop.
LEMMA AllStops ==
  ASSUME StopInv, ~mixed' => AllLeaving' /\ OneStop' /\ Latched'
  PROVE  StopInv'
  BY DEF StopInv, Covered, NothingForgotten, LatchCovers, AllLeaving

\* A spawn, when what was alive before it was told to stop.
LEMMA SpawnStops ==
  ASSUME FreshInv, StopInv, NEW c \in Callers, NEW kind \in Kinds, RunDev(c, kind),
         ~Stopping(c),
         \A d \in Callers : ~mixed /\ d # c => call[d].step # "starting",
         ~mixed /\ (\A d \in Callers : ~Stopping(d)) => AllLeaving
  PROVE  StopInv'
<1> USE DEF FreshInv
<1>1. CASE NewCycle /\ Spawned(c, kind)
  <2> SUFFICES ASSUME ~mixed' PROVE StopInv'
    BY DEF StopInv, NothingForgotten, LatchCovers
  <2>1. ~mixed /\ \A d \in Callers : ~Stopping(d)
    BY <1>1, Zenon DEF Spawned
  <2>2. AllLeaving
    BY <2>1
  <2>3. \A d \in Callers : ~Busy(d)'
    BY <1>1, <2>1, SpawnedEffect DEF Busy, Stopping
  <2>4. OneStop' /\ Latched' /\ Covered'
    BY <2>3 DEF OneStop, Latched, Covered, Busy, Stopping
  <2>5. NothingForgotten'
    <3>1. \A p \in Cycles : p # cycle + 1 /\ Alive(p)' => Leaving(p)'
      BY <1>1, <2>2, SpawnedEffect DEF AllLeaving, Alive, Leaving
    <3>2. cycle + 1 \in Cycles /\ cycle + 1 > cycle
      BY <1>1, SpawnedEffect, RefsType
    <3>3. execution'[cycle + 1].state = "running"
      BY <1>1, <3>2 DEF NewCycle, Fresh
    <3>4. devProc' = cycle + 1 /\ stateDev' = cycle + 1
      BY <1>1 DEF Spawned
    <3>5. QED
      BY <3>1, <3>3, <3>4 DEF NothingForgotten
  <2>6. LatchCovers'
    BY <1>1 DEF Spawned, LatchAfterSpawn, LatchCovers
  <2>7. QED
    BY <2>4, <2>5, <2>6 DEF StopInv
<1>2. CASE call' = [call EXCEPT ![c] = Idle]
           /\ UNCHANGED <<process, execution, stateDev, devProc, stopInvoked, mixed>>
  <2>1. \A d \in Callers : call'[d].step = call[d].step \/ (~Busy(d)' /\ ~Stopping(d))
    BY <1>2, ReturnsEffect DEF Busy
  <2>2. QED
    BY <1>2, <2>1, NothingStops
<1>3. QED
  BY <1>1, <1>2 DEF RunDev, NewCycle, SpawnFails, Returns

\* A call that returns, and had no stop of its own.
LEMMA ReturnStops ==
  ASSUME FreshInv, StopInv, NEW c \in Callers, ~Stopping(c), Returns(c)
  PROVE  StopInv'
<1>1. \A d \in Callers : call'[d].step = call[d].step \/ (~Busy(d)' /\ ~Stopping(d))
  BY ReturnsEffect DEF Busy, Returns, FreshInv
<1>2. QED
  BY <1>1, NothingStops DEF Returns

\* What is not running has been told to stop.
LEMMA MayStartLeaving ==
  ASSUME FreshInv, StopInv, ~mixed, MayStart
  PROVE  AllLeaving
  BY DEF StopInv, NothingForgotten, MayStart, AllLeaving, Cycles

LEMMA ContinueStops ==
  ASSUME FreshInv, StopInv, NEW c \in Callers, NEW kind, Continue(c, kind),
         ~Stopping(c),
         \A d \in Callers : ~mixed /\ d # c => call[d].step # "starting",
         ~mixed /\ (\A d \in Callers : ~Stopping(d)) => AllLeaving
  PROVE  StopInv'
<1>1. CASE Returns(c)
  BY <1>1, ReturnStops
<1>2. CASE RunDev(c, "start")
  BY <1>2, SpawnStops DEF Kinds
<1>3. CASE RunDev(c, "apply")
  BY <1>3, SpawnStops DEF Kinds
<1>4. QED
  BY <1>1, <1>2, <1>3 DEF Continue, Refuse

LEMMA StopAgainStops ==
  ASSUME FreshInv, StopInv, Quiet, NEW c \in Callers, NEW kind, StopAgain(c, kind), ~Stopping(c)
  PROVE  StopInv'
<1>1. ~mixed /\ (\A d \in Callers : ~Stopping(d)) => AllLeaving
  BY DEF StopAgain, StopInv, LatchCovers, AllLeaving
<1>2. QED
  BY <1>1, ReturnStops, ContinueStops DEF StopAgain, Quiet

\* The second half of runStop, by the only call that may be in it.
LEMMA KillStops ==
  ASSUME FreshInv, StopInv, NEW c \in Callers, NEW k \in Call,
         NothingToKill(c, k) \/ Terminate(c, k),
         ~mixed => \A d \in Callers : Busy(d) => d = c,
         stopInvoked', UNCHANGED <<devProc, mixed>>
  PROVE  StopInv'
<1> USE DEF FreshInv
<1>1. \A d \in Callers : d # c => call'[d] = call[d]
  BY NothingToKillEffect, TerminateEffect
<1>2. ~mixed => OneStop' /\ Latched'
  BY <1>1 DEF OneStop, Latched, Busy, Stopping
<1>3. ~mixed => AllLeaving'
  <2>1. CASE NothingToKill(c, k)
    BY <2>1 DEF NothingToKill, StopInv, NothingForgotten, AllLeaving, Alive, Leaving, Cycles
  <2>2. CASE Terminate(c, k)
    <3>1. process' = Sent(devProc, "term") /\ devProc \in Cycles
      BY <2>2, TerminateEffect DEF Terminate
    <3>2. QED
      BY <3>1, SentType DEF StopInv, NothingForgotten, AllLeaving, Alive, Leaving
  <2>3. QED
    BY <2>1, <2>2
<1>4. QED
  BY <1>2, <1>3, AllStops

LEMMA RunStopStops ==
  ASSUME FreshInv, StopInv, Quiet, NEW c \in Callers, NEW k \in Call, RunStop(c, k), ~Stopping(c)
  PROVE  StopInv'
<1> USE DEF FreshInv
<1>1. ~mixed => \A d \in Callers : ~Busy(d)
  BY DEF RunStop, StopInv, Latched, Busy, Stopping, Quiet
<1>2. CASE call' = [call EXCEPT ![c] = [k EXCEPT !.step = "script", !.on = 0]]
           /\ UNCHANGED <<process, execution, tools>>
  <2>1. [k EXCEPT !.step = "script", !.on = 0].step = "script"
    BY DEF Call
  <2>2. call'[c].step = "script" /\ \A d \in Callers : d # c => call'[d] = call[d]
    BY <1>2, <2>1 DEF TypeOK
  <2>3. UNCHANGED <<stateDev, devProc, mixed>> /\ stopInvoked'
    BY DEF RunStop
  <2>4. ~mixed => OneStop' /\ Latched' /\ Covered'
    BY <1>1, <2>2, <2>3 DEF OneStop, Latched, Covered, Busy, Stopping
  <2>5. NothingForgotten'
    BY <1>2, <2>3 DEF StopInv, NothingForgotten, Alive, Leaving
  <2>6. LatchCovers'
    BY <2>2 DEF LatchCovers, Stopping
  <2>7. QED
    BY <2>3, <2>4, <2>5, <2>6 DEF StopInv
<1>3. CASE NothingToKill(c, k) \/ Terminate(c, k)
  BY <1>1, <1>3, KillStops DEF RunStop
<1>4. QED
  BY <1>2, <1>3 DEF RunStop

LEMMA EscalateStops ==
  ASSUME FreshInv, StopInv, NEW c \in Callers, Escalate(c)
  PROVE  StopInv'
<1> USE DEF FreshInv
<1>1. ~mixed => AllLeaving
  BY DEF Escalate, StopInv, Covered
<1>2. call[c] \in Call
  BY DEF TypeOK
<1>3. /\ call'[c].step \in {"starting", "idle"}
      /\ \A d \in Callers : d # c => call'[d] = call[d]
  BY <1>2, AfterType, IdleType DEF Escalate, TypeOK
<1>4. ~mixed => OneStop' /\ Latched'
  <2>1. UNCHANGED <<mixed, stopInvoked>> /\ Busy(c)
    BY DEF Escalate, Busy
  <2>2. ~mixed => OneStop'
    BY <1>3, <2>1 DEF StopInv, OneStop, Busy
  <2>3. ~mixed => Latched'
    BY <1>3, <2>1 DEF StopInv, Latched, Stopping
  <2>4. QED
    BY <2>2, <2>3
<1>5. ~mixed => AllLeaving'
  <2>1. CASE devProc = 0
    BY <1>1, <2>1 DEF Escalate, AllLeaving, Alive, Leaving
  <2>2. CASE devProc # 0
    <3>1. process' = Sent(devProc, "kill") /\ devProc \in Cycles
      BY <2>2, RefsType DEF Escalate, LastSignal
    <3>2. QED
      BY <1>1, <3>1, SentType, SMTT(30) DEF AllLeaving, Alive, Leaving
  <2>3. QED
    BY <2>1, <2>2
<1>6. mixed' = mixed
  BY DEF Escalate
<1>7. QED
  BY <1>4, <1>5, <1>6, AllStops

LEMMA ExitStops ==
  ASSUME FreshInv, StopInv, NEW p \in Cycles, Exit(p)
  PROVE  StopInv'
<1> USE DEF FreshInv
<1> DEFINE Awaited == \E c \in Callers : call[c].step = "term" /\ call[c].on = p
<1>1. UNCHANGED <<stateDev, stopInvoked, mixed>> /\ devProc' = IF devProc = p THEN 0 ELSE devProc
  BY DEF Exit
<1>2. \A c \in Callers : (Busy(c)' => Busy(c)) /\ (Stopping(c)' => Stopping(c))
  BY ExitEffect DEF Busy, Stopping
<1>3. ~mixed => OneStop' /\ Latched'
  BY <1>1, <1>2 DEF StopInv, OneStop, Latched
<1>4. AllLeaving => AllLeaving'
  BY ExitEffect DEF AllLeaving, Alive, Leaving
<1>5. CASE Awaited
  <2>1. ~mixed => AllLeaving
    BY <1>5 DEF StopInv, Covered
  <2>2. QED
    BY <1>1, <1>3, <1>4, <2>1, AllStops
<1>6. CASE ~Awaited
  <2>1. \A q \in Cycles : q # p => process'[q] = process[q] /\ execution'[q] = execution[q]
    BY <1>6, ExitEffect
  <2>2. \A c \in Callers : call'[c] = call[c] \/ (call[c].step = "waiting" /\ call'[c].step = "idle")
    BY <1>6, ExitEffect
  <2>3. ~mixed => Covered'
    <3>1. \A c \in Callers : call'[c].step \in {"term", "starting"} => call[c].step \in {"term", "starting"}
      BY <2>2
    <3>2. QED
      BY <1>4, <3>1 DEF StopInv, Covered
  <2>4. NothingForgotten'
    BY <1>1, <2>1, ExitEffect DEF StopInv, NothingForgotten, Alive, Leaving
  <2>5. LatchCovers'
    <3>1. (\A c \in Callers : ~Stopping(c)') => \A c \in Callers : ~Stopping(c)
      BY <2>2 DEF Stopping
    <3>2. QED
      BY <1>1, <1>4, <3>1 DEF StopInv, LatchCovers, AllLeaving
  <2>6. QED
    BY <1>1, <1>3, <2>3, <2>4, <2>5 DEF StopInv
<1>7. QED
  BY <1>5, <1>6

LEMMA SaysStoppingStops ==
  ASSUME FreshInv, StopInv, NEW p \in Cycles, SaysStopping(p)
  PROVE  StopInv'
<1>1. /\ \A q \in Cycles : q # p => process'[q] = process[q] /\ execution'[q] = execution[q]
      /\ process'[p].leaving # "no"
  BY SaysStoppingEffect DEF FreshInv
<1>2. AllLeaving => AllLeaving'
  BY <1>1, SaysStoppingEffect DEF AllLeaving, Alive, Leaving, FreshInv
<1>3. UNCHANGED <<stateDev, devProc, stopInvoked, mixed, call>>
  BY DEF SaysStopping
<1>4. ~mixed => OneStop' /\ Latched' /\ Covered'
  BY <1>2, <1>3 DEF StopInv, OneStop, Latched, Covered, Busy, Stopping
<1>5. NothingForgotten'
  BY <1>1, <1>3 DEF StopInv, NothingForgotten, Alive, Leaving
<1>6. LatchCovers'
  BY <1>2, <1>3 DEF StopInv, LatchCovers, AllLeaving, Stopping
<1>7. QED
  BY <1>3, <1>4, <1>5, <1>6 DEF StopInv

LEMMA StopStep == FreshInv /\ StopInv /\ [Next]_vars => StopInv'
<1> SUFFICES ASSUME FreshInv, StopInv, [Next]_vars PROVE StopInv'
  OBVIOUS
<1>1. ASSUME NEW c \in Callers, CallStep(c) PROVE StopInv'
  <2>0. call[c] \in Call
    BY DEF FreshInv, TypeOK
  <2>1. CASE Start(c)
    <3>1. CASE MayStart /\ RunDev(c, "start")
      <4>1. ~Stopping(c)
        BY <2>1 DEF Start, Free, Stopping
      <4>2. ~mixed => AllLeaving
        BY <3>1, MayStartLeaving
      <4>3. QED
        BY <2>1, <3>1, <4>1, <4>2, SpawnStops DEF Start, Quiet, Kinds
    <3>2. CASE Refuse(c)
      BY <2>1, <3>2, ReturnStops DEF Start, Free, Stopping, Refuse
    <3>3. QED
      BY <2>1, <3>1, <3>2 DEF Start
  <2>2. CASE StartAgain(c)
    <3>1. ~Stopping(c) /\ Busy(c)
      BY <2>2 DEF StartAgain, Stopping, Busy
    <3>2. \A d \in Callers : ~mixed /\ d # c => call[d].step # "starting"
      BY <3>1 DEF StopInv, OneStop, Busy
    <3>3. ~mixed => AllLeaving
      BY <2>2 DEF StartAgain, StopInv, Covered
    <3>4. QED
      BY <2>2, <3>1, <3>2, <3>3, ContinueStops DEF StartAgain
  <2>3. ASSUME NEW kind \in {"stop", "restart"}, Stop(c, kind) PROVE StopInv'
    <3> DEFINE k == [kind |-> kind, step |-> "idle", on |-> 0]
    <3>1. k \in Call
      BY ZeroType DEF Call, Kinds, Steps
    <3>2. Quiet /\ ~Stopping(c) /\ (StopAgain(c, kind) \/ RunStop(c, k))
      BY <2>3 DEF Stop, Free, Stopping
    <3> HIDE DEF k
    <3>3. QED
      BY <3>1, <3>2, StopAgainStops, RunStopStops
  <2>4. CASE Close(c)
    BY <2>3, <2>4 DEF Close
  <2>5. CASE ScriptEnds(c)
    <3>1. Busy(c) /\ Stopping(c)
      BY <2>5 DEF ScriptEnds, Busy, Stopping
    <3>2. ~mixed => \A d \in Callers : Busy(d) => d = c
      BY <3>1 DEF StopInv, OneStop
    <3>3. CASE mixed
      BY <2>5, <3>3 DEF ScriptEnds, StopInv, NothingForgotten, LatchCovers
    <3>4. CASE ~mixed
      <4>1. stopInvoked'
        BY <2>5, <3>1, <3>4 DEF ScriptEnds, StopInv, Latched
      <4>2. QED
        BY <2>0, <2>5, <3>2, <4>1, KillStops DEF ScriptEnds
    <3>5. QED
      BY <3>3, <3>4
  <2>6. CASE Escalate(c)
    BY <2>6, EscalateStops
  <2>7. CASE BeginApply(c)
    <3>1. \A d \in Callers : call'[d].step = call[d].step \/ (~Busy(d)' /\ ~Stopping(d))
      BY <2>7 DEF BeginApply, FreshInv, TypeOK, Free, Busy, Stopping
    <3>2. QED
      BY <2>7, <3>1, NothingStops DEF BeginApply
  <2>8. CASE ConfigRecorded(c)
    <3>1. \A d \in Callers : call'[d].step = call[d].step \/ (~Busy(d)' /\ ~Stopping(d))
      BY <2>8, ConfigRecordedEffect DEF ConfigRecorded, FreshInv, Reading, Busy, Stopping
    <3>2. \A p \in Cycles : execution'[p].state = execution[p].state
      BY <2>8, ConfigRecordedEffect DEF FreshInv
    <3>3. QED
      BY <2>8, <3>1, <3>2, NothingStops DEF ConfigRecorded
  <2>9. CASE ApplyFails(c)
    BY <2>9, ReturnStops DEF ApplyFails, Stopping
  <2>10. CASE StopForApply(c)
    BY <2>0, <2>10, StopAgainStops, RunStopStops DEF StopForApply, Stopping
  <2>11. QED
    BY <1>1, <2>1, <2>2, <2>3, <2>4, <2>5, <2>6, <2>7, <2>8, <2>9, <2>10 DEF CallStep
<1>2. ASSUME NEW p \in Cycles, ProcessStep(p) PROVE StopInv'
  <2> USE DEF FreshInv
  <2>1. CASE Exit(p)
    BY <2>1, ExitStops
  <2>2. CASE PipeCloses(p)
    <3>1. \A q \in Cycles : /\ process'[q].life = process[q].life
                            /\ process'[q].leaving = process[q].leaving
      BY <2>2 DEF PipeCloses, TypeOK, Process
    <3>2. QED
      BY <2>2, <3>1, NothingStops DEF PipeCloses
  <2>3. CASE ServiceReady(p)
    <3>1. \A q \in Cycles : execution'[q].state = execution[q].state
      BY <2>3, ServiceReadyEffect
    <3>2. QED
      BY <2>3, <3>1, NothingStops DEF ServiceReady
  <2>4. CASE Ready(p)
    <3>1. \A d \in Callers : call'[d].step = call[d].step \/ (~Busy(d)' /\ ~Stopping(d))
      BY <2>4, ReadyEffect DEF Busy, Stopping
    <3>2. QED
      BY <2>4, <3>1, NothingStops DEF Ready
  <2>5. CASE SaysStopping(p)
    BY <2>5, SaysStoppingStops
  <2>6. CASE OperationsLoaded(p)
    <3>1. \A q \in Cycles : execution'[q].state = execution[q].state
      BY <2>6, OperationsLoadedEffect
    <3>2. QED
      BY <2>6, <3>1, NothingStops DEF OperationsLoaded
  <2>7. QED
    BY <1>2, <2>1, <2>2, <2>3, <2>4, <2>5, <2>6 DEF ProcessStep
<1>3. CASE UNCHANGED vars
  BY <1>3, NothingStops DEF vars
<1>4. QED
  BY <1>1, <1>2, <1>3 DEF Next

THEOREM StopCorrect == Spec => []StopInv
<1>1. FreshInv /\ StopInv /\ [Next]_vars => StopInv'
  BY StopStep
<1>2. QED
  BY <1>1, StopInit, FreshCorrect, PTL DEF Spec

\* No process is forgotten: one that nobody told to stop is the one that
\* runStop would signal and that state.dev calls running, unless a process was
\* started while a stop was on its way.
THEOREM NothingForgottenCorrect == Spec => []NothingForgotten
<1>1. StopInv => NothingForgotten
  BY DEF StopInv
<1>2. QED
  BY <1>1, StopCorrect, PTL

\* close() may skip the teardown when the latch is set and no stop is on its way.
THEOREM LatchCoversCorrect == Spec => []LatchCovers
<1>1. StopInv => LatchCovers
  BY DEF StopInv
<1>2. QED
  BY <1>1, StopCorrect, PTL

-----------------------------------------------------------------------------
(***************************************************************************)
(* What a cycle has to itself.  While a cycle that began clean is the      *)
(* current one, nothing is alive, heard of or asked of any other, so that  *)
(* the flag, the tools and the stdin are used by its own process only.     *)
(***************************************************************************)
Alone ==
  /\ \A q \in Cycles : q # stateDev =>
       ~Alive(q) /\ ~process[q].pipe /\ execution[q].operations # "asked"
  /\ \A c \in Callers : Reading(c) => call[c].on = stateDev

OwnParts ==
  execution[stateDev].state = "running" =>
    /\ execution[stateDev].served => execution[stateDev].operations # "none"
    /\ execution[stateDev].operations = "loaded" => tools = stateDev
    /\ stdin = stateDev
    /\ ~execution[stateDev].served => ~operationsFetched

OwnInv == stateDev \in clean => Alone /\ OwnParts

LEMMA OwnInit == Init => OwnInv
  BY DEF Init, OwnInv

\* A step that leaves the cycles as they are, but for more of an end.
LEMMA OwnKept ==
  ASSUME FreshInv, OwnInv, UNCHANGED <<stateDev, clean>>,
         \A q \in Cycles : /\ process'[q].life = "alive" => Alive(q)
                           /\ process'[q].pipe => process[q].pipe
                           /\ execution'[q].operations = execution[q].operations
                           /\ execution'[q].served = execution[q].served
                           /\ execution'[q].state = "running" => execution[q].state = "running",
         \/ UNCHANGED <<tools, stdin>>
         \/ stateDev \in clean => execution'[stateDev].state # "running",
         operationsFetched' => operationsFetched,
         \A c \in Callers : Reading(c)' => call'[c].on = stateDev \/ (Reading(c) /\ call'[c] = call[c])
  PROVE  OwnInv'
<1> SUFFICES ASSUME stateDev \in clean PROVE Alone' /\ OwnParts'
  BY DEF OwnInv
<1>1. stateDev \in Cycles /\ Alone /\ OwnParts
  BY DEF OwnInv, FreshInv, TypeOK
<1>2. Alone'
  BY <1>1 DEF Alone, Alive
<1>3. OwnParts'
  BY <1>1 DEF OwnParts
<1>4. QED
  BY <1>2, <1>3

LEMMA OwnReturns ==
  ASSUME FreshInv, OwnInv, NEW c \in Callers, call' = [call EXCEPT ![c] = Idle],
         UNCHANGED <<process, execution, stateDev, stdin, tools, clean>>,
         operationsFetched' => operationsFetched
  PROVE  OwnInv'
<1>1. \A d \in Callers : Reading(d)' => Reading(d) /\ call'[d] = call[d]
  BY ReturnsEffect DEF FreshInv, Reading
<1>2. QED
  BY <1>1, OwnKept DEF Alive

LEMMA OwnSpawn ==
  ASSUME FreshInv, OwnInv, NEW c \in Callers, NEW kind \in Kinds, RunDev(c, kind)
  PROVE  OwnInv'
<1>1. CASE NewCycle /\ Spawned(c, kind)
  <2> SUFFICES ASSUME stateDev' \in clean' PROVE Alone' /\ OwnParts'
    BY DEF OwnInv
  <2>1. stateDev' = cycle + 1 /\ stdin' = cycle + 1 /\ operationsFetched' = FALSE
        /\ execution' = execution
    BY <1>1 DEF Spawned, NewCycle, FlagOfNewCycle
  <2>2. cycle + 1 \in Cycles /\ cycle + 1 > cycle /\ cycle + 1 \notin clean
    BY <1>1, SpawnedEffect, RefsType DEF FreshInv, Fresh
  <2>3. NothingLeft
    BY <1>1, <2>1, <2>2, Zenon DEF Spawned
  <2>4. Alone'
    <3>1. \A q \in Cycles : q # cycle + 1 => ~Alive(q)' /\ ~process'[q].pipe
      BY <1>1, <2>3, SpawnedEffect DEF FreshInv, NothingLeft, Alive
    <3>2. \A d \in Callers : ~Reading(d)'
      BY <1>1, <2>3, SpawnedEffect DEF FreshInv, NothingLeft, Reading
    <3>3. QED
      BY <2>1, <2>3, <3>1, <3>2 DEF Alone, NothingLeft
  <2>5. OwnParts'
    BY <2>1, <2>2 DEF OwnParts, FreshInv, Fresh
  <2>6. QED
    BY <2>4, <2>5
<1>2. CASE NewCycle /\ SpawnFails(c)
  BY <1>2, OwnReturns DEF NewCycle, SpawnFails, FlagOfNewCycle
<1>3. CASE Returns(c)
  BY <1>3, OwnReturns DEF Returns
<1>4. QED
  BY <1>1, <1>2, <1>3 DEF RunDev

LEMMA OwnContinue ==
  ASSUME FreshInv, OwnInv, NEW c \in Callers, NEW kind, Continue(c, kind)
  PROVE  OwnInv'
  BY OwnReturns, OwnSpawn DEF Continue, Refuse, Returns, Kinds

LEMMA OwnStopAgain ==
  ASSUME FreshInv, OwnInv, NEW c \in Callers, NEW kind, StopAgain(c, kind)
  PROVE  OwnInv'
<1>1. CASE Returns(c)
  BY <1>1, OwnReturns DEF Returns
<1>2. CASE Continue(c, kind)
  BY <1>2, OwnContinue
<1>3. QED
  BY <1>1, <1>2 DEF StopAgain

\* The end of a stop: state.dev no longer runs.
LEMMA OwnStopped ==
  ASSUME FreshInv, OwnInv, UNCHANGED <<stateDev, clean, operationsFetched>>,
         execution' = StateStopped(execution),
         \A q \in Cycles : process'[q].life = process[q].life /\ process'[q].pipe = process[q].pipe,
         \A d \in Callers : Reading(d)' => Reading(d) /\ call'[d] = call[d]
  PROVE  OwnInv'
<1>1. \A q \in Cycles : /\ execution'[q].operations = execution[q].operations
                        /\ execution'[q].served = execution[q].served
                        /\ execution'[q].state = "running" => execution[q].state = "running"
                        /\ q = stateDev => execution'[q].state # "running"
  BY StateStoppedType DEF FreshInv, TypeOK
<1>2. clean \subseteq Cycles
  BY DEF FreshInv, TypeOK
<1>3. QED
  BY <1>1, <1>2, OwnKept DEF Alive

LEMMA OwnKill ==
  ASSUME FreshInv, OwnInv, NEW c \in Callers, NEW k \in Call,
         NothingToKill(c, k) \/ Terminate(c, k),
         UNCHANGED <<stateDev, clean, operationsFetched, stdin>>
  PROVE  OwnInv'
<1>1. CASE NothingToKill(c, k)
  <2>1. \A d \in Callers : Reading(d)' => Reading(d) /\ call'[d] = call[d]
    BY <1>1, NothingToKillEffect DEF FreshInv, Reading
  <2>2. QED
    BY <1>1, <2>1, OwnStopped DEF NothingToKill
<1>2. CASE Terminate(c, k)
  <2>1. \A d \in Callers : Reading(d)' => Reading(d) /\ call'[d] = call[d]
    BY <1>2, TerminateEffect DEF FreshInv, Reading
  <2>2. process' = Sent(devProc, "term") /\ devProc \in Cycles /\ UNCHANGED <<execution, tools>>
    BY <1>2, TerminateEffect DEF FreshInv, Terminate
  <2>3. \A q \in Cycles : process'[q].life = process[q].life /\ process'[q].pipe = process[q].pipe
    BY <2>2, SentType DEF FreshInv
  <2>4. QED
    BY <2>1, <2>2, <2>3, OwnKept DEF Alive
<1>3. QED
  BY <1>1, <1>2

LEMMA OwnRunStop ==
  ASSUME FreshInv, OwnInv, NEW c \in Callers, NEW k \in Call, RunStop(c, k)
  PROVE  OwnInv'
<1>1. CASE call' = [call EXCEPT ![c] = [k EXCEPT !.step = "script", !.on = 0]]
           /\ UNCHANGED <<process, execution, tools>>
  <2>1. [k EXCEPT !.step = "script", !.on = 0].step = "script"
    BY DEF Call
  <2>2. call'[c].step = "script"
    BY <1>1, <2>1 DEF FreshInv, TypeOK
  <2>3. \A d \in Callers : Reading(d)' => Reading(d) /\ call'[d] = call[d]
    BY <2>2, RunStopEffect DEF FreshInv, Reading
  <2>4. UNCHANGED <<stateDev, clean, operationsFetched, stdin>>
    BY DEF RunStop
  <2>5. QED
    BY <1>1, <2>3, <2>4, OwnKept DEF Alive
<1>2. CASE NothingToKill(c, k) \/ Terminate(c, k)
  BY <1>2, OwnKill DEF RunStop
<1>3. QED
  BY <1>1, <1>2 DEF RunStop

LEMMA OwnEscalate ==
  ASSUME FreshInv, OwnInv, NEW c \in Callers, Escalate(c)
  PROVE  OwnInv'
<1>1. CASE devProc = 0
  BY <1>1, OwnReturns DEF Escalate
<1>2. CASE devProc # 0
  <2>1. /\ process' = Sent(devProc, "kill") /\ devProc \in Cycles
        /\ execution' = StateStopped(execution)
        /\ call' = [call EXCEPT ![c] = After(call[c])]
        /\ UNCHANGED <<stateDev, clean, operationsFetched>>
    BY <1>2, RefsType DEF Escalate, LastSignal, FreshInv
  <2>2. \A q \in Cycles : process'[q].life = process[q].life /\ process'[q].pipe = process[q].pipe
    BY <2>1, SentType DEF FreshInv
  <2>3. \A d \in Callers : Reading(d)' => Reading(d) /\ call'[d] = call[d]
    BY <2>1, AfterType DEF FreshInv, TypeOK, Reading
  <2>4. QED
    BY <2>1, <2>2, <2>3, OwnStopped
<1>3. QED
  BY <1>1, <1>2

LEMMA OwnConfig ==
  ASSUME FreshInv, OwnInv, NEW c \in Callers, ConfigRecorded(c)
  PROVE  OwnInv'
<1>1. UNCHANGED <<process, stateDev, clean, stdin, operationsFetched>> /\ tools' = call[c].on /\ Reading(c)
  BY DEF ConfigRecorded
<1> SUFFICES ASSUME stateDev \in clean PROVE Alone' /\ OwnParts'
  BY <1>1 DEF OwnInv
<1>2. stateDev \in Cycles /\ Alone /\ OwnParts
  BY DEF OwnInv, FreshInv, TypeOK
<1>3. Alone'
  BY <1>1, <1>2, ConfigRecordedEffect DEF FreshInv, Alone, Alive, Reading
<1>4. OwnParts'
  BY <1>1, <1>2, ConfigRecordedEffect DEF FreshInv, Alone, OwnParts
<1>5. QED
  BY <1>3, <1>4

LEMMA OwnProcess ==
  ASSUME FreshInv, OwnInv, NEW p \in Cycles, ProcessStep(p)
  PROVE  OwnInv'
<1> USE DEF FreshInv
<1>0. stateDev' = stateDev /\ clean' = clean
  BY DEF ProcessStep, Exit, PipeCloses, ServiceReady, Ready, SaysStopping, OperationsLoaded
<1> SUFFICES ASSUME stateDev \in clean PROVE Alone' /\ OwnParts'
  BY <1>0 DEF OwnInv
<1>1. stateDev \in Cycles /\ Alone /\ OwnParts
  BY DEF OwnInv, TypeOK
<1>2. CASE Exit(p)
  <2>1. p = stateDev
    BY <1>1, <1>2 DEF Exit, Alone
  <2>2. Alone'
    BY <1>0, <1>1, <1>2, <2>1, ExitEffect DEF Alone, Alive, Reading
  <2>3. OwnParts'
    BY <1>0, <1>2, <2>1, ExitEffect DEF OwnParts
  <2>4. QED
    BY <2>2, <2>3
<1>3. CASE PipeCloses(p)
  <2>1. \A q \in Cycles : /\ process'[q].life = process[q].life
                          /\ process'[q].pipe => process[q].pipe
    BY <1>3 DEF PipeCloses, TypeOK, Process
  <2>2. UNCHANGED <<execution, stdin, tools, operationsFetched, call>>
    BY <1>3 DEF PipeCloses
  <2>3. QED
    BY <1>0, <1>1, <2>1, <2>2 DEF Alone, OwnParts, Alive, Reading
<1>4. CASE ServiceReady(p)
  <2>1. p = stateDev /\ ~execution[p].served /\ UNCHANGED <<process, stdin, tools, call>>
    BY <1>1, <1>4 DEF ServiceReady, Alone
  <2>2. Alone'
    BY <1>0, <1>1, <1>4, <2>1, ServiceReadyEffect DEF Alone, Alive, Reading
  <2>3. OwnParts'
    BY <1>0, <1>1, <1>4, <2>1, ServiceReadyEffect DEF OwnParts
  <2>4. QED
    BY <2>2, <2>3
<1>5. CASE Ready(p)
  <2>1. UNCHANGED <<process, execution, stdin, tools, operationsFetched>>
    BY <1>5 DEF Ready
  <2>2. \A c \in Callers : Reading(c)' => call'[c].on = stateDev
    BY <1>1, <1>5, ReadyEffect DEF Alone, Reading
  <2>3. QED
    BY <1>0, <1>1, <2>1, <2>2 DEF Alone, OwnParts, Alive
<1>6. CASE SaysStopping(p)
  <2>1. p = stateDev /\ UNCHANGED <<stdin, tools, call, operationsFetched>>
    BY <1>1, <1>6 DEF SaysStopping, Alone
  <2>2. Alone'
    BY <1>0, <1>1, <1>6, <2>1, SaysStoppingEffect DEF Alone, Alive, Reading
  <2>3. OwnParts'
    BY <1>0, <1>6, <2>1, SaysStoppingEffect DEF OwnParts
  <2>4. QED
    BY <2>2, <2>3
<1>7. CASE OperationsLoaded(p)
  <2>1. p = stateDev /\ UNCHANGED <<process, stdin, call, operationsFetched>>
    BY <1>1, <1>7 DEF OperationsLoaded, Alone
  <2>2. Alone'
    BY <1>0, <1>1, <1>7, <2>1, OperationsLoadedEffect DEF Alone, Alive, Reading
  <2>3. OwnParts'
    BY <1>0, <1>1, <1>7, <2>1, OperationsLoadedEffect DEF OwnParts
  <2>4. QED
    BY <2>2, <2>3
<1>8. QED
  BY <1>2, <1>3, <1>4, <1>5, <1>6, <1>7 DEF ProcessStep

LEMMA OwnStep == FreshInv /\ OwnInv /\ [Next]_vars => OwnInv'
<1> SUFFICES ASSUME FreshInv, OwnInv, [Next]_vars PROVE OwnInv'
  OBVIOUS
<1>1. ASSUME NEW c \in Callers, CallStep(c) PROVE OwnInv'
  <2>0. call[c] \in Call
    BY DEF FreshInv, TypeOK
  <2>1. CASE Start(c)
    BY <2>1, OwnReturns, OwnSpawn DEF Start, Refuse, Returns, Kinds
  <2>2. CASE StartAgain(c)
    BY <2>2, OwnContinue DEF StartAgain
  <2>3. ASSUME NEW kind \in {"stop", "restart"}, Stop(c, kind) PROVE OwnInv'
    <3> DEFINE k == [kind |-> kind, step |-> "idle", on |-> 0]
    <3>1. k \in Call
      BY ZeroType DEF Call, Kinds, Steps
    <3>2. StopAgain(c, kind) \/ RunStop(c, k)
      BY <2>3 DEF Stop
    <3> HIDE DEF k
    <3>3. QED
      BY <3>1, <3>2, OwnStopAgain, OwnRunStop
  <2>4. CASE Close(c)
    BY <2>3, <2>4 DEF Close
  <2>5. CASE ScriptEnds(c)
    BY <2>0, <2>5, OwnKill DEF ScriptEnds
  <2>6. CASE Escalate(c)
    BY <2>6, OwnEscalate
  <2>7. CASE BeginApply(c)
    <3> DEFINE k == [kind |-> "apply", step |-> "reading", on |-> stateDev]
    <3>1. call' = [call EXCEPT ![c] = k] /\ k.on = stateDev
      BY <2>7 DEF BeginApply
    <3>2. \A d \in Callers : Reading(d)' => call'[d].on = stateDev \/ (Reading(d) /\ call'[d] = call[d])
      <4> HIDE DEF k
      <4>1. QED
        BY <3>1 DEF FreshInv, TypeOK, Reading
    <3>3. QED
      BY <2>7, <3>2, OwnKept DEF BeginApply, Alive
  <2>8. CASE ConfigRecorded(c)
    BY <2>8, OwnConfig
  <2>9. CASE ApplyFails(c)
    BY <2>9, OwnReturns DEF ApplyFails, Returns
  <2>10. CASE StopForApply(c)
    BY <2>0, <2>10, OwnStopAgain, OwnRunStop DEF StopForApply
  <2>11. QED
    BY <1>1, <2>1, <2>2, <2>3, <2>4, <2>5, <2>6, <2>7, <2>8, <2>9, <2>10 DEF CallStep
<1>2. CASE UNCHANGED vars
  <2>1. UNCHANGED <<process, execution, stateDev, stdin, tools, clean, operationsFetched, call>>
    BY <1>2 DEF vars
  <2>2. QED
    BY <2>1 DEF OwnInv, Alone, OwnParts, Alive, Reading
<1>3. QED
  BY <1>1, <1>2, OwnProcess DEF Next

\* A cycle that began with nothing left of others has its operations asked
\* for, its tools registered and its stdin reachable as long as it runs.
THEOREM OwnCycleCorrect == Spec => []OwnCycle
<1>1. FreshInv /\ OwnInv /\ [Next]_vars => OwnInv'
  BY OwnStep
<1>2. OwnInv => OwnCycle
  BY DEF OwnInv, OwnParts, OwnCycle
<1>3. QED
  BY <1>1, <1>2, OwnInit, FreshCorrect, PTL DEF Spec

=============================================================================
