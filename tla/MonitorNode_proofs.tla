------------------------- MODULE MonitorNode_proofs -------------------------
(***************************************************************************)
(* Proofs about the node.  The invariant Inv says, besides the types and   *)
(* what the runner guarantees (NodeOperations_proofs), what the tick may     *)
(* rely on in each of its phases (TickPlan) and how far the shutdown has   *)
(* come (MainPlan).  Only the tick ever starts a process; what the other   *)
(* tasks do at its awaits can only remove entries (OthersStep).            *)
(***************************************************************************)
EXTENDS MonitorNode, NodeOperations_proofs, FiniteSetTheorems

\* The tick's snapshots against _processes and _dead, phase by phase.
TickPlan ==
  /\ pc \in {"start", "spawn"} =>
       /\ todo \subseteq snapEnabled /\ todo \intersect dead = {}
       /\ Tracked \subseteq snapEnabled \union snapRunning
  /\ pc = "spawn" => cur \in snapEnabled \ (dead \union Tracked \union todo)
  /\ pc \in {"start", "spawn", "stop"} => (snapRunning \ snapEnabled) \intersect dead = {}
  /\ pc = "stop" =>
       /\ todo \subseteq snapRunning \ snapEnabled
       /\ Tracked \subseteq snapEnabled \union todo
       /\ stopping["tick"] # None => cur \in snapRunning \ snapEnabled
  /\ pc \in {"check", "read"} => Tracked \subseteq snapEnabled
  /\ pc = "read" => cur \notin dead /\ Settled(cur)

\* The tick is off once the shutdown has begun; stop_all leaves no entry.
MainPlan ==
  /\ main # "run" <=> pc = "off"
  /\ main = "stopall" => Tracked \subseteq stopTodo
  /\ main \in {"stopwss", "halted"} => Tracked = {}
  /\ main = "run" => AllHeld

OtherTypes ==
  /\ link \in LinkPhases /\ restartTodo \subseteq Devices
  /\ main \in MainPhases /\ stopTodo \subseteq Devices

Inv ==
  /\ RunnerInv /\ MachineTypeOK /\ HandlerTypeOK /\ OtherTypes
  /\ GivenUpStaysDown /\ TickPlan /\ MainPlan

-----------------------------------------------------------------------------
(***************************************************************************)
(* A step that leaves the runner alone keeps everything about it.          *)
(***************************************************************************)
LEMMA RunnerUnchanged ==
  ASSUME RunnerInv, UNCHANGED runnerVars
  PROVE  /\ RunnerInv' /\ (AllHeld => AllHeld') /\ Tracked' = Tracked
         /\ \A e \in Devices : Settled(e) => Settled(e)'
<1>1. processes' = processes /\ proc' = proc /\ stopping' = stopping
  BY DEF runnerVars
<1>. QED  BY <1>1 DEF RunnerInv, RunnerTypeOK, SingleOwner, Accounted, AllHeld, Alive,
              Referenced, Tracked, Settled, Exited

(***************************************************************************)
(* While the tick awaits, the other tasks and the operating system may     *)
(* remove entries and end processes, and the plan of the tick survives.    *)
(***************************************************************************)
LEMMA OthersStep ==
  ASSUME Inv, RunnerInv', Tracked' \subseteq Tracked,
         \A e \in Devices : Settled(e) => Settled(e)',
         stopping'["tick"] = stopping["tick"], UNCHANGED machineVars
  PROVE  MachineTypeOK' /\ GivenUpStaysDown' /\ TickPlan'
<1>1. /\ failures' = failures /\ dead' = dead /\ pc' = pc /\ snapEnabled' = snapEnabled
      /\ snapRunning' = snapRunning /\ todo' = todo /\ cur' = cur /\ url' = url
  BY DEF machineVars, failureVars, tickVars
<1>2. MachineTypeOK'
  BY <1>1 DEF Inv, MachineTypeOK
<1>3. GivenUpStaysDown'
  BY <1>1 DEF Inv, GivenUpStaysDown
<1>4. pc = "read" => cur \in Devices
  BY DEF Inv, MachineTypeOK
<1>5. pc = "read" => Settled(cur)'
  BY <1>1, <1>4 DEF Inv, TickPlan, Settled, Exited
<1>6. TickPlan'
  BY <1>1, <1>5 DEF Inv, TickPlan
<1>. QED  BY <1>2, <1>3, <1>6

-----------------------------------------------------------------------------
(***************************************************************************)
(* The failure counts: a count never passes MaxFailures + 1, because a     *)
(* device that was given up is neither started nor checked again.          *)
(***************************************************************************)
CountsOK ==
  /\ failures \in [Devices -> 0 .. MaxFailures + 1] /\ dead \subseteq Devices
  /\ \A d \in Devices : d \in dead <=> failures[d] > MaxFailures

\* A failure of a device not yet given up: at most this device is given up.
LEMMA RecordFailureKeeps ==
  ASSUME CountsOK, NEW d \in Devices \ dead, RecordFailure(d)
  PROVE  CountsOK' /\ dead' \subseteq dead \union {d}
<1>1. MaxFailures \in Nat
  BY StateMachineAssumption DEF StateMachineAssumption
<1>2. failures[d] \in 0 .. MaxFailures
  BY <1>1 DEF CountsOK
<1>. QED  BY <1>1, <1>2 DEF CountsOK, RecordFailure

(***************************************************************************)
(* Clearing the count of a device that was not given up changes no verdict. *)
(***************************************************************************)
LEMMA ClearFailuresKeeps ==
  ASSUME CountsOK, NEW d \in Devices \ dead, ClearFailures(d)
  PROVE  CountsOK' /\ dead' = dead
<1>1. MaxFailures \in Nat
  BY StateMachineAssumption DEF StateMachineAssumption
<1>. QED  BY <1>1 DEF CountsOK, ClearFailures

-----------------------------------------------------------------------------
(***************************************************************************)
(* The steps of the tick.  Each keeps the runner's invariant, the counts   *)
(* and the plan, and none of them turns the tick off.                      *)
(***************************************************************************)
TickKeeps ==
  /\ RunnerInv' /\ (AllHeld => AllHeld')
  /\ MachineTypeOK' /\ GivenUpStaysDown' /\ TickPlan'
  /\ pc' # "off" /\ Tracked' \subseteq Tracked \union snapEnabled

(***************************************************************************)
(* Steps that leave the runner and the counts alone.                       *)
(***************************************************************************)
LEMMA PlanOnlyStep ==
  ASSUME Inv, UNCHANGED <<runnerVars, failureVars>>,
         MachineTypeOK', TickPlan', pc' # "off",
         ~ (pc' = "spawn" /\ cur' \in dead)
  PROVE  TickKeeps
<1>1. failures' = failures /\ dead' = dead
  BY DEF failureVars
<1>2. RunnerInv' /\ (AllHeld => AllHeld') /\ Tracked' = Tracked
  BY RunnerUnchanged DEF Inv
<1>3. GivenUpStaysDown'
  BY <1>1, <1>2 DEF Inv, GivenUpStaysDown
<1>. QED  BY <1>2, <1>3 DEF TickKeeps

\* The snapshot: nothing tracked or given up is to be started.
LEMMA BeginTickStep ==
  ASSUME Inv, BeginTick  PROVE TickKeeps
<1>1. /\ pc' = "start" /\ snapEnabled' = Enabled /\ snapRunning' = Tracked
      /\ todo' = Enabled \ (Tracked \union dead)
      /\ cur' = cur /\ url' = url /\ failures' = failures /\ dead' = dead
      /\ stopping' = stopping /\ Tracked' = Tracked
  BY RunnerUnchanged DEF BeginTick, ToStart, Inv, failureVars, runnerVars
<1>2. Enabled \subseteq Devices /\ Tracked \subseteq Devices
  BY DEF Inv, HandlerTypeOK, RegistryTypeOK, Enabled, ToSet, Tracked
<1>3. MachineTypeOK'
  BY <1>1, <1>2 DEF Inv, MachineTypeOK, Phases, BeginTick
<1>4. Tracked \intersect dead = {}
  BY DEF Inv, GivenUpStaysDown, MachineTypeOK
<1>5. TickPlan'
  BY <1>1, <1>4 DEF TickPlan
<1>. QED  BY <1>1, <1>3, <1>5, PlanOnlyStep DEF BeginTick

\* start_stream returns at once for a device that has a stream.
LEMMA StartSkipStep ==
  ASSUME Inv, NEW d \in todo, StartSkip(d)  PROVE TickKeeps
<1>1. /\ pc = "start" /\ pc' = "start" /\ todo' = todo \ {d}
      /\ snapEnabled' = snapEnabled /\ snapRunning' = snapRunning
      /\ cur' = cur /\ url' = url /\ failures' = failures /\ dead' = dead
      /\ stopping' = stopping /\ Tracked' = Tracked
  BY RunnerUnchanged DEF StartSkip, Goto, Inv, failureVars, runnerVars
<1>2. MachineTypeOK'
  BY <1>1 DEF Inv, MachineTypeOK
<1>3. TickPlan'
  BY <1>1 DEF Inv, TickPlan
<1>. QED  BY <1>1, <1>2, <1>3, PlanOnlyStep DEF StartSkip

\* The end of a tick, normal or by an exception of a capture driver.
LEMMA EndTickStep ==
  ASSUME Inv, EndTick, stopping["tick"] = None, UNCHANGED <<failureVars, runnerVars>>
  PROVE  TickKeeps
<1>1. /\ pc' = "sleep" /\ todo' = {} /\ snapEnabled' = {} /\ snapRunning' = {}
      /\ cur' = None /\ url' = 0 /\ failures' = failures /\ dead' = dead
      /\ stopping' = stopping
  BY DEF EndTick, failureVars, runnerVars
<1>2. MachineTypeOK'
  BY <1>1 DEF Inv, MachineTypeOK, Phases
<1>3. TickPlan'
  BY <1>1 DEF TickPlan
<1>. QED  BY <1>1, <1>2, <1>3, PlanOnlyStep

\* The spawn of a device that is enabled, untracked and not given up.
LEMMA StartSpawnStep ==
  ASSUME Inv, NEW d \in todo, StartSpawn(d)  PROVE TickKeeps
<1>1. /\ pc = "start" /\ pc' = "spawn" /\ todo' = todo \ {d} /\ d \notin Tracked
      /\ snapEnabled' = snapEnabled /\ snapRunning' = snapRunning
      /\ cur' = d /\ url' = ServerId(TypeOf[d], NameOf[d])
      /\ failures' = failures /\ dead' = dead
      /\ stopping' = stopping /\ Tracked' = Tracked
  BY RunnerUnchanged DEF StartSpawn, Goto, Inv, failureVars, runnerVars
<1>2. d \in Devices /\ TypeOf[d] \in Types
  BY DevicesAssumption DEF Inv, MachineTypeOK, DevicesAssumption
<1>3. url' \in Ids \union {0}
  BY <1>1, <1>2, ServerIdFacts DEF Inv, HandlerTypeOK
<1>4. MachineTypeOK'
  BY <1>1, <1>2, <1>3, NoneFacts DEF Inv, MachineTypeOK, Phases
<1>5. TickPlan'
  BY <1>1 DEF Inv, TickPlan
<1>6. d \notin dead
  BY <1>1 DEF Inv, TickPlan
<1>. QED  BY <1>1, <1>4, <1>5, <1>6, PlanOnlyStep DEF StartSpawn

\* From the start phase to the stop phase.
LEMMA StartDoneStep ==
  ASSUME Inv, StartDone  PROVE TickKeeps
<1>1. /\ pc = "start" /\ pc' = "stop" /\ todo = {} /\ todo' = snapRunning \ snapEnabled
      /\ snapEnabled' = snapEnabled /\ snapRunning' = snapRunning
      /\ cur' = cur /\ url' = url /\ failures' = failures /\ dead' = dead
      /\ stopping' = stopping /\ Tracked' = Tracked
  BY RunnerUnchanged DEF StartDone, Goto, Inv, failureVars, runnerVars
<1>2. MachineTypeOK'
  BY <1>1 DEF Inv, MachineTypeOK, Phases
<1>3. stopping["tick"] = None
  BY <1>1 DEF Inv, MachineTypeOK
<1>4. TickPlan'
  BY <1>1, <1>3 DEF Inv, TickPlan
<1>. QED  BY <1>1, <1>2, <1>4, PlanOnlyStep DEF StartDone

\* What GivenUpStaysDown adds to the counts.
LEMMA CountsFacts ==
  ASSUME Inv
  PROVE  CountsOK /\ Tracked \intersect dead = {}
  BY DEF Inv, MachineTypeOK, GivenUpStaysDown, CountsOK, Tracked

\* GivenUpStaysDown outside a spawn.
LEMMA GivenUpFacts ==
  ASSUME CountsOK', Tracked' \intersect dead' = {}, pc' # "spawn"
  PROVE  GivenUpStaysDown'
  BY DEF CountsOK, GivenUpStaysDown

\* The spawn succeeds; nobody has stored a handle for the device meanwhile.
LEMMA SpawnOkStep ==
  ASSUME Inv, SpawnOk  PROVE TickKeeps
<1>1. /\ pc = "spawn" /\ pc' = "start" /\ todo' = todo /\ Spawn(cur, url)
      /\ snapEnabled' = snapEnabled /\ snapRunning' = snapRunning
      /\ cur' = None /\ url' = 0 /\ failures' = failures /\ dead' = dead
  BY DEF SpawnOk, Goto, failureVars
<1>2. /\ cur \in Devices /\ url \in Ids \union {0} /\ stopping["tick"] = None
      /\ cur \in snapEnabled /\ cur \notin dead /\ cur \notin Tracked /\ cur \notin todo
  BY <1>1, NoneFacts DEF Inv, MachineTypeOK, TickPlan
<1>3. processes[cur] = None
  BY <1>2 DEF Tracked
<1>4. /\ RunnerInv' /\ (AllHeld => AllHeld') /\ stopping' = stopping
      /\ Tracked' = Tracked \union {cur}
  BY <1>1, <1>2, <1>3, SpawnInv DEF Inv
<1>5. MachineTypeOK'
  BY <1>1, <1>2, <1>4 DEF Inv, MachineTypeOK, Phases
<1>6. TickPlan'
  BY <1>1, <1>2, <1>4 DEF Inv, TickPlan
<1>7. CountsOK' /\ Tracked' \intersect dead' = {}
  BY <1>1, <1>2, <1>4, CountsFacts DEF CountsOK
<1>8. GivenUpStaysDown'
  BY <1>1, <1>7, GivenUpFacts
<1>. QED  BY <1>1, <1>2, <1>4, <1>5, <1>6, <1>8 DEF TickKeeps

\* The spawn fails and is counted.
LEMMA SpawnFailsStep ==
  ASSUME Inv, SpawnFails  PROVE TickKeeps
<1>1. /\ pc = "spawn" /\ pc' = "start" /\ todo' = todo /\ RecordFailure(cur)
      /\ snapEnabled' = snapEnabled /\ snapRunning' = snapRunning
      /\ cur' = None /\ url' = 0 /\ stopping' = stopping
  BY DEF SpawnFails, Goto, runnerVars
<1>2. /\ cur \in Devices /\ stopping["tick"] = None
      /\ cur \in snapEnabled /\ cur \notin dead /\ cur \notin Tracked /\ cur \notin todo
  BY <1>1, NoneFacts DEF Inv, MachineTypeOK, TickPlan
<1>3. RunnerInv' /\ (AllHeld => AllHeld') /\ Tracked' = Tracked
  BY RunnerUnchanged DEF SpawnFails, Inv
<1>4. CountsOK' /\ dead' \subseteq dead \union {cur}
  BY <1>1, <1>2, CountsFacts, RecordFailureKeeps
<1>5. MachineTypeOK'
  BY <1>1, <1>2, <1>4 DEF Inv, MachineTypeOK, Phases, CountsOK
<1>6. TickPlan'
  BY <1>1, <1>2, <1>3, <1>4 DEF Inv, TickPlan
<1>7. GivenUpStaysDown'
  BY <1>1, <1>2, <1>3, <1>4, CountsFacts, GivenUpFacts
<1>. QED  BY <1>1, <1>3, <1>5, <1>6, <1>7 DEF TickKeeps

\* One device of to_stop; its count is cleared unless the call awaits.
LEMMA StopNextStep ==
  ASSUME Inv, NEW d \in todo, StopNext(d)  PROVE TickKeeps
<1>1. /\ pc = "stop" /\ pc' = "stop" /\ todo' = todo \ {d} /\ StopStream("tick", d)
      /\ snapEnabled' = snapEnabled /\ snapRunning' = snapRunning
      /\ stopping["tick"] = None /\ url' = url
  BY DEF StopNext, Goto
<1>2. d \in Devices /\ d \in snapRunning \ snapEnabled /\ d \notin dead /\ cur = None
  BY <1>1 DEF Inv, MachineTypeOK, TickPlan
<1>3. RunnerInv' /\ (AllHeld => AllHeld') /\ Tracked' = Tracked \ {d}
  BY <1>1, <1>2, StopStreamInv DEF Inv, Tasks
<1>4. IF stopping'["tick"] = None
        THEN ClearFailures(d) /\ cur' = cur
        ELSE cur' = d /\ failures' = failures /\ dead' = dead
  BY DEF StopNext, failureVars
<1>5. CountsOK' /\ dead' = dead
  BY <1>2, <1>4, CountsFacts, ClearFailuresKeeps DEF CountsOK
<1>6. MachineTypeOK'
  BY <1>1, <1>2, <1>4, <1>5, NoneFacts DEF Inv, MachineTypeOK, CountsOK
<1>7. TickPlan'
  BY <1>1, <1>2, <1>3, <1>4, <1>5 DEF Inv, TickPlan
<1>8. GivenUpStaysDown'
  BY <1>1, <1>3, <1>5, CountsFacts, GivenUpFacts
<1>. QED  BY <1>1, <1>3, <1>6, <1>7, <1>8 DEF TickKeeps

\* The awaited process has exited.
LEMMA StopAwaitedStep ==
  ASSUME Inv, StopAwaited  PROVE TickKeeps
<1>1. /\ pc = "stop" /\ pc' = "stop" /\ todo' = todo /\ StopReturns("tick")
      /\ snapEnabled' = snapEnabled /\ snapRunning' = snapRunning
      /\ stopping["tick"] # None /\ url' = url /\ ClearFailures(cur) /\ cur' = None
  BY DEF StopAwaited, Goto, StopReturns
<1>2. cur \in Devices /\ cur \in snapRunning \ snapEnabled /\ cur \notin dead
  BY <1>1 DEF Inv, MachineTypeOK, TickPlan
<1>3. /\ RunnerInv' /\ (AllHeld => AllHeld') /\ Tracked' = Tracked
      /\ stopping'["tick"] = None
  BY <1>1, StopReturnsInv DEF Inv, Tasks
<1>5. CountsOK' /\ dead' = dead
  BY <1>1, <1>2, CountsFacts, ClearFailuresKeeps
<1>6. MachineTypeOK'
  BY <1>1, <1>2, <1>3, <1>5 DEF Inv, MachineTypeOK, CountsOK
<1>7. TickPlan'
  BY <1>1, <1>3, <1>5 DEF Inv, TickPlan
<1>8. GivenUpStaysDown'
  BY <1>1, <1>3, <1>5, CountsFacts, GivenUpFacts
<1>. QED  BY <1>1, <1>3, <1>6, <1>7, <1>8 DEF TickKeeps

\* From the stop phase to the crash check: what is tracked is enabled.
LEMMA StopDoneStep ==
  ASSUME Inv, StopDone  PROVE TickKeeps
<1>1. /\ pc = "stop" /\ pc' = "check" /\ todo = {} /\ todo' = snapEnabled \intersect snapRunning
      /\ snapEnabled' = snapEnabled /\ snapRunning' = snapRunning
      /\ cur' = cur /\ url' = url /\ failures' = failures /\ dead' = dead
      /\ stopping["tick"] = None /\ stopping' = stopping /\ Tracked' = Tracked
  BY RunnerUnchanged DEF StopDone, Goto, Inv, failureVars, runnerVars
<1>2. MachineTypeOK'
  BY <1>1 DEF Inv, MachineTypeOK, Phases
<1>3. TickPlan'
  BY <1>1 DEF Inv, TickPlan
<1>. QED  BY <1>1, <1>2, <1>3, PlanOnlyStep DEF StopDone

\* The crash check meets a device whose stream another task has stopped.
LEMMA CheckAbsentStep ==
  ASSUME Inv, NEW d \in todo, CheckAbsent(d)  PROVE TickKeeps
<1>1. /\ pc = "check" /\ pc' = "check" /\ todo' = todo \ {d}
      /\ snapEnabled' = snapEnabled /\ snapRunning' = snapRunning
      /\ cur' = cur /\ url' = url /\ failures' = failures /\ dead' = dead
      /\ stopping' = stopping /\ Tracked' = Tracked
  BY RunnerUnchanged DEF CheckAbsent, Goto, Inv, failureVars, runnerVars
<1>2. MachineTypeOK'
  BY <1>1 DEF Inv, MachineTypeOK, Phases
<1>3. TickPlan'
  BY <1>1 DEF Inv, TickPlan
<1>. QED  BY <1>1, <1>2, <1>3, PlanOnlyStep DEF CheckAbsent

\* The crash check meets a running process.
LEMMA CheckHealthyStep ==
  ASSUME Inv, NEW d \in todo, CheckHealthy(d)  PROVE TickKeeps
<1>1. /\ pc = "check" /\ pc' = "check" /\ todo' = todo \ {d} /\ d \in Tracked
      /\ snapEnabled' = snapEnabled /\ snapRunning' = snapRunning
      /\ cur' = cur /\ url' = url /\ ClearFailures(d)
      /\ stopping' = stopping
  BY DEF CheckHealthy, Goto, runnerVars
<1>2. d \in Devices /\ d \notin dead
  BY <1>1, CountsFacts DEF Tracked
<1>3. RunnerInv' /\ (AllHeld => AllHeld') /\ Tracked' = Tracked
  BY RunnerUnchanged DEF CheckHealthy, Inv
<1>4. CountsOK' /\ dead' = dead
  BY <1>1, <1>2, CountsFacts, ClearFailuresKeeps
<1>5. MachineTypeOK'
  BY <1>1, <1>4 DEF Inv, MachineTypeOK, CountsOK
<1>6. TickPlan'
  BY <1>1, <1>3 DEF Inv, TickPlan
<1>7. GivenUpStaysDown'
  BY <1>1, <1>3, <1>4, CountsFacts, GivenUpFacts
<1>. QED  BY <1>1, <1>3, <1>5, <1>6, <1>7 DEF TickKeeps

\* The crash check meets an exited process and awaits its stderr.
LEMMA CheckCrashedStep ==
  ASSUME Inv, NEW d \in todo, CheckCrashed(d)  PROVE TickKeeps
<1>1. /\ pc = "check" /\ pc' = "read" /\ todo' = todo \ {d} /\ d \in Tracked
      /\ snapEnabled' = snapEnabled /\ snapRunning' = snapRunning
      /\ cur' = d /\ url' = url /\ failures' = failures /\ dead' = dead
      /\ processes' = processes /\ proc' = proc /\ stopping' = stopping
      /\ Tracked' = Tracked /\ Exited(processes[d])
  BY RunnerUnchanged DEF CheckCrashed, Goto, Inv, failureVars, runnerVars
<1>2. d \in Devices /\ d \notin dead
  BY <1>1, CountsFacts DEF Tracked
<1>3. MachineTypeOK'
  BY <1>1, <1>2, NoneFacts DEF Inv, MachineTypeOK, Phases
<1>4. Settled(cur)'
  BY <1>1 DEF Settled, Exited
<1>5. TickPlan'
  BY <1>1, <1>2, <1>4 DEF Inv, TickPlan
<1>. QED  BY <1>1, <1>3, <1>5, PlanOnlyStep DEF CheckCrashed

\* The pop of a settled entry is what stop_stream does with it.
LEMMA PopSettled ==
  ASSUME RunnerInv, NEW d \in Devices, Settled(d), Pop(d)
  PROVE  StopStream("tick", d) /\ stopping' = stopping
<1>1. CASE processes[d] = None
  <2>1. processes' = processes
    BY <1>1 DEF Pop, RunnerInv, RunnerTypeOK
  <2>. QED  BY <1>1, <2>1 DEF Pop, StopStream, StopAbsent, runnerVars
<1>2. CASE processes[d] # None
  BY <1>2 DEF Settled, Pop, StopStream, StopExited
<1>. QED  BY <1>1, <1>2

\* The entry is still settled after the await: no live process is popped.
LEMMA ReapStep ==
  ASSUME Inv, Reap  PROVE TickKeeps
<1>1. /\ pc = "read" /\ pc' = "check" /\ todo' = todo /\ Pop(cur) /\ RecordFailure(cur)
      /\ snapEnabled' = snapEnabled /\ snapRunning' = snapRunning
      /\ cur' = None /\ url' = url
  BY DEF Reap, Goto
<1>2. cur \in Devices /\ cur \notin dead /\ stopping["tick"] = None /\ Settled(cur)
  BY <1>1, NoneFacts DEF Inv, MachineTypeOK, TickPlan
<1>3. StopStream("tick", cur) /\ stopping' = stopping
  BY <1>1, <1>2, PopSettled DEF Inv
<1>4. RunnerInv' /\ (AllHeld => AllHeld') /\ Tracked' = Tracked \ {cur}
  BY <1>2, <1>3, StopStreamInv DEF Inv, Tasks
<1>5. CountsOK' /\ dead' \subseteq dead \union {cur}
  BY <1>1, <1>2, CountsFacts, RecordFailureKeeps
<1>6. MachineTypeOK'
  BY <1>1, <1>2, <1>3, <1>5 DEF Inv, MachineTypeOK, Phases, CountsOK
<1>7. TickPlan'
  BY <1>1, <1>4 DEF Inv, TickPlan
<1>8. GivenUpStaysDown'
  BY <1>1, <1>4, <1>5, CountsFacts, GivenUpFacts
<1>. QED  BY <1>1, <1>4, <1>6, <1>7, <1>8 DEF TickKeeps

\* All steps of the tick.
LEMMA TickStep ==
  ASSUME Inv, TickRuns \/ TickResumes  PROVE TickKeeps /\ pc # "off"
<1>1. CASE TickRuns
  <2>1. CASE \E d \in todo : StartSkip(d)
    BY <2>1, StartSkipStep DEF StartSkip
  <2>2. CASE \E d \in todo : StartRaises(d)
    <3>1. pc = "start" /\ EndTick /\ UNCHANGED <<failureVars, runnerVars>>
      BY <2>2 DEF StartRaises
    <3>2. stopping["tick"] = None
      BY <3>1 DEF Inv, MachineTypeOK
    <3>. QED  BY <3>1, <3>2, EndTickStep
  <2>3. CASE \E d \in todo : StartSpawn(d)
    BY <2>3, StartSpawnStep DEF StartSpawn
  <2>4. CASE \E d \in todo : StopNext(d)
    BY <2>4, StopNextStep DEF StopNext
  <2>5. CASE \E d \in todo : CheckAbsent(d)
    BY <2>5, CheckAbsentStep DEF CheckAbsent
  <2>6. CASE \E d \in todo : CheckHealthy(d)
    BY <2>6, CheckHealthyStep DEF CheckHealthy
  <2>7. CASE \E d \in todo : CheckCrashed(d)
    BY <2>7, CheckCrashedStep DEF CheckCrashed
  <2>8. CASE StartDone
    BY <2>8, StartDoneStep DEF StartDone
  <2>9. CASE StopDone
    BY <2>9, StopDoneStep DEF StopDone
  <2>10. CASE CheckDone
    <3>1. pc = "check" /\ EndTick /\ UNCHANGED <<failureVars, runnerVars>>
      BY <2>10 DEF CheckDone
    <3>2. stopping["tick"] = None
      BY <3>1 DEF Inv, MachineTypeOK
    <3>. QED  BY <3>1, <3>2, EndTickStep
  <2>. QED  BY <1>1, <2>1, <2>2, <2>3, <2>4, <2>5, <2>6, <2>7, <2>8, <2>9, <2>10
            DEF TickRuns
<1>2. CASE TickResumes
  <2>1. CASE BeginTick
    BY <2>1, BeginTickStep DEF BeginTick
  <2>2. CASE SpawnOk
    BY <2>2, SpawnOkStep DEF SpawnOk
  <2>3. CASE SpawnFails
    BY <2>3, SpawnFailsStep DEF SpawnFails
  <2>4. CASE StopAwaited
    BY <2>4, StopAwaitedStep DEF StopAwaited
  <2>5. CASE Reap
    BY <2>5, ReapStep DEF Reap
  <2>. QED  BY <1>2, <2>1, <2>2, <2>3, <2>4, <2>5 DEF TickResumes, SpawnReturns
<1>. QED  BY <1>1, <1>2

\* The tick leaves the registry, the maps and the other tasks alone.
LEMMA TickInvStep ==
  ASSUME Inv, TickRuns \/ TickResumes, UNCHANGED others
  PROVE  Inv'
<1>1. TickKeeps /\ pc # "off"
  BY TickStep
<1>2. /\ registry' = registry /\ serverMap' = serverMap /\ main' = main /\ link' = link
      /\ restartTodo' = restartTodo /\ stopTodo' = stopTodo
  BY DEF others, linkVars, mainVars
<1>3. HandlerTypeOK' /\ OtherTypes'
  BY <1>2 DEF Inv, HandlerTypeOK, RegistryTypeOK, MapsTypeOK, OtherTypes
<1>4. MainPlan'
  BY <1>1, <1>2 DEF Inv, MainPlan, TickKeeps
<1>. QED  BY <1>1, <1>3, <1>4 DEF Inv, TickKeeps

-----------------------------------------------------------------------------
(***************************************************************************)
(* The steps of the other tasks and of the operating system.               *)
(***************************************************************************)
LEMMA ForeignInvStep ==
  ASSUME Inv, RunnerInv', Tracked' \subseteq Tracked, AllHeld => AllHeld',
         \A e \in Devices : Settled(e) => Settled(e)',
         stopping'["tick"] = stopping["tick"],
         UNCHANGED <<machineVars, main, stopTodo>>, HandlerTypeOK', OtherTypes'
  PROVE  Inv'
<1>1. main' = main /\ stopTodo' = stopTodo /\ pc' = pc
  BY DEF machineVars, tickVars
<1>2. MainPlan'
  BY <1>1 DEF Inv, MainPlan
<1>. QED  BY <1>2, OthersStep DEF Inv

\* The registry and the maps do not change.
LEMMA SameHandler ==
  ASSUME Inv, UNCHANGED <<registry, serverMap>>  PROVE HandlerTypeOK'
  BY DEF Inv, HandlerTypeOK, RegistryTypeOK, MapsTypeOK

\* Authentication, commands, the ends of the callback, a lost connection.
LEMMA LinkInvStep ==
  ASSUME Inv, \/ AuthAck \/ AuthFails \/ AckBroken \/ Command
              \/ RestartBegin \/ RestartSkipped \/ RestartDone \/ LinkLost
  PROVE  Inv'
<1>1. /\ UNCHANGED runnerVars /\ UNCHANGED machineVars
      /\ main' = main /\ stopTodo' = stopTodo
  BY DEF AuthAck, AuthFails, AckBroken, Command, RestartBegin, RestartSkipped, RestartDone,
         LinkLost, mainVars
<1>2. OtherTypes'
  BY <1>1 DEF Inv, OtherTypes, LinkPhases, AuthAck, AuthFails, AckBroken, Command,
              RestartBegin, RestartSkipped, RestartDone, LinkLost, linkVars, Tracked
<1>3. HandlerTypeOK'
  <2>1. CASE AuthAck \/ AckBroken
    BY <2>1, MapsKeep DEF AuthAck, AckBroken, Inv, HandlerTypeOK, RegistryTypeOK
  <2>2. CASE AuthFails
    BY <2>2 DEF AuthFails, ClearServerMaps, NoMap, Inv, HandlerTypeOK, RegistryTypeOK, MapsTypeOK
  <2>3. CASE \E t \in Types, i \in Ids : EnableStream(t, i)
    BY <2>3, EnableKeeps DEF Inv
  <2>4. CASE \E t \in Types, i \in Ids : DisableStream(t, i)
    BY <2>4, DisableKeeps DEF Inv
  <2>5. CASE \E m \in MapChoices : DeviceMapMessage(m)
    BY <2>5, MapsKeep DEF DeviceMapMessage, Inv, HandlerTypeOK, RegistryTypeOK
  <2>6. CASE UNCHANGED <<registry, serverMap>>
    BY <2>6, SameHandler
  <2>. QED  BY <2>1, <2>2, <2>3, <2>4, <2>5, <2>6
            DEF Command, RejectCommand, RestartBegin, RestartSkipped, RestartDone, LinkLost
<1>4. /\ RunnerInv' /\ (AllHeld => AllHeld') /\ Tracked' = Tracked
      /\ \A e \in Devices : Settled(e) => Settled(e)'
  BY <1>1, RunnerUnchanged DEF Inv
<1>5. stopping' = stopping
  BY <1>1 DEF runnerVars
<1>. QED  BY <1>1, <1>2, <1>3, <1>4, <1>5, ForeignInvStep

\* The callback stops one stream.
LEMMA RestartNextStep ==
  ASSUME Inv, NEW d \in Devices, RestartNext(d)  PROVE Inv'
<1>1. /\ StopStream("wss", d) /\ stopping["wss"] = None /\ UNCHANGED machineVars
      /\ link' = link /\ main' = main /\ stopTodo' = stopTodo
      /\ restartTodo' = restartTodo \ {d} /\ UNCHANGED <<registry, serverMap>>
  BY DEF RestartNext, LinkBusy, mainVars
<1>2. /\ RunnerInv' /\ (AllHeld => AllHeld') /\ Tracked' \subseteq Tracked
      /\ \A e \in Devices : Settled(e) => Settled(e)'
      /\ stopping'["tick"] = stopping["tick"]
  BY <1>1, StopStreamInv DEF Inv, Tasks
<1>3. OtherTypes'
  BY <1>1 DEF Inv, OtherTypes
<1>. QED  BY <1>1, <1>2, <1>3, SameHandler, ForeignInvStep

\* Timers, returning stop_stream calls and exiting processes.
LEMMA RunnerEventStep ==
  ASSUME Inv,
         \/ \E t \in Tasks : StopTimerFires(t) \/ StopResumes(t)
         \/ \E p \in Procs : ProcessExits(p)
  PROVE  Inv'
<1>1. /\ UNCHANGED machineVars /\ UNCHANGED <<registry, serverMap>>
      /\ link' = link /\ restartTodo' = restartTodo /\ main' = main /\ stopTodo' = stopTodo
  BY DEF StopTimerFires, StopResumes, ProcessExits, linkVars, mainVars
<1>2. OtherTypes'
  BY <1>1 DEF Inv, OtherTypes
<1>3. /\ RunnerInv' /\ (AllHeld => AllHeld') /\ Tracked' = Tracked
      /\ \A e \in Devices : Settled(e) => Settled(e)'
      /\ stopping'["tick"] = stopping["tick"]
  <2>1. CASE \E t \in Tasks : StopTimerFires(t)
    BY <2>1, StopTimeoutInv DEF StopTimerFires, Inv
  <2>2. CASE \E t \in Tasks : StopResumes(t)
    BY <2>2, StopReturnsInv DEF StopResumes, Inv, Tasks
  <2>3. CASE \E p \in Procs : ProcessExits(p)
    BY <2>3, ProcExitsInv DEF ProcessExits, Inv
  <2>. QED  BY <2>1, <2>2, <2>3
<1>. QED  BY <1>1, <1>2, <1>3, SameHandler, ForeignInvStep

-----------------------------------------------------------------------------
(***************************************************************************)
(* The shutdown.                                                           *)
(***************************************************************************)
LEMMA ShutdownBeginStep ==
  ASSUME Inv, ShutdownBegin  PROVE Inv'
<1>1. /\ Abandon("tick") /\ pc' = "off" /\ snapEnabled' = {} /\ snapRunning' = {}
      /\ todo' = {} /\ cur' = None /\ url' = 0 /\ failures' = failures /\ dead' = dead
      /\ main = "run" /\ main' = "joining" /\ stopTodo' = stopTodo
      /\ link' = link /\ restartTodo' = restartTodo
      /\ UNCHANGED <<registry, serverMap>>
  BY DEF ShutdownBegin, CancelTick, failureVars, linkVars
<1>2. RunnerInv' /\ Tracked' = Tracked /\ stopping'["tick"] = None
  BY <1>1, AbandonInv DEF Inv, Tasks
<1>3. MachineTypeOK'
  BY <1>1, <1>2 DEF Inv, MachineTypeOK, Phases
<1>4. GivenUpStaysDown'
  BY <1>1, <1>2 DEF Inv, GivenUpStaysDown
<1>5. TickPlan'
  BY <1>1 DEF TickPlan
<1>6. MainPlan'
  BY <1>1 DEF MainPlan
<1>7. OtherTypes'
  BY <1>1 DEF Inv, OtherTypes, MainPhases
<1>. QED  BY <1>1, <1>2, <1>3, <1>4, <1>5, <1>6, <1>7, SameHandler DEF Inv

\* stop_all begins with what is tracked and ends with nothing tracked.
LEMMA StopAllBeginStep ==
  ASSUME Inv, StopAllBegin \/ StopAllDone  PROVE Inv'
<1>1. /\ UNCHANGED runnerVars /\ UNCHANGED machineVars /\ pc' = pc
      /\ link' = link /\ restartTodo' = restartTodo
      /\ UNCHANGED <<registry, serverMap>> /\ stopping' = stopping
  BY DEF StopAllBegin, StopAllDone, linkVars, machineVars, tickVars, runnerVars
<1>2. /\ RunnerInv' /\ Tracked' = Tracked
      /\ \A e \in Devices : Settled(e) => Settled(e)'
  BY <1>1, RunnerUnchanged DEF Inv
<1>3. MachineTypeOK' /\ GivenUpStaysDown' /\ TickPlan'
  BY <1>1, <1>2, OthersStep
<1>4. MainPlan'
  BY <1>1, <1>2 DEF Inv, MainPlan, StopAllBegin, StopAllDone, MainBusy
<1>5. OtherTypes'
  BY <1>1 DEF Inv, OtherTypes, MainPhases, StopAllBegin, StopAllDone, Tracked
<1>. QED  BY <1>1, <1>2, <1>3, <1>4, <1>5, SameHandler DEF Inv

\* stop_all stops one stream.
LEMMA StopAllNextStep ==
  ASSUME Inv, NEW d \in Devices, StopAllNext(d)  PROVE Inv'
<1>1. /\ StopStream("main", d) /\ main = "stopall" /\ stopping["main"] = None
      /\ UNCHANGED machineVars /\ pc' = pc
      /\ link' = link /\ main' = main /\ restartTodo' = restartTodo
      /\ stopTodo' = stopTodo \ {d} /\ UNCHANGED <<registry, serverMap>>
  BY DEF StopAllNext, MainBusy, linkVars, machineVars, tickVars
<1>2. /\ RunnerInv' /\ Tracked' = Tracked \ {d}
      /\ \A e \in Devices : Settled(e) => Settled(e)'
      /\ stopping'["tick"] = stopping["tick"]
  BY <1>1, StopStreamInv DEF Inv, Tasks
<1>3. MachineTypeOK' /\ GivenUpStaysDown' /\ TickPlan'
  BY <1>1, <1>2, OthersStep
<1>4. MainPlan'
  BY <1>1, <1>2 DEF Inv, MainPlan
<1>5. OtherTypes'
  BY <1>1 DEF Inv, OtherTypes
<1>. QED  BY <1>1, <1>2, <1>3, <1>4, <1>5, SameHandler DEF Inv

\* The WSS task is cancelled and the maps are cleared.
LEMMA WssStopStep ==
  ASSUME Inv, WssStop  PROVE Inv'
<1>1. /\ Abandon("wss") /\ main = "stopwss" /\ main' = "halted" /\ stopTodo' = stopTodo
      /\ link' = "off" /\ restartTodo' = {} /\ registry' = registry /\ serverMap' = NoMap
      /\ UNCHANGED machineVars /\ pc' = pc
  BY DEF WssStop, ClearServerMaps, machineVars, tickVars
<1>2. /\ RunnerInv' /\ Tracked' = Tracked /\ stopping'["tick"] = stopping["tick"]
      /\ \A e \in Devices : Settled(e) => Settled(e)'
  BY <1>1, AbandonInv DEF Inv, Tasks
<1>3. MachineTypeOK' /\ GivenUpStaysDown' /\ TickPlan'
  BY <1>1, <1>2, OthersStep
<1>4. MainPlan'
  BY <1>1, <1>2 DEF Inv, MainPlan
<1>5. OtherTypes'
  BY <1>1 DEF Inv, OtherTypes, MainPhases, LinkPhases
<1>6. HandlerTypeOK'
  BY <1>1 DEF Inv, HandlerTypeOK, RegistryTypeOK, MapsTypeOK, NoMap
<1>. QED  BY <1>2, <1>3, <1>4, <1>5, <1>6 DEF Inv

-----------------------------------------------------------------------------
(***************************************************************************)
(* The invariant.                                                          *)
(***************************************************************************)
LEMMA InvInit == Init => Inv
<1>. SUFFICES ASSUME Init PROVE Inv
  OBVIOUS
<1>1. RunnerInv /\ AllHeld /\ Tracked = {} /\ stopping["tick"] = None
  BY RunnerInitInv DEF Init, RunnerInit, Tasks
<1>2. HandlerTypeOK
  BY RegistryInitFacts, NoMapFacts DEF Init, HandlerTypeOK
<1>3. MachineTypeOK /\ GivenUpStaysDown /\ TickPlan
  BY <1>1, StateMachineAssumption
     DEF Init, MachineInit, MachineTypeOK, Phases, GivenUpStaysDown, TickPlan,
         StateMachineAssumption
<1>4. OtherTypes /\ MainPlan
  BY <1>1 DEF Init, MachineInit, OtherTypes, LinkPhases, MainPhases, MainPlan
<1>. QED  BY <1>1, <1>2, <1>3, <1>4 DEF Inv

\* One case for each action of Next.
LEMMA InvStep == Inv /\ [Next]_vars => Inv'
<1>. SUFFICES ASSUME Inv, [Next]_vars PROVE Inv'
  OBVIOUS
<1>1. CASE (TickRuns \/ TickResumes) /\ UNCHANGED others
  BY <1>1, TickInvStep
<1>2. CASE \E d \in Devices : RestartNext(d)
  BY <1>2, RestartNextStep
<1>3. CASE \E d \in Devices : StopAllNext(d)
  BY <1>3, StopAllNextStep
<1>4. CASE \/ AuthAck \/ AuthFails \/ AckBroken \/ Command
           \/ RestartBegin \/ RestartSkipped \/ RestartDone \/ LinkLost
  BY <1>4, LinkInvStep
<1>5. CASE ShutdownBegin
  BY <1>5, ShutdownBeginStep
<1>6. CASE StopAllBegin \/ StopAllDone
  BY <1>6, StopAllBeginStep
<1>7. CASE WssStop
  BY <1>7, WssStopStep
<1>8. CASE \/ \E t \in Tasks : StopTimerFires(t) \/ StopResumes(t)
           \/ \E p \in Procs : ProcessExits(p)
  BY <1>8, RunnerEventStep
<1>9. CASE UNCHANGED vars
  <2>1. /\ UNCHANGED runnerVars /\ UNCHANGED machineVars
        /\ main' = main /\ stopTodo' = stopTodo /\ link' = link /\ restartTodo' = restartTodo
        /\ UNCHANGED <<registry, serverMap>>
    BY <1>9 DEF vars, linkVars, mainVars
  <2>2. /\ RunnerInv' /\ (AllHeld => AllHeld') /\ Tracked' = Tracked
        /\ \A e \in Devices : Settled(e) => Settled(e)'
    BY <2>1, RunnerUnchanged DEF Inv
  <2>3. OtherTypes' /\ stopping' = stopping
    BY <2>1 DEF Inv, OtherTypes, runnerVars
  <2>. QED  BY <2>1, <2>2, <2>3, SameHandler, ForeignInvStep
<1>. QED  BY <1>1, <1>2, <1>3, <1>4, <1>5, <1>6, <1>7, <1>8, <1>9
          DEF Next, TaskRuns, TaskResumes, Halted

(***************************************************************************)
(* The invariant holds in every state of the node, for any devices, any    *)
(* maps, any limit of failures and any pool of handles that is big enough. *)
(***************************************************************************)
THEOREM InvHolds == Spec => []Inv
  BY InvInit, InvStep, PTL DEF Spec

(***************************************************************************)
(* Types: in particular a failure count never exceeds MaxFailures + 1.     *)
(***************************************************************************)
THEOREM TypeCorrect == Spec => []TypeOK
<1>1. Inv => TypeOK
  BY DEF Inv, RunnerInv, HandlerTypeOK, OtherTypes, TypeOK
<1>. QED  BY <1>1, InvHolds, PTL

(***************************************************************************)
(* Every handle has one owner: stop_stream, the reaping of crashed         *)
(* processes and the spawns never share one.                               *)
(***************************************************************************)
THEOREM SingleOwnerHolds == Spec => []SingleOwner
<1>1. Inv => SingleOwner
  BY DEF Inv, RunnerInv
<1>. QED  BY <1>1, InvHolds, PTL

(***************************************************************************)
(* No process is lost track of while the node runs, and at shutdown only   *)
(* one that has been sent SIGTERM.                                         *)
(***************************************************************************)
THEOREM NothingOrphanedHolds == Spec => []NothingOrphaned
<1>1. Inv => NothingOrphaned
  BY DEF Inv, RunnerInv, MainPlan, Accounted, AllHeld, NothingOrphaned
<1>. QED  BY <1>1, InvHolds, PTL

(***************************************************************************)
(* When stop_all is done every process has been told to end: no entry is   *)
(* left, a process in a stop_stream call is past SIGTERM, and so is one    *)
(* without an owner.                                                       *)
(***************************************************************************)
THEOREM ShutdownSignalsAllHolds == Spec => []ShutdownSignalsAll
<1>1. Inv => ShutdownSignalsAll
  <2>1. SUFFICES ASSUME Inv, main \in {"stopwss", "halted"},
                        NEW p \in Procs, proc[p].st = "live"
                 PROVE  FALSE
    BY DEF ShutdownSignalsAll
  <2>2. Referenced(p)
    BY <2>1 DEF Inv, RunnerInv, Accounted, Alive
  <2>3. \A d \in Devices : processes[d] # p
    BY <2>1, NoneFacts DEF Inv, MainPlan, Tracked
  <2>4. \A t \in Tasks : stopping[t] # p
    BY <2>1, NoneFacts DEF Inv, RunnerInv, SingleOwner
  <2>. QED  BY <2>2, <2>3, <2>4 DEF Referenced
<1>. QED  BY <1>1, InvHolds, PTL

(***************************************************************************)
(* A device that was given up is neither running nor being started.        *)
(***************************************************************************)
THEOREM GivenUpStaysDownHolds == Spec => []GivenUpStaysDown
<1>1. Inv => GivenUpStaysDown
  BY DEF Inv
<1>. QED  BY <1>1, InvHolds, PTL

(***************************************************************************)
(* A tick that runs to its end has stopped every stream of a device that   *)
(* was not enabled when it began.                                          *)
(***************************************************************************)
THEOREM TickReconcilesHolds == Spec => TickReconciles
<1>1. Inv /\ [Next]_vars => [CheckDone => Tracked' \subseteq snapEnabled]_vars
  <2>1. SUFFICES ASSUME Inv, CheckDone  PROVE Tracked' \subseteq snapEnabled
    OBVIOUS
  <2>2. Tracked' = Tracked
    BY <2>1, RunnerUnchanged DEF Inv, CheckDone, runnerVars
  <2>. QED  BY <2>1, <2>2 DEF CheckDone, Inv, TickPlan
<1>. QED  BY <1>1, InvHolds, PTL DEF Spec, TickReconciles

-----------------------------------------------------------------------------
(***************************************************************************)
(* The WSS task of the node implements LinkProtocol.  The maps are always  *)
(* made of what the Server sent, also after a malformed device_map, and    *)
(* the link is off exactly when the node has halted.                       *)
(***************************************************************************)
LinkInv == serverMap \in AnyMaps /\ (link = "off" <=> main = "halted")

\* Whatever a command does to the maps, they stay within AnyMaps.
LEMMA MapsStay ==
  ASSUME NEW m \in MapChoices, serverMap \in AnyMaps,
         SetServerMaps(m) \/ SetVideosOnly(m)
  PROVE  serverMap' \in AnyMaps
<1>. DEFINE K == {<<>>} \union {n[u] : n \in MapChoices, u \in Types}
<1>1. m \in [Types -> Seq(MapEntry)]
  BY MapsAssumption DEF MapsAssumption
<1>2. \A t \in Types : m[t] \in K
  OBVIOUS
<1>5. AnyMaps = [Types -> K]
  BY DEF AnyMaps
<1>. HIDE DEF K
<1>3. CASE SetServerMaps(m)
  BY <1>1, <1>2, <1>3, <1>5 DEF SetServerMaps
<1>4. CASE SetVideosOnly(m)
  BY <1>2, <1>4, <1>5 DEF SetVideosOnly
<1>. QED  BY <1>3, <1>4

\* One case for each action of Next, under the refinement mapping.
LEMMA LinkStep ==
  ASSUME LinkInv, [Next]_vars
  PROVE  LinkInv' /\ [Protocol!Next]_(Protocol!linkSpecVars)
<1>. USE DEF Protocol!Next, Protocol!linkSpecVars
<1>1. CASE UNCHANGED <<link, main, serverMap>>
  BY <1>1 DEF LinkInv
<1>2. CASE AuthAck
  <2>1. PICK m \in MapChoices : SetServerMaps(m)
    BY <1>2 DEF AuthAck
  <2>2. /\ link = "down" /\ link' = "acked" /\ main' = main
        /\ serverMap' \in MapChoices
    BY <1>2, <2>1 DEF AuthAck, mainVars, SetServerMaps
  <2>3. serverMap' \in AnyMaps
    BY <2>1, MapsStay DEF LinkInv
  <2>. QED  BY <2>2, <2>3 DEF LinkInv, Protocol!Acknowledge
<1>3. CASE AuthFails \/ AckBroken
  <2>1. serverMap' \in AnyMaps
    BY <1>3, MapsStay DEF AuthFails, AckBroken, ClearServerMaps, NoMap, AnyMaps, LinkInv
  <2>. QED  BY <1>3, <2>1 DEF AuthFails, AckBroken, linkVars, mainVars, LinkInv,
                Protocol!AttemptFails
<1>4. CASE Command
  <2>1. serverMap' \in AnyMaps
    BY <1>4, MapsStay DEF Command, EnableStream, DisableStream, RejectCommand,
                          DeviceMapMessage, LinkInv
  <2>2. link \in {"acked", "up"} /\ link' = link /\ main' = main
    BY <1>4 DEF Command, linkVars, mainVars
  <2>. QED  BY <2>1, <2>2 DEF LinkInv, Protocol!HandleMessage
<1>5. CASE RestartBegin
  BY <1>5 DEF RestartBegin, LinkInv, mainVars, Protocol!Callback
<1>6. CASE RestartDone \/ RestartSkipped
  BY <1>6 DEF RestartDone, RestartSkipped, LinkBusy, LinkInv, mainVars, Protocol!CallbackDone
<1>7. CASE LinkLost
  BY <1>7 DEF LinkLost, LinkInv, mainVars, Protocol!Lost
<1>8. CASE WssStop
  <2>1. serverMap' \in AnyMaps
    BY <1>8 DEF WssStop, ClearServerMaps, NoMap, AnyMaps
  <2>. QED  BY <1>8, <2>1 DEF WssStop, ClearServerMaps, LinkInv, Protocol!Stop
<1>9. CASE ShutdownBegin \/ StopAllBegin \/ StopAllDone \/ \E d \in Devices : StopAllNext(d)
  <2>1. link' = link /\ serverMap' = serverMap /\ main # "halted" /\ main' # "halted"
    BY <1>9 DEF ShutdownBegin, StopAllBegin, StopAllDone, StopAllNext, MainBusy, linkVars
  <2>. QED  BY <2>1 DEF LinkInv
<1>10. CASE \E d \in Devices : RestartNext(d)
  BY <1>1, <1>10 DEF RestartNext, mainVars
<1>11. CASE (TickRuns \/ TickResumes) /\ UNCHANGED others
  BY <1>1, <1>11 DEF others, linkVars, mainVars
<1>12. CASE \/ \E t \in Tasks : StopTimerFires(t) \/ StopResumes(t)
            \/ \E p \in Procs : ProcessExits(p)
  BY <1>1, <1>12 DEF StopTimerFires, StopResumes, ProcessExits, linkVars, mainVars
<1>13. CASE UNCHANGED vars
  BY <1>1, <1>13 DEF vars, linkVars, mainVars
<1>. QED  BY <1>2, <1>3, <1>4, <1>5, <1>6, <1>7, <1>8, <1>9, <1>10, <1>11, <1>12, <1>13
          DEF Next, TaskRuns, TaskResumes, Halted

(***************************************************************************)
(* What the node relies on and what WssClient provides are one protocol:   *)
(* commands come only between an acknowledgement and the loss of the       *)
(* connection, and not while the callback stops streams.                   *)
(***************************************************************************)
THEOREM NodeImplementsLink == Spec => ImplementsLink
<1>1. Init => LinkInv /\ Protocol!Init
  BY DEF Init, LinkInv, AnyMaps, NoMap, Protocol!Init
<1>2. LinkInv /\ [Next]_vars => LinkInv' /\ [Protocol!Next]_(Protocol!linkSpecVars)
  BY LinkStep
<1>. QED  BY <1>1, <1>2, PTL DEF Spec, ImplementsLink, Protocol!Spec

-----------------------------------------------------------------------------
(***************************************************************************)
(* The streams.  Every operation of the runner touches one process at      *)
(* most; what it does to that process is one step of StreamContract, or    *)
(* none.  That shutdown() returns only when nothing is live is             *)
(* ShutdownSignalsAll, that the tick no longer starts anything by then is  *)
(* MainPlan.                                                               *)
(***************************************************************************)
Live == {p \in Procs : proc[p].st = "live"}
Dying == {p \in Procs : proc[p].st \in {"termed", "killed"}}

Quiet == Live' = Live /\ Dying' = Dying
Starts == \E p \in Procs \ (Live \union Dying) : Live' = Live \union {p} /\ Dying' = Dying
Ended == \E p \in Live : Live' = Live \ {p} /\ Dying' = Dying \union {p}
Exits == \E p \in Live \union Dying : Live' = Live \ {p} /\ Dying' = Dying \ {p}

-----------------------------------------------------------------------------
\* What one process does to the two sets.
LEMMA OneProcess ==
  ASSUME NEW p \in Procs, \A q \in Procs : q # p => proc'[q] = proc[q]
  PROVE  /\ Live' = IF proc'[p].st = "live" THEN Live \union {p} ELSE Live \ {p}
         /\ Dying' = IF proc'[p].st \in {"termed", "killed"}
                       THEN Dying \union {p} ELSE Dying \ {p}
  BY DEF Live, Dying

\* The handle of a process that has exited goes back to the pool.
LEMMA FreedSets ==
  ASSUME RunnerTypeOK, NEW p \in Procs, Exited(p), proc' = [proc EXCEPT ![p] = NoProc]
  PROVE  Quiet
<1>1. proc'[p].st = "none" /\ \A q \in Procs : q # p => proc'[q] = proc[q]
  BY DEF RunnerTypeOK, NoProc
<1>2. p \notin Live /\ p \notin Dying
  BY DEF Exited, Live, Dying
<1>. QED  BY <1>1, <1>2, OneProcess DEF Quiet

LEMMA SpawnSets ==
  ASSUME RunnerInv, NEW d \in Devices, NEW u \in Ids \union {0}, Spawn(d, u)
  PROVE  Starts
<1>. DEFINE p == CHOOSE q \in Procs : proc[q] = NoProc
<1>1. p \in Procs /\ proc[p] = NoProc
  BY DEF Spawn
<1>2. proc'[p].st = "live" /\ \A q \in Procs : q # p => proc'[q] = proc[q]
  BY <1>1 DEF Spawn, RunnerInv, RunnerTypeOK
<1>3. p \notin Live /\ p \notin Dying
  BY <1>1 DEF Live, Dying, NoProc
<1>. HIDE DEF p
<1>4. Live' = Live \union {p} /\ Dying' = Dying
  BY <1>1, <1>2, <1>3, OneProcess
<1>. QED  BY <1>1, <1>3, <1>4 DEF Starts

LEMMA StopStreamSets ==
  ASSUME RunnerInv, NEW t \in Tasks, NEW d \in Devices, StopStream(t, d)
  PROVE  Quiet \/ Ended
<1>1. CASE StopAbsent(d)
  BY <1>1 DEF StopAbsent, runnerVars, Quiet, Live, Dying
<1>2. CASE StopExited(d)
  <2>1. processes[d] \in Procs
    BY <1>2 DEF StopExited, RunnerInv, RunnerTypeOK
  <2>. QED  BY <1>2, <2>1, FreedSets DEF StopExited, RunnerInv
<1>3. CASE StopAlive(t, d)
  <2>. DEFINE p == processes[d]
  <2>1. p \in Procs /\ proc[p].st = "live" /\ proc[p] \in ProcRecord
    BY <1>3, NoneFacts DEF StopAlive, RunnerInv, RunnerTypeOK, SingleOwner, Exited, NoProc
  <2>2. proc'[p].st = "termed" /\ \A q \in Procs : q # p => proc'[q] = proc[q]
    BY <1>3, <2>1 DEF StopAlive, RunnerInv, RunnerTypeOK, ProcRecord
  <2>3. p \in Live
    BY <2>1 DEF Live
  <2>. HIDE DEF p
  <2>4. Live' = Live \ {p} /\ Dying' = Dying \union {p}
    BY <2>1, <2>2, OneProcess
  <2>. QED  BY <2>3, <2>4 DEF Ended
<1>. QED  BY <1>1, <1>2, <1>3 DEF StopStream

LEMMA StopTimeoutSets ==
  ASSUME RunnerInv, NEW t \in Tasks, StopTimeout(t)
  PROVE  Quiet
<1>. DEFINE p == stopping[t]
<1>1. p \in Procs /\ proc[p].st = "termed" /\ proc[p] \in ProcRecord
  BY NoneFacts DEF StopTimeout, RunnerInv, RunnerTypeOK, NoProc
<1>2. proc'[p].st = "killed" /\ \A q \in Procs : q # p => proc'[q] = proc[q]
  BY <1>1 DEF StopTimeout, RunnerInv, RunnerTypeOK, ProcRecord
<1>3. p \in Dying /\ p \notin Live
  BY <1>1 DEF Dying, Live
<1>. HIDE DEF p
<1>. QED  BY <1>1, <1>2, <1>3, OneProcess DEF Quiet

LEMMA ReleaseSets ==
  ASSUME RunnerInv, NEW t \in Tasks, StopReturns(t) \/ Abandon(t)
  PROVE  Quiet
<1>1. CASE stopping[t] # None /\ Exited(stopping[t]) /\ proc' = [proc EXCEPT ![stopping[t]] = NoProc]
  <2>1. stopping[t] \in Procs
    BY <1>1 DEF RunnerInv, RunnerTypeOK
  <2>. QED  BY <1>1, <2>1, FreedSets DEF RunnerInv
<1>2. CASE proc' = proc
  BY <1>2 DEF Quiet, Live, Dying
<1>. QED  BY <1>1, <1>2 DEF StopReturns, Abandon, Exited

LEMMA ProcExitsSets ==
  ASSUME RunnerInv, NEW p \in Procs, ProcExits(p)
  PROVE  Exits
<1>1. p \in Live \union Dying /\ proc[p] \in ProcRecord
  BY DEF ProcExits, Alive, Live, Dying, RunnerInv, RunnerTypeOK, NoProc
<1>2. \A q \in Procs : q # p => proc'[q] = proc[q]
  BY DEF ProcExits, RunnerInv, RunnerTypeOK
<1>3. proc'[p].st \in {"exited", "silent", "none"}
  BY <1>1 DEF ProcExits, RunnerInv, RunnerTypeOK, ProcRecord, NoProc
<1>4. Live' = Live \ {p} /\ Dying' = Dying \ {p}
  BY <1>2, <1>3, OneProcess
<1>. QED  BY <1>1, <1>4 DEF Exits

LEMMA PopSets ==
  ASSUME RunnerInv, NEW d \in Devices, Pop(d)
  PROVE  Quiet
<1>1. CASE processes[d] # None /\ Exited(processes[d])
  <2>1. processes[d] \in Procs
    BY <1>1 DEF RunnerInv, RunnerTypeOK
  <2>. QED  BY <1>1, <2>1, FreedSets DEF Pop, RunnerInv
<1>2. CASE ~(processes[d] # None /\ Exited(processes[d]))
  BY <1>2 DEF Pop, Quiet, Live, Dying
<1>. QED  BY <1>1, <1>2

-----------------------------------------------------------------------------
\* A step that leaves the runner alone leaves the processes alone.
LEMMA RunnerQuiet == UNCHANGED runnerVars => Quiet
  BY DEF runnerVars, Quiet, Live, Dying

LEMMA TickSets ==
  ASSUME Inv, TickRuns \/ TickResumes
  PROVE  \/ Quiet \/ Ended
         \/ main = "run" /\ Starts
<1>1. CASE TickRuns
  <2>1. CASE \E d \in todo : StopNext(d)
    <3>1. PICK d \in todo : StopNext(d)
      BY <2>1
    <3>2. d \in Devices
      BY DEF Inv, MachineTypeOK
    <3>. QED  BY <3>1, <3>2, StopStreamSets DEF StopNext, Tasks, Inv
  <2>2. CASE ~ \E d \in todo : StopNext(d)
    <3>1. UNCHANGED runnerVars
      BY <1>1, <2>2 DEF TickRuns, StartSkip, StartRaises, StartSpawn, CheckAbsent,
         CheckHealthy, CheckCrashed, StartDone, StopDone, CheckDone
    <3>. QED  BY <3>1, RunnerQuiet
  <2>. QED  BY <2>1, <2>2
<1>2. CASE BeginTick \/ SpawnFails
  BY <1>2, RunnerQuiet DEF BeginTick, SpawnFails
<1>3. CASE SpawnOk
  <2>1. cur \in Devices /\ url \in Ids \union {0} /\ main = "run"
    BY <1>3, NoneFacts DEF SpawnOk, Inv, MachineTypeOK, MainPlan
  <2>. QED  BY <1>3, <2>1, SpawnSets DEF SpawnOk, Inv
<1>4. CASE StopAwaited
  BY <1>4, ReleaseSets DEF StopAwaited, Tasks, Inv
<1>5. CASE Reap
  <2>1. cur \in Devices
    BY <1>5, NoneFacts DEF Reap, Inv, MachineTypeOK
  <2>. QED  BY <1>5, <2>1, PopSets DEF Reap, Inv
<1>. QED  BY <1>1, <1>2, <1>3, <1>4, <1>5 DEF TickResumes, SpawnReturns

\* Nothing is live when no entry is left.
LEMMA NothingLive == Inv /\ Tracked = {} => Live = {}
<1>. SUFFICES ASSUME Inv, Tracked = {}, NEW p \in Procs, proc[p].st = "live"
              PROVE  FALSE
  BY DEF Live
<1>1. Referenced(p)
  BY DEF Inv, RunnerInv, Accounted, Alive
<1>2. \A d \in Devices : processes[d] # p
  BY NoneFacts DEF Tracked
<1>3. \A t \in Tasks : stopping[t] # p
  BY NoneFacts DEF Inv, RunnerInv, SingleOwner
<1>. QED  BY <1>1, <1>2, <1>3 DEF Referenced

-----------------------------------------------------------------------------
\* The three kinds of steps under the refinement mapping.
LEMMA MapsToStep ==
  ASSUME Streams' = Streams, \/ Quiet \/ Ended \/ Exits
                             \/ Streams = "run" /\ Starts
  PROVE  [Contract!Next]_(Contract!streamVars)
<1>. USE DEF Contract!Next, Contract!streamVars, Contract!StreamStep
<1>1. CASE Quiet
  BY <1>1 DEF Quiet, Live, Dying
<1>2. CASE Ended
  <2>1. PICK p \in Live : Live' = Live \ {p} /\ Dying' = Dying \union {p}
    BY <1>2 DEF Ended
  <2>2. p \in Procs /\ Contract!EndStream(p)
    BY <2>1 DEF Contract!EndStream, Live, Dying
  <2>. QED  BY <2>2
<1>3. CASE Exits
  <2>1. PICK p \in Live \union Dying : Live' = Live \ {p} /\ Dying' = Dying \ {p}
    BY <1>3 DEF Exits
  <2>2. p \in Procs /\ Contract!StreamExits(p)
    BY <2>1 DEF Contract!StreamExits, Live, Dying
  <2>. QED  BY <2>2
<1>4. CASE Streams = "run" /\ Starts
  <2>1. Contract!StartStream
    BY <1>4 DEF Starts, Contract!StartStream, Live, Dying
  <2>. QED  BY <2>1
<1>. QED  BY <1>1, <1>2, <1>3, <1>4

LEMMA StreamStepMaps ==
  ASSUME Inv, [Next]_vars
  PROVE  [Contract!Next]_(Contract!streamVars)
<1>1. CASE (TickRuns \/ TickResumes) /\ UNCHANGED others
  <2>1. main' = main
    BY <1>1 DEF others, mainVars
  <2>. QED  BY <1>1, <2>1, TickSets, MapsToStep DEF Streams
<1>2. CASE \E d \in Devices : RestartNext(d) \/ StopAllNext(d)
  <2>1. main' = main /\ (Quiet \/ Ended)
    BY <1>2, StopStreamSets DEF RestartNext, StopAllNext, mainVars, Inv, Tasks
  <2>. QED  BY <2>1, MapsToStep DEF Streams
<1>3. CASE \/ \E t \in Tasks : StopTimerFires(t) \/ StopResumes(t)
           \/ \E p \in Procs : ProcessExits(p)
  <2>1. main' = main /\ (Quiet \/ Exits)
    BY <1>3, StopTimeoutSets, ReleaseSets, ProcExitsSets
       DEF StopTimerFires, StopResumes, ProcessExits, mainVars, Inv
  <2>. QED  BY <2>1, MapsToStep DEF Streams
<1>4. CASE ShutdownBegin
  <2>1. Quiet
    BY <1>4, ReleaseSets DEF ShutdownBegin, CancelTick, Inv, Tasks
  <2>2. Streams = "run" /\ Streams' = "stopping"
    BY <1>4 DEF ShutdownBegin, Streams
  <2>. QED  BY <2>1, <2>2 DEF Quiet, Live, Dying, Contract!BeginStop, Contract!Next
<1>5. CASE StopAllDone
  <2>1. Live = {} /\ Quiet
    BY <1>5, NothingLive, RunnerQuiet DEF StopAllDone, MainBusy, Inv, MainPlan
  <2>2. Streams = "stopping" /\ Streams' = "stopped"
    BY <1>5 DEF StopAllDone, MainBusy, Streams
  <2>. QED  BY <2>1, <2>2 DEF Quiet, Live, Dying, Contract!FinishStop, Contract!Next
<1>6. CASE WssStop
  <2>1. Quiet /\ Streams' = Streams
    BY <1>6, ReleaseSets DEF WssStop, Inv, Tasks, Streams
  <2>. QED  BY <2>1, MapsToStep
<1>7. CASE \/ StopAllBegin \/ AuthAck \/ AuthFails \/ AckBroken \/ Command
           \/ RestartBegin \/ RestartSkipped \/ RestartDone \/ LinkLost \/ UNCHANGED vars
  <2>1. UNCHANGED runnerVars /\ Streams' = Streams
    BY <1>7 DEF StopAllBegin, AuthAck, AuthFails, AckBroken, Command, RestartBegin,
       RestartSkipped, RestartDone, LinkLost, vars, mainVars, Streams
  <2>. QED  BY <2>1, RunnerQuiet, MapsToStep
<1>. QED  BY <1>1, <1>2, <1>3, <1>4, <1>5, <1>6, <1>7 DEF Next, TaskRuns, TaskResumes, Halted

(***************************************************************************)
(* The node implements StreamContract, whatever the tasks do at their      *)
(* awaits: it starts no process once shutdown() has begun, and shutdown()  *)
(* does not return while one has not been told to end.                     *)
(***************************************************************************)
THEOREM NodeImplementsStreams == Spec => ImplementsStreams
<1>1. Init => Contract!Init
  BY DEF Init, RunnerInit, NoProc, Streams, Contract!Init
<1>2. Inv /\ [Next]_vars => [Contract!Next]_(Contract!streamVars)
  BY StreamStepMaps
<1>. QED  BY <1>1, <1>2, InvHolds, PTL DEF Spec, ImplementsStreams, Contract!Spec

-----------------------------------------------------------------------------
(***************************************************************************)
(* Spawns.  Every step but the success of a spawn brings nothing new: what *)
(* is alive was alive, for the same device, what is tracked was tracked,   *)
(* with the same URL, and no handle of an exited process is left behind.   *)
(***************************************************************************)
Freed == \A p \in Procs : Exited(p) => Referenced(p)

NothingNew ==
  /\ \A p \in Procs : Alive(p)' => Alive(p) /\ proc'[p].dev = proc[p].dev
  /\ \A d \in Tracked' : d \in Tracked /\ proc'[processes'[d]].url = proc[processes[d]].url
  /\ Freed => Freed'

LEMMA SameNew == UNCHANGED runnerVars => NothingNew
  BY DEF runnerVars, NothingNew, Alive, Tracked, Freed, Exited, Referenced

\* The handle of a process that has exited goes back to the pool.
LEMMA FreedNew ==
  ASSUME RunnerInv, NEW p \in Procs, Exited(p), proc' = [proc EXCEPT ![p] = NoProc],
         \A d \in Devices : processes'[d] # None =>
           processes'[d] = processes[d] /\ processes[d] # p,
         \A q \in Procs \ {p} : Referenced(q) => Referenced(q)'
  PROVE  NothingNew
<1>1. proc'[p] = NoProc /\ \A q \in Procs : q # p => proc'[q] = proc[q]
  BY DEF RunnerInv, RunnerTypeOK
<1>2. \A d \in Tracked' : d \in Tracked /\ processes'[d] = processes[d]
                          /\ processes[d] \in Procs \ {p}
  BY DEF Tracked, RunnerInv, RunnerTypeOK
<1>3. Freed => Freed'
  BY <1>1 DEF Freed, Exited, NoProc
<1>. QED  BY <1>1, <1>2, <1>3 DEF NothingNew, Alive, NoProc

\* A signal changes the status of a process and nothing else about it.
LEMMA SignalledNew ==
  ASSUME RunnerInv, NEW p \in Procs, Alive(p), NEW s \in Status,
         proc' = [proc EXCEPT ![p].st = s], s \in {"exited", "silent"} => Referenced(p),
         \A d \in Devices : processes'[d] # None => processes'[d] = processes[d],
         \A q \in Procs : Referenced(q) => Referenced(q)'
  PROVE  NothingNew
<1>1. proc[p] \in ProcRecord
  BY DEF Alive, RunnerInv, RunnerTypeOK, NoProc
<1>2. /\ proc'[p].dev = proc[p].dev /\ proc'[p].url = proc[p].url /\ proc'[p].st = s
      /\ \A q \in Procs : q # p => proc'[q] = proc[q]
  BY <1>1 DEF RunnerInv, RunnerTypeOK, ProcRecord
<1>3. \A d \in Tracked' : d \in Tracked /\ processes'[d] = processes[d]
                          /\ processes[d] \in Procs
  BY DEF Tracked, RunnerInv, RunnerTypeOK
<1>4. Freed => Freed'
  BY <1>2 DEF Freed, Exited
<1>. QED  BY <1>2, <1>3, <1>4 DEF NothingNew, Alive

LEMMA StopStreamNew ==
  ASSUME RunnerInv, NEW t \in Tasks, NEW d \in Devices, stopping[t] = None, StopStream(t, d)
  PROVE  NothingNew
<1>. DEFINE p == processes[d]
<1>1. CASE StopAbsent(d)
  BY <1>1, SameNew DEF StopAbsent
<1>2. \A e \in Devices : e # d /\ processes[e] # None => processes[e] # p
  BY DEF RunnerInv, SingleOwner
<1>3. CASE StopExited(d)
  <2>1. p \in Procs
    BY <1>3 DEF StopExited, RunnerInv, RunnerTypeOK
  <2>2. \A q \in Procs \ {p} : Referenced(q) => Referenced(q)'
    BY <1>3 DEF StopExited, RunnerInv, RunnerTypeOK, Referenced
  <2>. QED  BY <1>2, <1>3, <2>1, <2>2, FreedNew DEF StopExited, RunnerInv, RunnerTypeOK
<1>4. CASE StopAlive(t, d)
  <2>1. p \in Procs /\ Alive(p)
    BY <1>4 DEF StopAlive, RunnerInv, RunnerTypeOK, SingleOwner, Exited, Alive
  <2>2. \A q \in Procs : Referenced(q) => Referenced(q)'
    BY <1>4, NoneFacts DEF StopAlive, RunnerInv, RunnerTypeOK, Referenced
  <2>. QED  BY <1>4, <2>1, <2>2, SignalledNew DEF StopAlive, RunnerInv, RunnerTypeOK, Status
<1>. QED  BY <1>1, <1>3, <1>4 DEF StopStream

LEMMA StopTimeoutNew ==
  ASSUME RunnerInv, NEW t \in Tasks, StopTimeout(t)
  PROVE  NothingNew
<1>1. stopping[t] \in Procs /\ Alive(stopping[t])
  BY DEF StopTimeout, RunnerInv, RunnerTypeOK, Alive
<1>2. \A q \in Procs : Referenced(q) => Referenced(q)'
  BY DEF StopTimeout, Referenced
<1>. QED  BY <1>1, <1>2, SignalledNew DEF StopTimeout, Status

LEMMA ReleaseNew ==
  ASSUME RunnerInv, NEW t \in Tasks, StopReturns(t) \/ Abandon(t)
  PROVE  NothingNew
<1>1. CASE stopping[t] # None /\ Exited(stopping[t]) /\ proc' = [proc EXCEPT ![stopping[t]] = NoProc]
  <2>1. stopping[t] \in Procs /\ processes' = processes
    BY <1>1 DEF RunnerInv, RunnerTypeOK, StopReturns, Abandon
  <2>2. \A d \in Devices : processes[d] # None => processes[d] # stopping[t]
    BY DEF RunnerInv, SingleOwner
  <2>3. \A q \in Procs \ {stopping[t]} : Referenced(q) => Referenced(q)'
    BY DEF StopReturns, Abandon, RunnerInv, RunnerTypeOK, Referenced
  <2>. QED  BY <1>1, <2>1, <2>2, <2>3, FreedNew
<1>2. CASE ~(stopping[t] # None /\ Exited(stopping[t])) /\ proc' = proc /\ processes' = processes
  <2>1. \A q \in Procs : q # stopping[t] /\ Referenced(q) => Referenced(q)'
    BY DEF StopReturns, Abandon, RunnerInv, RunnerTypeOK, Referenced
  <2>2. \A q \in Procs : Exited(q) => q # stopping[t]
    BY <1>2, NoneFacts
  <2>3. Freed => Freed'
    BY <1>2, <2>1, <2>2 DEF Freed, Exited
  <2>. QED  BY <1>2, <2>3 DEF NothingNew, Alive, Tracked
<1>. QED  BY <1>1, <1>2 DEF StopReturns, Abandon, Exited

LEMMA ProcExitsNew ==
  ASSUME RunnerInv, NEW p \in Procs, ProcExits(p)
  PROVE  NothingNew
<1>1. CASE Referenced(p)
  <2>1. \A q \in Procs : Referenced(q) => Referenced(q)'
    BY DEF ProcExits, Referenced
  <2>. QED  BY <1>1, <2>1, SignalledNew DEF ProcExits, Status
<1>2. CASE ~Referenced(p)
  <2>1. proc'[p] = NoProc /\ \A q \in Procs : q # p => proc'[q] = proc[q]
    BY <1>2 DEF ProcExits, RunnerInv, RunnerTypeOK
  <2>2. \A d \in Tracked' : d \in Tracked /\ processes'[d] = processes[d]
                            /\ processes[d] \in Procs \ {p}
    BY <1>2 DEF ProcExits, Referenced, Tracked, RunnerInv, RunnerTypeOK
  <2>3. Freed => Freed'
    BY <2>1 DEF ProcExits, Freed, Exited, Referenced, NoProc
  <2>. QED  BY <2>1, <2>2, <2>3 DEF NothingNew, Alive, NoProc
<1>. QED  BY <1>1, <1>2

\* Every step of the node is a spawn that succeeds or brings nothing new.
LEMMA StepNew ==
  ASSUME Inv, [Next]_vars
  PROVE  (SpawnOk /\ UNCHANGED others) \/ NothingNew
<1>1. CASE TickRuns
  <2>1. CASE \E d \in todo : StopNext(d)
    BY <2>1, StopStreamNew DEF StopNext, Tasks, Inv, MachineTypeOK
  <2>2. CASE ~ \E d \in todo : StopNext(d)
    <3>1. UNCHANGED runnerVars
      BY <1>1, <2>2 DEF TickRuns, StartSkip, StartRaises, StartSpawn, CheckAbsent,
         CheckHealthy, CheckCrashed, StartDone, StopDone, CheckDone
    <3>. QED  BY <3>1, SameNew
  <2>. QED  BY <2>1, <2>2
<1>2. CASE BeginTick \/ SpawnFails
  BY <1>2, SameNew DEF BeginTick, SpawnFails
<1>3. CASE StopAwaited
  BY <1>3, ReleaseNew DEF StopAwaited, Tasks, Inv
<1>4. CASE Reap
  <2>1. cur \in Devices /\ Settled(cur) /\ stopping["tick"] = None
    BY <1>4, NoneFacts DEF Reap, Inv, MachineTypeOK, TickPlan
  <2>2. StopStream("tick", cur)
    BY <1>4, <2>1, PopSettled DEF Reap, Inv
  <2>. QED  BY <2>1, <2>2, StopStreamNew DEF Tasks, Inv
<1>5. CASE \E d \in Devices : RestartNext(d) \/ StopAllNext(d)
  BY <1>5, StopStreamNew DEF RestartNext, StopAllNext, LinkBusy, MainBusy, Inv, Tasks
<1>6. CASE \/ \E t \in Tasks : StopTimerFires(t) \/ StopResumes(t)
           \/ \E p \in Procs : ProcessExits(p)
  BY <1>6, StopTimeoutNew, ReleaseNew, ProcExitsNew
     DEF StopTimerFires, StopResumes, ProcessExits, Inv
<1>7. CASE ShutdownBegin \/ WssStop
  BY <1>7, ReleaseNew DEF ShutdownBegin, CancelTick, WssStop, Inv, Tasks
<1>8. CASE \/ StopAllBegin \/ StopAllDone \/ AuthAck \/ AuthFails \/ AckBroken \/ Command
           \/ RestartBegin \/ RestartSkipped \/ RestartDone \/ LinkLost \/ UNCHANGED vars
  BY <1>8, SameNew DEF StopAllBegin, StopAllDone, AuthAck, AuthFails, AckBroken, Command,
     RestartBegin, RestartSkipped, RestartDone, LinkLost, vars
<1>. QED  BY <1>1, <1>2, <1>3, <1>4, <1>5, <1>6, <1>7, <1>8
          DEF Next, TaskRuns, TaskResumes, TickResumes, SpawnReturns, Halted

\* What a spawn adds: one process, for a device without an entry.
LEMMA SpawnOkFacts ==
  ASSUME Inv, SpawnOk
  PROVE  /\ pc = "spawn" /\ cur \in Devices \ Tracked /\ Tracked' = Tracked \union {cur}
         /\ stopping' = stopping /\ main = "run"
         /\ proc'[processes'[cur]].url = url
         /\ \E p \in Procs :
              /\ proc'[p].dev = cur /\ ~Exited(p)'
              /\ \A q \in Procs : q # p => proc'[q] = proc[q]
         /\ \A d \in Tracked : proc'[processes'[d]].url = proc[processes[d]].url
         /\ Freed => Freed'
<1>1. pc = "spawn" /\ Spawn(cur, url)
  BY DEF SpawnOk
<1>2. /\ cur \in Devices /\ url \in Ids \union {0} /\ cur \notin Tracked /\ main = "run"
  BY <1>1, NoneFacts DEF Inv, MachineTypeOK, TickPlan, MainPlan
<1>3. processes[cur] = None
  BY <1>2 DEF Tracked
<1>4. stopping' = stopping /\ Tracked' = Tracked \union {cur}
  BY <1>1, <1>2, <1>3, SpawnInv DEF Inv
<1>5. PICK p \in Procs :
        /\ proc[p] = NoProc
        /\ proc' = [proc EXCEPT ![p] = [st |-> "live", dev |-> cur, url |-> url]]
        /\ processes' = [processes EXCEPT ![cur] = p]
  BY <1>1 DEF Spawn
<1>6. /\ proc'[p].dev = cur /\ proc'[p].url = url /\ proc'[p].st = "live"
      /\ processes'[cur] = p
      /\ \A q \in Procs : q # p => proc'[q] = proc[q]
      /\ \A d \in Devices : d # cur => processes'[d] = processes[d]
  BY <1>2, <1>5 DEF Inv, RunnerInv, RunnerTypeOK
<1>7. \A d \in Tracked : /\ d # cur /\ d \in Devices /\ processes[d] \in Procs
                         /\ processes[d] # p
  BY <1>2, <1>5, NoneFacts DEF Tracked, Inv, RunnerInv, RunnerTypeOK, SingleOwner, NoProc
<1>8. \A q \in Procs : Referenced(q) => Referenced(q)'
  BY <1>3, <1>4, <1>6, NoneFacts DEF Referenced
<1>9. Freed => Freed'
  BY <1>6, <1>8 DEF Freed, Exited
<1>. QED  BY <1>1, <1>2, <1>4, <1>6, <1>7, <1>9 DEF Exited

-----------------------------------------------------------------------------
(***************************************************************************)
(* How many processes a device can have, and how many handles are in use.  *)
(* Until the shutdown begins main awaits no process; the tick awaits none  *)
(* while it spawns.  So at a spawn only the callback can hold another      *)
(* process of the device, which has no entry of its own.                   *)
(***************************************************************************)
MainIdle == main = "run" => stopping["main"] = None

HandleInv == Inv /\ MainIdle /\ Freed /\ AtMostTwo

LEMMA MainIdleStep ==
  ASSUME Inv, MainIdle, [Next]_vars  PROVE MainIdle'
<1>. SUFFICES ASSUME main' = "run"  PROVE stopping'["main"] = None
  BY DEF MainIdle
<1>1. CASE TickRuns /\ UNCHANGED others
  <2>1. stopping["main"] = None
    BY <1>1 DEF MainIdle, others, mainVars
  <2>2. CASE \E d \in todo : StopNext(d)
    BY <2>1, <2>2, StopStreamInv DEF StopNext, Tasks, Inv, MachineTypeOK
  <2>3. CASE ~ \E d \in todo : StopNext(d)
    BY <1>1, <2>1, <2>3 DEF TickRuns, StartSkip, StartRaises, StartSpawn, CheckAbsent,
       CheckHealthy, CheckCrashed, StartDone, StopDone, CheckDone, runnerVars
  <2>. QED  BY <2>2, <2>3
<1>2. CASE TickResumes /\ UNCHANGED others
  <2>1. stopping["main"] = None
    BY <1>2 DEF MainIdle, others, mainVars
  <2>2. CASE StopAwaited
    BY <2>1, <2>2, StopReturnsInv DEF StopAwaited, Inv, Tasks
  <2>3. CASE ~StopAwaited
    BY <1>2, <2>1, <2>3 DEF TickResumes, SpawnReturns, BeginTick, SpawnOk, Spawn, SpawnFails,
       Reap, Pop, runnerVars
  <2>. QED  BY <2>2, <2>3
<1>3. CASE \E d \in Devices : RestartNext(d)
  BY <1>3, StopStreamInv DEF RestartNext, LinkBusy, MainIdle, mainVars, Inv, Tasks
<1>4. CASE \/ \E t \in Tasks : StopTimerFires(t) \/ StopResumes(t)
           \/ \E p \in Procs : ProcessExits(p)
  <2>1. stopping["main"] = None
    BY <1>4 DEF MainIdle, StopTimerFires, StopResumes, ProcessExits, mainVars
  <2>2. CASE \E t \in Tasks : StopResumes(t)
    BY <2>1, <2>2, StopReturnsInv DEF StopResumes, Inv, Tasks
  <2>3. CASE ~ \E t \in Tasks : StopResumes(t)
    BY <1>4, <2>1, <2>3 DEF StopTimerFires, ProcessExits, StopTimeout, ProcExits
  <2>. QED  BY <2>2, <2>3
<1>5. CASE \/ ShutdownBegin \/ StopAllBegin \/ StopAllDone \/ WssStop
           \/ \E d \in Devices : StopAllNext(d)
  BY <1>5 DEF ShutdownBegin, StopAllBegin, StopAllDone, WssStop, StopAllNext, MainBusy
<1>6. CASE \/ AuthAck \/ AuthFails \/ AckBroken \/ Command
           \/ RestartBegin \/ RestartSkipped \/ RestartDone \/ LinkLost \/ UNCHANGED vars
  BY <1>6 DEF AuthAck, AuthFails, AckBroken, Command, RestartBegin, RestartSkipped,
     RestartDone, LinkLost, vars, runnerVars, mainVars, MainIdle
<1>. QED  BY <1>1, <1>2, <1>3, <1>4, <1>5, <1>6 DEF Next, TaskRuns, TaskResumes, Halted

\* At a spawn, only the callback may still hold a process of the device.
LEMMA SpawnOwners ==
  ASSUME Inv, MainIdle, pc = "spawn"
  PROVE  /\ cur \in Devices /\ processes[cur] = None
         /\ \A p \in Procs : Referenced(p) =>
              p = stopping["wss"] \/ \E d \in Devices : processes[d] = p /\ proc[p].dev = d
         /\ AllHeld
<1>1. /\ cur \in Devices /\ cur \notin Tracked /\ stopping["tick"] = None
      /\ stopping["main"] = None /\ AllHeld
  BY NoneFacts DEF Inv, MachineTypeOK, TickPlan, MainPlan, MainIdle
<1>2. ASSUME NEW p \in Procs, Referenced(p)
      PROVE  p = stopping["wss"] \/ \E d \in Devices : processes[d] = p /\ proc[p].dev = d
  <2>1. CASE \E d \in Devices : processes[d] = p
    BY <2>1, NoneFacts DEF Inv, RunnerInv, SingleOwner
  <2>2. CASE \E t \in Tasks : stopping[t] = p
    BY <1>1, <2>2, NoneFacts DEF Tasks
  <2>. QED  BY <1>2, <2>1, <2>2 DEF Referenced
<1>. QED  BY <1>1, <1>2 DEF Tracked

\* A set within two elements.
LEMMA TwoElements ==
  ASSUME NEW S, NEW x, NEW y, S \subseteq {x, y}
  PROVE  Cardinality(S) <= 2
<1>1. IsFiniteSet({x}) /\ Cardinality({x}) = 1
  BY FS_Singleton
<1>2. {x, y} = {x} \union {y}
  OBVIOUS
<1>3. IsFiniteSet({x, y}) /\ Cardinality({x, y}) <= 2
  BY <1>1, <1>2, FS_AddElement
<1>4. S \in SUBSET {x, y}
  OBVIOUS
<1>5. Cardinality(S) <= Cardinality({x, y}) /\ IsFiniteSet(S)
  BY <1>3, <1>4, FS_Subset
<1>6. Cardinality(S) \in Nat /\ Cardinality({x, y}) \in Nat
  BY <1>3, <1>5, FS_CardinalityType
<1>. QED  BY <1>3, <1>5, <1>6

\* The processes of a device when a step adds none to it.
LEMMA FewerStreams ==
  ASSUME AtMostTwo, NEW d \in Devices, StreamsOf(d)' \subseteq StreamsOf(d)
  PROVE  Cardinality(StreamsOf(d)') <= 2
<1>1. IsFiniteSet(Procs)
  BY RunnerAssumption DEF RunnerAssumption
<1>2. StreamsOf(d) \in SUBSET Procs /\ StreamsOf(d)' \in SUBSET StreamsOf(d)
  BY DEF StreamsOf
<1>3. IsFiniteSet(StreamsOf(d))
  BY <1>1, <1>2, FS_Subset
<1>4. IsFiniteSet(StreamsOf(d)') /\ Cardinality(StreamsOf(d)') <= Cardinality(StreamsOf(d))
  BY <1>2, <1>3, FS_Subset
<1>5. Cardinality(StreamsOf(d)') \in Nat /\ Cardinality(StreamsOf(d)) \in Nat
  BY <1>3, <1>4, FS_CardinalityType
<1>. QED  BY <1>4, <1>5 DEF AtMostTwo

LEMMA AtMostTwoStep ==
  ASSUME HandleInv, [Next]_vars  PROVE AtMostTwo'
<1>. SUFFICES ASSUME NEW d \in Devices  PROVE Cardinality(StreamsOf(d)') <= 2
  BY DEF AtMostTwo
<1>1. CASE NothingNew
  <2>1. StreamsOf(d)' \subseteq StreamsOf(d)
    BY <1>1 DEF NothingNew, StreamsOf
  <2>. QED  BY <2>1, FewerStreams DEF HandleInv
<1>2. CASE SpawnOk
  <2>1. pc = "spawn"
    BY <1>2 DEF SpawnOk
  <2>2. PICK p \in Procs : proc'[p].dev = cur /\ \A q \in Procs : q # p => proc'[q] = proc[q]
    BY <1>2, SpawnOkFacts DEF HandleInv
  <2>3. CASE d # cur
    <3>1. StreamsOf(d)' \subseteq StreamsOf(d)
      BY <2>2, <2>3 DEF StreamsOf, Alive
    <3>. QED  BY <3>1, FewerStreams DEF HandleInv
  <2>4. CASE d = cur
    <3>1. StreamsOf(cur) \subseteq {stopping["wss"]}
      BY <2>1, SpawnOwners, NoneFacts DEF HandleInv, StreamsOf, AllHeld
    <3>2. StreamsOf(d)' \subseteq {stopping["wss"], p}
      BY <2>2, <2>4, <3>1 DEF StreamsOf, Alive
    <3>. QED  BY <3>2, TwoElements
  <2>. QED  BY <2>3, <2>4
<1>. QED  BY <1>1, <1>2, StepNew DEF HandleInv

LEMMA HandleInvHolds == Spec => []HandleInv
<1>1. Init => MainIdle /\ Freed /\ AtMostTwo
  <2>1. ASSUME Init  PROVE MainIdle /\ Freed
    BY <2>1 DEF Init, RunnerInit, MainIdle, Freed, Exited, NoProc, Tasks
  <2>2. ASSUME Init, NEW d \in Devices  PROVE Cardinality(StreamsOf(d)) <= 2
    <3>1. StreamsOf(d) \subseteq {None, None}
      BY <2>2 DEF Init, RunnerInit, StreamsOf, Alive, NoProc
    <3>. QED  BY <3>1, TwoElements
  <2>. QED  BY <2>1, <2>2 DEF AtMostTwo
<1>2. HandleInv /\ [Next]_vars => MainIdle' /\ Freed' /\ AtMostTwo'
  <2>1. HandleInv /\ [Next]_vars => Freed'
    BY StepNew, SpawnOkFacts DEF HandleInv, NothingNew
  <2>. QED  BY <2>1, MainIdleStep, AtMostTwoStep DEF HandleInv
<1>. QED  BY <1>1, <1>2, InvInit, InvStep, PTL DEF Spec, HandleInv

(***************************************************************************)
(* No device ever has three processes, whatever ticks, restarts, timeouts  *)
(* and cancellations do.                                                   *)
(***************************************************************************)
THEOREM AtMostTwoHolds == Spec => []AtMostTwo
<1>1. HandleInv => AtMostTwo
  BY DEF HandleInv
<1>. QED  BY <1>1, HandleInvHolds, PTL

(***************************************************************************)
(* The pool of handles is never what a spawn waits for: one handle for     *)
(* each device and one more are enough, and RunnerAssumption has two more. *)
(***************************************************************************)
THEOREM SpawnFindsHandle ==
  Spec => [](pc = "spawn" => \E p \in Procs : proc[p] = NoProc)
<1>1. HandleInv => (pc = "spawn" => \E p \in Procs : proc[p] = NoProc)
  <2>. SUFFICES ASSUME HandleInv, pc = "spawn", \A p \in Procs : proc[p] # NoProc
                PROVE  FALSE
    OBVIOUS
  <2>. DEFINE Held == {h \in Procs \union {None} : \E d \in Devices : processes[d] = h}
  <2>1. Procs \subseteq Held \union {stopping["wss"]}
    <3>1. \A p \in Procs : Alive(p) \/ Exited(p)
      BY DEF HandleInv, Inv, RunnerInv, RunnerTypeOK, ProcRecord, Status, Alive, Exited
    <3>2. \A p \in Procs : Referenced(p)
      BY <3>1, SpawnOwners DEF HandleInv, AllHeld, Freed
    <3>. QED  BY <3>2, SpawnOwners DEF HandleInv
  <2>2. processes \in Surjection(Devices, Held)
    BY DEF HandleInv, Inv, RunnerInv, RunnerTypeOK, Surjection
  <2>. HIDE DEF Held
  <2>3. IsFiniteSet(Devices)
    BY DevicesAssumption DEF DevicesAssumption
  <2>4. IsFiniteSet(Held) /\ Cardinality(Held) <= Cardinality(Devices)
    BY <2>2, <2>3, FS_Surjection
  <2>5. /\ IsFiniteSet(Held \union {stopping["wss"]})
        /\ Cardinality(Held \union {stopping["wss"]}) <= Cardinality(Held) + 1
    <3>1. Cardinality(Held) \in Nat
      BY <2>4, FS_CardinalityType
    <3>. QED  BY <2>4, <3>1, FS_AddElement
  <2>6. IsFiniteSet(Procs) /\ Cardinality(Procs) <= Cardinality(Held \union {stopping["wss"]})
    BY <2>1, <2>5, FS_Subset
  <2>7. /\ Cardinality(Procs) \in Nat /\ Cardinality(Devices) \in Nat
        /\ Cardinality(Held) \in Nat /\ Cardinality(Held \union {stopping["wss"]}) \in Nat
    BY <2>3, <2>4, <2>5, <2>6, FS_CardinalityType
  <2>8. Cardinality(Procs) >= Cardinality(Devices) + 2
    BY RunnerAssumption DEF RunnerAssumption
  <2>. QED  BY <2>4, <2>5, <2>6, <2>7, <2>8
<1>. QED  BY <1>1, HandleInvHolds, PTL

-----------------------------------------------------------------------------
(***************************************************************************)
(* What the restart misses.  While the callback stops streams, the maps    *)
(* stay as they are (LinkProtocol), so a spawn that begins then has the    *)
(* right URL; besides the streams still to be stopped, the only stale one  *)
(* is that of the spawn under way when the callback began, before and      *)
(* after it returns.                                                       *)
(***************************************************************************)
Missed == {d \in Tracked \ restartTodo : Stale(d)}

UnderWay == {d \in Devices : pc = "spawn" /\ cur = d /\ url # ServerId(TypeOf[d], NameOf[d])}

StalePlan == link = "restart" => \A d, e \in Missed \union UnderWay : d = e

\* A spawn that begins now is not stale; no other step begins one.
LEMMA UnderWayStep ==
  ASSUME Inv, [Next]_vars, serverMap' = serverMap
  PROVE  UnderWay' \subseteq UnderWay
<1>1. \A d \in Devices : ServerId(TypeOf[d], NameOf[d])' = ServerId(TypeOf[d], NameOf[d])
  BY DEF ServerId, SelectInSeq
<1>2. CASE TickRuns
  <2>1. CASE \E d \in todo : StartSpawn(d)
    BY <1>1, <2>1 DEF StartSpawn, Goto, UnderWay
  <2>2. CASE ~ \E d \in todo : StartSpawn(d)
    BY <1>2, <2>2 DEF TickRuns, StartSkip, StartRaises, EndTick, StopNext, CheckAbsent,
       CheckHealthy, CheckCrashed, StartDone, StopDone, CheckDone, Goto, UnderWay
  <2>. QED  BY <2>1, <2>2
<1>3. CASE TickResumes
  BY <1>3 DEF TickResumes, SpawnReturns, BeginTick, SpawnOk, SpawnFails, StopAwaited, Reap,
              Goto, UnderWay
<1>4. CASE ShutdownBegin
  BY <1>4 DEF ShutdownBegin, CancelTick, UnderWay
<1>5. CASE UNCHANGED machineVars
  BY <1>1, <1>5 DEF machineVars, tickVars, UnderWay
<1>6. CASE \/ \E d \in Devices : RestartNext(d) \/ StopAllNext(d)
           \/ \E t \in Tasks : StopTimerFires(t) \/ StopResumes(t)
           \/ \E p \in Procs : ProcessExits(p)
           \/ StopAllBegin \/ StopAllDone \/ WssStop
           \/ AuthAck \/ AuthFails \/ AckBroken \/ Command
           \/ RestartBegin \/ RestartSkipped \/ RestartDone \/ LinkLost \/ UNCHANGED vars
  BY <1>5, <1>6 DEF RestartNext, StopAllNext, StopTimerFires, StopResumes, ProcessExits,
     StopAllBegin, StopAllDone, WssStop, AuthAck, AuthFails, AckBroken, Command,
     RestartBegin, RestartSkipped, RestartDone, LinkLost, vars
<1>. QED  BY <1>2, <1>3, <1>4, <1>6 DEF Next, TaskRuns, TaskResumes, Halted

\* While the callback runs, the streams it has still to stop only get fewer.
LEMMA RestartTodoStep ==
  ASSUME Inv, [Next]_vars, link' = "restart"
  PROVE  \/ RestartBegin
         \/ /\ link = "restart" /\ serverMap' = serverMap
            /\ restartTodo' = restartTodo \/ \E d \in Devices : RestartNext(d)
<1>1. CASE \/ TickRuns /\ UNCHANGED others
           \/ TickResumes /\ UNCHANGED others
           \/ \E d \in Devices : StopAllNext(d)
           \/ \E t \in Tasks : StopTimerFires(t) \/ StopResumes(t)
           \/ \E p \in Procs : ProcessExits(p)
           \/ ShutdownBegin \/ StopAllBegin \/ StopAllDone \/ UNCHANGED vars
  BY <1>1 DEF others, linkVars, StopAllNext, StopTimerFires, StopResumes, ProcessExits,
     ShutdownBegin, StopAllBegin, StopAllDone, vars
<1>2. CASE \E d \in Devices : RestartNext(d)
  BY <1>2 DEF RestartNext, LinkBusy
<1>3. CASE \/ AuthAck \/ AuthFails \/ AckBroken \/ Command \/ WssStop
           \/ RestartSkipped \/ RestartDone \/ LinkLost
  BY <1>3 DEF AuthAck, AuthFails, AckBroken, Command, WssStop, RestartSkipped, RestartDone,
     LinkLost, linkVars
<1>. QED  BY <1>1, <1>2, <1>3 DEF Next, TaskRuns, TaskResumes, Halted

LEMMA StalePlanStep ==
  ASSUME Inv, StalePlan, [Next]_vars  PROVE StalePlan'
<1>. SUFFICES ASSUME link' = "restart"
              PROVE  \A d, e \in Missed' \union UnderWay' : d = e
  BY DEF StalePlan
<1>1. CASE RestartBegin
  <2>1. Tracked' = Tracked /\ restartTodo' = Tracked
    BY <1>1 DEF RestartBegin, runnerVars, Tracked
  <2>. QED  BY <2>1 DEF Missed, UnderWay
<1>2. CASE /\ link = "restart" /\ serverMap' = serverMap
           /\ restartTodo' = restartTodo \/ \E d \in Devices : RestartNext(d)
  <2>1. \A d \in Devices : ServerId(TypeOf[d], NameOf[d])' = ServerId(TypeOf[d], NameOf[d])
    BY <1>2 DEF ServerId, SelectInSeq
  <2>2. UnderWay' \subseteq UnderWay
    BY <1>2, UnderWayStep
  <2>3. Missed' \subseteq Missed \union UnderWay
    <3>1. CASE SpawnOk /\ UNCHANGED others
      <4>1. restartTodo' = restartTodo
        BY <3>1 DEF others, linkVars
      <4>2. \A d \in Tracked' : Stale(d)' => (d \in Tracked /\ Stale(d)) \/ d \in UnderWay
        BY <2>1, <3>1, SpawnOkFacts DEF Stale, UnderWay, Tracked
      <4>. QED  BY <4>1, <4>2 DEF Missed
    <3>2. CASE NothingNew
      <4>1. \A d \in Tracked' : d \in Tracked /\ (Stale(d)' <=> Stale(d))
        BY <2>1, <3>2 DEF NothingNew, Stale, Tracked
      <4>2. Tracked' \ restartTodo' \subseteq Tracked \ restartTodo
        <5>1. CASE restartTodo' = restartTodo
          BY <4>1, <5>1
        <5>2. CASE \E d \in Devices : RestartNext(d)
          BY <5>2, StopStreamInv DEF RestartNext, LinkBusy, Inv, Tasks
        <5>. QED  BY <1>2, <5>1, <5>2
      <4>. QED  BY <4>1, <4>2 DEF Missed
    <3>. QED  BY <3>1, <3>2, StepNew
  <2>. QED  BY <1>2, <2>2, <2>3 DEF StalePlan
<1>. QED  BY <1>1, <1>2, RestartTodoStep

(***************************************************************************)
(* When the callback is done at most one stream has an old URL, for any    *)
(* number of devices and whatever happened while it waited.                *)
(***************************************************************************)
THEOREM RestartMissesOneHolds == Spec => RestartMissesOne
<1>1. Init => StalePlan
  BY DEF Init, StalePlan
<1>2. Inv /\ StalePlan /\ [Next]_vars => StalePlan'
  BY StalePlanStep
<1>3. Inv /\ StalePlan /\ [Next]_vars =>
        [RestartDone => \A d, e \in Tracked : Stale(d) /\ Stale(e) => d = e]_vars
  <2>1. SUFFICES ASSUME StalePlan, RestartDone
                 PROVE  \A d, e \in Tracked : Stale(d) /\ Stale(e) => d = e
    OBVIOUS
  <2>. QED  BY <2>1 DEF RestartDone, LinkBusy, StalePlan, Missed
<1>. QED  BY <1>1, <1>2, <1>3, InvHolds, PTL DEF Spec, RestartMissesOne
=============================================================================
