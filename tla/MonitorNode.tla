---------------------------- MODULE MonitorNode ----------------------------
(***************************************************************************)
(* The node as src/app.py assembles it: the reconciliation tick, the WSS   *)
(* task (here only as far as it touches the devices: authentication, the   *)
(* restart of the running streams, the Server's commands, a lost           *)
(* connection) and the main task, which at shutdown cancels the tick, then *)
(* stops every stream, then cancels the WSS task.                          *)
(*                                                                         *)
(* The three tasks share one event loop: a task runs until it awaits, and  *)
(* only then may another one (LoopFree).                                   *)
(***************************************************************************)
EXTENDS StreamStateMachine, CommandHandler

VARIABLES
  link,         \* where the WSS task is
  restartTodo,  \* streams _on_auth_restart_streams has still to stop
  main,         \* where the main task is
  stopTodo      \* streams stop_all has still to stop

linkVars == <<link, restartTodo>>
mainVars == <<main, stopTodo>>
vars == <<runnerVars, machineVars, registry, serverMap, linkVars, mainVars>>

LinkPhases == {"down", "acked", "restart", "up", "off"}
MainPhases == {"run", "joining", "stopall", "stopwss", "halted"}

LinkBusy == link = "restart" /\ stopping["wss"] = None
MainBusy == main = "stopall" /\ stopping["main"] = None
LoopFree == ~TickBusy /\ ~LinkBusy /\ ~MainBusy

Init ==
  /\ RunnerInit
  /\ MachineInit
  /\ RegistryInit
  /\ serverMap = NoMap
  /\ link = "down" /\ restartTodo = {}
  /\ main = "run" /\ stopTodo = {}

-----------------------------------------------------------------------------
(***************************************************************************)
(* The WSS task.  After the acknowledgement it hands the messages buffered *)
(* during authentication to the handler, then runs the callback: stop      *)
(* every stream that is running now, so that the tick starts it again with *)
(* the Server's id in its URL.  A connection lost later leaves the maps as *)
(* they are; a failed authentication clears them.                          *)
(***************************************************************************)
AuthAck ==
  /\ link = "down"
  /\ \E m \in MapChoices : SetServerMaps(m)
  /\ link' = "acked"
  /\ UNCHANGED <<restartTodo, registry, runnerVars, machineVars, mainVars>>

AuthFails ==
  /\ link = "down"
  /\ ClearServerMaps
  /\ UNCHANGED <<linkVars, registry, runnerVars, machineVars, mainVars>>

\* A malformed acknowledgement raises, and its maps, or the first, stay.
AckBroken ==
  /\ link = "down"
  /\ \E m \in MapChoices : SetServerMaps(m) \/ SetVideosOnly(m)
  /\ UNCHANGED <<linkVars, registry, runnerVars, machineVars, mainVars>>

\* Mutant of Command: messages are received while the callback runs.
CommandDuringRestart ==
  /\ link \in {"acked", "restart", "up"}
  /\ \/ \E t \in Types, i \in Ids : EnableStream(t, i) \/ DisableStream(t, i)
     \/ \E m \in MapChoices : DeviceMapMessage(m)
  /\ UNCHANGED <<linkVars, runnerVars, machineVars, mainVars>>

Command ==
  /\ link \in {"acked", "up"}
  /\ \/ \E t \in Types, i \in Ids :
          EnableStream(t, i) \/ DisableStream(t, i) \/ RejectCommand(t, i)
     \/ \E m \in MapChoices : DeviceMapMessage(m)
  /\ UNCHANGED <<linkVars, runnerVars, machineVars, mainVars>>

\* Mutant of RestartBegin: the streams that the last tick saw are stopped.
RestartTickView ==
  /\ link = "acked"
  /\ link' = "restart" /\ restartTodo' = snapRunning
  /\ UNCHANGED <<registry, serverMap, runnerVars, machineVars, mainVars>>

RestartBegin ==
  /\ link = "acked"
  /\ link' = "restart" /\ restartTodo' = Tracked
  /\ UNCHANGED <<registry, serverMap, runnerVars, machineVars, mainVars>>

\* A session token that is empty skips the callback.
RestartSkipped ==
  /\ link = "acked"
  /\ link' = "up"
  /\ UNCHANGED <<restartTodo, registry, serverMap, runnerVars, machineVars, mainVars>>

RestartNext(d) ==
  /\ LinkBusy /\ d \in restartTodo
  /\ StopStream("wss", d)
  /\ restartTodo' = restartTodo \ {d}
  /\ UNCHANGED <<link, registry, serverMap, machineVars, mainVars>>

RestartDone ==
  /\ LinkBusy /\ restartTodo = {}
  /\ link' = "up"
  /\ UNCHANGED <<restartTodo, registry, serverMap, runnerVars, machineVars, mainVars>>

LinkLost ==
  /\ link = "up"
  /\ link' = "down"
  /\ UNCHANGED <<restartTodo, registry, serverMap, runnerVars, machineVars, mainVars>>

-----------------------------------------------------------------------------
(***************************************************************************)
(* The main task: state_machine.shutdown(), that is stop() then            *)
(* stop_all(), then wss_client.stop().                                     *)
(***************************************************************************)
ShutdownBegin ==
  /\ main = "run"
  /\ main' = "joining"
  /\ CancelTick
  /\ UNCHANGED <<stopTodo, linkVars, registry, serverMap>>

StopAllBegin ==
  /\ main = "joining"
  /\ main' = "stopall" /\ stopTodo' = Tracked
  /\ UNCHANGED <<linkVars, registry, serverMap, runnerVars, machineVars>>

\* Mutant of StopAllNext: the loop ends after the first stream.
StopAllForgets(d) ==
  /\ MainBusy /\ d \in stopTodo
  /\ StopStream("main", d)
  /\ stopTodo' = {}
  /\ UNCHANGED <<main, linkVars, registry, serverMap, machineVars>>

StopAllNext(d) ==
  /\ MainBusy /\ d \in stopTodo
  /\ StopStream("main", d)
  /\ stopTodo' = stopTodo \ {d}
  /\ UNCHANGED <<main, linkVars, registry, serverMap, machineVars>>

StopAllDone ==
  /\ MainBusy /\ stopTodo = {}
  /\ main' = "stopwss"
  /\ UNCHANGED <<stopTodo, linkVars, registry, serverMap, runnerVars, machineVars>>

WssStop ==
  /\ main = "stopwss"
  /\ main' = "halted"
  /\ Abandon("wss")
  /\ link' = "off" /\ restartTodo' = {}
  /\ ClearServerMaps
  /\ UNCHANGED <<stopTodo, registry, machineVars>>

(***************************************************************************)
(* The program has ended, or stop_all waits for ever for a killed process: *)
(* nothing of it, or nothing of the main task, will change any more.       *)
(***************************************************************************)
Halted == (main = "halted" \/ Stuck("main")) /\ UNCHANGED vars

-----------------------------------------------------------------------------
\* A stop_stream timer fires; stop_stream returns to the callback or main.
StopTimerFires(t) ==
  /\ StopTimeout(t)
  /\ UNCHANGED <<machineVars, registry, serverMap, linkVars, mainVars>>

StopResumes(t) ==
  /\ t # "tick"
  /\ StopReturns(t)
  /\ UNCHANGED <<machineVars, registry, serverMap, linkVars, mainVars>>

ProcessExits(p) ==
  /\ ProcExits(p)
  /\ UNCHANGED <<machineVars, registry, serverMap, linkVars, mainVars>>

others == <<registry, serverMap, linkVars, mainVars>>

TaskRuns ==
  \/ TickRuns /\ UNCHANGED others
  \/ \E d \in Devices : RestartNext(d) \/ StopAllNext(d)
  \/ RestartDone \/ StopAllDone

TaskResumes ==
  \/ TickResumes /\ UNCHANGED others
  \/ AuthAck \/ AuthFails \/ AckBroken \/ Command
  \/ RestartBegin \/ RestartSkipped \/ LinkLost
  \/ ShutdownBegin \/ StopAllBegin \/ WssStop
  \/ \E t \in Tasks : StopTimerFires(t) \/ StopResumes(t)
  \/ \E p \in Procs : ProcessExits(p)

Next == TaskRuns \/ (LoopFree /\ TaskResumes) \/ Halted

Spec == Init /\ [][Next]_vars

-----------------------------------------------------------------------------
(***************************************************************************)
(* Fairness.  asyncio serves its ready queue in FIFO order, so a task that *)
(* is ready again and again, whenever the others leave the loop free, does *)
(* run: strong fairness per task.  A started spawn returns, timers fire,   *)
(* and the operating system ends a SIGKILLed process, which asyncio need   *)
(* not notice (FfmpegRunner).  Nothing is assumed of the Server, of the    *)
(* connection, of a process that is only SIGTERMed, nor that the node is   *)
(* ever shut down.                                                         *)
(***************************************************************************)
TickAwaits == LoopFree /\ TickResumes /\ UNCHANGED others
LinkAwaits == LoopFree /\ (RestartBegin \/ RestartSkipped \/ StopResumes("wss"))
MainAwaits == LoopFree /\ (StopAllBegin \/ WssStop \/ StopResumes("main"))
TimerFires(t) == LoopFree /\ StopTimerFires(t)
KillTakesEffect(p) == LoopFree /\ proc[p].st = "killed" /\ ProcessExits(p)

Fairness ==
  /\ WF_vars(TaskRuns)
  /\ SF_vars(TickAwaits) /\ SF_vars(LinkAwaits) /\ SF_vars(MainAwaits)
  /\ \A t \in Tasks : SF_vars(TimerFires(t))
  /\ \A p \in Procs : SF_vars(KillTakesEffect(p))

FairSpec == Spec /\ Fairness

-----------------------------------------------------------------------------
TypeOK ==
  /\ RunnerTypeOK /\ MachineTypeOK /\ RegistryTypeOK /\ MapsTypeOK
  /\ link \in LinkPhases /\ restartTodo \subseteq Devices
  /\ main \in MainPhases /\ stopTodo \subseteq Devices

(***************************************************************************)
(* While the node runs, every live ffmpeg process is in the hands of the   *)
(* runner: its entry in _processes or a stop_stream call that waits for    *)
(* its end.  Only the cancellations of the shutdown let go of one, and     *)
(* only of one that has been sent SIGTERM: pop, spawn and reap never       *)
(* forget a process (state_machine.py:139, ffmpeg_runner.py:120,132).      *)
(***************************************************************************)
NothingOrphaned ==
  \A p \in Procs : Alive(p) /\ ~Referenced(p) =>
    main # "run" /\ proc[p].st # "live"

(***************************************************************************)
(* Once shutdown() has returned, every ffmpeg process still alive has been *)
(* told to end: none was started, or added to _processes, behind the back  *)
(* of stop_all (state_machine.py:173-176).                                 *)
(***************************************************************************)
ShutdownSignalsAll ==
  main \in {"stopwss", "halted"} => \A p \in Procs : proc[p].st # "live"

(***************************************************************************)
(* A device that was given up has no entry and no spawn under way, and     *)
(* the failure counts say exactly which devices were given up: nothing     *)
(* clears the count of one (state_machine.py:103,165-167).                 *)
(***************************************************************************)
GivenUpStaysDown ==
  \A d \in Devices :
    /\ d \in dead <=> failures[d] > MaxFailures
    /\ d \in dead => d \notin Tracked /\ ~(pc = "spawn" /\ cur = d)

StreamsOf(d) == {p \in Procs : Alive(p) /\ proc[p].dev = d}

(***************************************************************************)
(* A restart may leave a device with two ffmpeg processes, one on its way  *)
(* out, but never with three, however ticks, restarts, timeouts and        *)
(* cancellations follow each other: the callback waits for each process,   *)
(* and so does the tick (ffmpeg_runner.py:132-141, app.py:302-310).        *)
(***************************************************************************)
AtMostTwo == \A d \in Devices : Cardinality(StreamsOf(d)) <= 2

Stale(d) == proc[processes[d]].url # ServerId(TypeOf[d], NameOf[d])

(***************************************************************************)
(* When the callback is done, at most one running stream has a URL other   *)
(* than the maps give now: that of the spawn that was under way when the   *)
(* callback took its list, whatever the tick started, stopped or reaped    *)
(* while the callback waited (app.py:299-310, ffmpeg_runner.py:100).       *)
(***************************************************************************)
RestartMissesOne ==
  [][RestartDone => \A d, e \in Tracked : Stale(d) /\ Stale(e) => d = e]_vars

(***************************************************************************)
(* A tick that runs to its end leaves no stream of a device that was not   *)
(* enabled when the tick began, whatever the other tasks did at its        *)
(* awaits (state_machine.py:113-117).                                      *)
(***************************************************************************)
TickReconciles == [][CheckDone => Tracked' \subseteq snapEnabled]_vars

(***************************************************************************)
(* The WSS task of this module behaves as LinkProtocol says, which         *)
(* WssClient implements in detail: commands come only between an           *)
(* acknowledgement and the loss of the connection, and nothing touches the *)
(* maps while the callback stops streams (wss_client.py:172-188,289-318).  *)
(***************************************************************************)
AnyMaps == [Types -> {<<>>} \union {m[t] : m \in MapChoices, t \in Types}]

Protocol == INSTANCE LinkProtocol
  WITH maps <- serverMap, AckMaps <- MapChoices, Maps <- AnyMaps, NoMaps <- NoMap

ImplementsLink == Protocol!Spec

(***************************************************************************)
(* Of its streams the node shows what StreamContract says: no process is   *)
(* started once shutdown() has begun, and it does not return before every  *)
(* process has been told to end (state_machine.py:83-92,173-176).          *)
(***************************************************************************)
Streams ==
  CASE main = "run" -> "run"
    [] main \in {"joining", "stopall"} -> "stopping"
    [] OTHER -> "stopped"

Contract == INSTANCE StreamContract
  WITH streams <- Streams,
       live <- {p \in Procs : proc[p].st = "live"},
       dying <- {p \in Procs : proc[p].st \in {"termed", "killed"}}

ImplementsStreams == Contract!Spec

-----------------------------------------------------------------------------
(***************************************************************************)
(* Liveness, under FairSpec.  The code has two ways never to get further,  *)
(* each a finding of its own: a wait() after kill() that nothing wakes     *)
(* (Stuck, ShutdownCompletes), and a capture driver whose exception ends   *)
(* every tick before its stop phase (TickRaises, RemovedDeviceStops).  The *)
(* properties name them, and say that there is no other way.               *)
(***************************************************************************)
HasStream(d) == \E p \in Procs : Alive(p) /\ proc[p].dev = d

TickRaises == \E d \in Devices : StartRaises(d)

\* What may keep the tick from ever doing its work.
TickPrevented == <>Stuck("tick") \/ []<><<TickRaises>>_vars

(***************************************************************************)
(* A device that stays disabled ends up without any live ffmpeg process,   *)
(* also when ffmpeg ignores SIGTERM and while the WSS task keeps stopping  *)
(* streams itself (state_machine.py:113-117, ffmpeg_runner.py:136-141).    *)
(***************************************************************************)
DisabledStops ==
  \A d \in Devices :
    <>[](d \notin Enabled /\ main = "run") => <>[]~HasStream(d) \/ TickPrevented

(***************************************************************************)
(* A device that stays enabled keeps getting an ffmpeg process, after      *)
(* every crash, failed spawn and restart, until it is given up             *)
(* (state_machine.py:103-110).                                             *)
(***************************************************************************)
EnabledRuns ==
  \A d \in Devices :
    <>[](d \in Enabled /\ main = "run") =>
      []<>(HasStream(d) \/ d \in dead) \/ TickPrevented

(***************************************************************************)
(* A shutdown comes to its end whatever the other tasks were doing, stuck  *)
(* or not: only its own wait for a killed process can keep it              *)
(* (app.py:332-335, state_machine.py:67-77,173-176).                       *)
(***************************************************************************)
ShutdownEnds == main # "run" ~> main = "halted" \/ Stuck("main")

-----------------------------------------------------------------------------
\* What the repository says of the node and the code does not do.

(***************************************************************************)
(* One ffmpeg subprocess per enabled device                                *)
(* (openspec/specs/rtmp-streaming/spec.md:48).                             *)
(***************************************************************************)
OneProcessPerDevice ==
  \A p, q \in Procs : Alive(p) /\ Alive(q) /\ proc[p].dev = proc[q].dev => p = q

(***************************************************************************)
(* The node waits for the end of every ffmpeg process before it exits      *)
(* (openspec/specs/stream-state-machine/spec.md:47).                       *)
(***************************************************************************)
ShutdownWaits == main = "halted" => \A p \in Procs : ~Alive(p)

(***************************************************************************)
(* A device is dead after _MAX_FAILURES consecutive failures               *)
(* (the docstring of _record_failure, state_machine.py:160).               *)
(***************************************************************************)
DeadAfterMaxFailures == \A d \in Devices : failures[d] >= MaxFailures => d \in dead

(***************************************************************************)
(* After authentication the running streams are restarted, so that their   *)
(* URLs carry the Server's device id (comment at app.py:299-300): when the *)
(* callback is done no running stream has the placeholder of a device the  *)
(* Server has named.                                                       *)
(***************************************************************************)
RestartFixesUrls ==
  [][RestartDone => \A d \in Tracked :
       ServerId(TypeOf[d], NameOf[d]) # 0 => proc[processes[d]].url # 0]_vars

(***************************************************************************)
(* A stream whose device is no longer enabled is stopped                   *)
(* (openspec/specs/stream-state-machine/spec.md:16-18), here with a        *)
(* capture driver that may raise for another device, and with a tick that  *)
(* does not wait for ever for a killed process.                            *)
(***************************************************************************)
RemovedDeviceStops ==
  \A d \in Devices :
    <>[](d \notin Enabled /\ main = "run") => <>[]~HasStream(d) \/ <>Stuck("tick")

(***************************************************************************)
(* At shutdown the node terminates every ffmpeg process, waits for them    *)
(* and exits (openspec/specs/stream-state-machine/spec.md:46-47).          *)
(***************************************************************************)
ShutdownCompletes == main # "run" ~> main = "halted"
=============================================================================
