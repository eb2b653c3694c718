------------------------- MODULE StreamStateMachine -------------------------
(***************************************************************************)
(* The reconciliation loop, src/services/state_machine.py: every           *)
(* _POLL_INTERVAL seconds a tick compares the enabled devices with the     *)
(* running streams and starts, stops and reaps ffmpeg processes.           *)
(*                                                                         *)
(* The tick works on the two sets it read at its beginning, but it awaits  *)
(* in four places (spawning, stopping, reading the stderr of a crashed     *)
(* process, sleeping), and every other task of the node runs there.  In    *)
(* between it holds the event loop: TickBusy.                              *)
(*                                                                         *)
(* _was_connected only chooses what is logged and is left out; a device    *)
(* absent from _consecutive_failures has the count 0.                      *)
(***************************************************************************)
EXTENDS FfmpegRunner, DeviceRegistry, DeviceMaps

CONSTANTS
  MaxFailures,  \* _MAX_FAILURES
  Flaky         \* devices whose capture driver may raise

ASSUME StateMachineAssumption == MaxFailures \in Nat /\ Flaky \subseteq Devices

VARIABLES
  failures,     \* _consecutive_failures
  dead,         \* _dead
  pc,           \* where the tick is
  snapEnabled,  \* enabled_ids and
  snapRunning,  \* running_set, as read at the beginning of the tick
  todo,         \* what is left of the set the current loop iterates over
  cur,          \* the device of the call being awaited, or None
  url           \* the id in the URL of the ffmpeg command being spawned

tickVars == <<pc, snapEnabled, snapRunning, todo, cur, url>>
failureVars == <<failures, dead>>
machineVars == <<failureVars, tickVars>>

Phases == {"sleep", "start", "spawn", "stop", "check", "read", "off"}

\* The tick runs without having awaited: no other task can.
TickBusy == pc \in {"start", "stop", "check"} /\ stopping["tick"] = None

MachineInit ==
  /\ failures = [d \in Devices |-> 0]
  /\ dead = {}
  /\ pc = "sleep"
  /\ snapEnabled = {} /\ snapRunning = {}
  /\ todo = {} /\ cur = None /\ url = 0

-----------------------------------------------------------------------------
\* Mutant of RecordFailure: no device is ever given up.
RecordFailureForever(d) ==
  failures' = [failures EXCEPT ![d] = @ + 1] /\ UNCHANGED dead

\* _record_failure: the device is dead when the count exceeds _MAX_FAILURES.
RecordFailure(d) ==
  /\ failures' = [failures EXCEPT ![d] = @ + 1]
  /\ dead' = IF failures[d] + 1 > MaxFailures THEN dead \union {d} ELSE dead

ClearFailures(d) == failures' = [failures EXCEPT ![d] = 0] /\ UNCHANGED dead

Goto(p, work) == pc' = p /\ todo' = work /\ UNCHANGED <<snapEnabled, snapRunning>>

\* The tick is over, normally or by an exception, and the loop sleeps.
EndTick ==
  /\ pc' = "sleep"
  /\ snapEnabled' = {} /\ snapRunning' = {} /\ todo' = {}
  /\ cur' = None /\ url' = 0

-----------------------------------------------------------------------------
(***************************************************************************)
(* 1. Snapshot.                                                            *)
(***************************************************************************)
\* Mutant of ToStart: the devices given up are tried again.
ToStartWithDead == Enabled \ Tracked

ToStart == Enabled \ (Tracked \union dead)

BeginTick ==
  /\ pc = "sleep"
  /\ pc' = "start"
  /\ snapEnabled' = Enabled
  /\ snapRunning' = Tracked
  /\ todo' = ToStart
  /\ UNCHANGED <<cur, url, failureVars, runnerVars>>

(***************************************************************************)
(* 2. Start streams.  start_stream returns at once for a tracked device,   *)
(* and builds the URL from the maps before it awaits the spawn.  Building  *)
(* the command is outside its try: an exception there ends the whole tick. *)
(***************************************************************************)
StartSkip(d) ==
  /\ pc = "start" /\ d \in todo /\ d \in Tracked
  /\ Goto("start", todo \ {d})
  /\ UNCHANGED <<cur, url, failureVars, runnerVars>>

StartRaises(d) ==
  /\ pc = "start" /\ d \in todo \ Tracked /\ d \in Flaky
  /\ EndTick
  /\ UNCHANGED <<failureVars, runnerVars>>

StartSpawn(d) ==
  /\ pc = "start" /\ d \in todo \ Tracked
  /\ Goto("spawn", todo \ {d})
  /\ cur' = d
  /\ url' = ServerId(TypeOf[d], NameOf[d])
  /\ UNCHANGED <<failureVars, runnerVars>>

SpawnOk ==
  /\ pc = "spawn"
  /\ Spawn(cur, url)
  /\ Goto("start", todo)
  /\ cur' = None /\ url' = 0
  /\ UNCHANGED failureVars

SpawnFails ==
  /\ pc = "spawn"
  /\ RecordFailure(cur)
  /\ Goto("start", todo)
  /\ cur' = None /\ url' = 0
  /\ UNCHANGED runnerVars

StartDone ==
  /\ pc = "start" /\ todo = {}
  /\ Goto("stop", snapRunning \ snapEnabled)
  /\ UNCHANGED <<cur, url, failureVars, runnerVars>>

(***************************************************************************)
(* 3. Stop streams.  The failure count goes once stop_stream has returned, *)
(* which is at once unless it awaits a live process.                       *)
(***************************************************************************)
StopNext(d) ==
  /\ pc = "stop" /\ stopping["tick"] = None /\ d \in todo
  /\ StopStream("tick", d)
  /\ Goto("stop", todo \ {d})
  /\ IF stopping'["tick"] = None
       THEN ClearFailures(d) /\ UNCHANGED cur
       ELSE cur' = d /\ UNCHANGED failureVars
  /\ UNCHANGED url

StopAwaited ==
  /\ pc = "stop"
  /\ StopReturns("tick")
  /\ ClearFailures(cur)
  /\ cur' = None
  /\ Goto("stop", todo) /\ UNCHANGED url

\* Mutant of StopDone: the loop over to_stop may end before its last device.
StopDoneEarly ==
  /\ pc = "stop" /\ stopping["tick"] = None
  /\ Goto("check", snapEnabled \intersect snapRunning)
  /\ UNCHANGED <<cur, url, failureVars, runnerVars>>

StopDone ==
  /\ pc = "stop" /\ stopping["tick"] = None /\ todo = {}
  /\ Goto("check", snapEnabled \intersect snapRunning)
  /\ UNCHANGED <<cur, url, failureVars, runnerVars>>

(***************************************************************************)
(* 4. Check for crashes.  The entry is read from the live map; a crashed   *)
(* process is diagnosed (an await) before its entry is popped, whatever    *)
(* the entry is by then.  A healthy process clears the failure count.      *)
(***************************************************************************)
CheckAbsent(d) ==
  /\ pc = "check" /\ d \in todo /\ d \notin Tracked
  /\ Goto("check", todo \ {d})
  /\ UNCHANGED <<cur, url, failureVars, runnerVars>>

\* Mutants of CheckHealthy and CheckCrashed: the returncode is not looked at.
CheckHealthyAny(d) ==
  /\ pc = "check" /\ d \in todo \intersect Tracked
  /\ ClearFailures(d)
  /\ Goto("check", todo \ {d})
  /\ UNCHANGED <<cur, url, runnerVars>>

CheckCrashedAny(d) ==
  /\ pc = "check" /\ d \in todo \intersect Tracked
  /\ Goto("read", todo \ {d})
  /\ cur' = d
  /\ UNCHANGED <<url, failureVars, runnerVars>>

CheckHealthy(d) ==
  /\ pc = "check" /\ d \in todo \intersect Tracked /\ ~Exited(processes[d])
  /\ ClearFailures(d)
  /\ Goto("check", todo \ {d})
  /\ UNCHANGED <<cur, url, runnerVars>>

CheckCrashed(d) ==
  /\ pc = "check" /\ d \in todo \intersect Tracked /\ Exited(processes[d])
  /\ Goto("read", todo \ {d})
  /\ cur' = d
  /\ UNCHANGED <<url, failureVars, runnerVars>>

Pop(d) ==
  /\ processes' = [processes EXCEPT ![d] = None]
  /\ proc' = IF processes[d] # None /\ Exited(processes[d])
               THEN [proc EXCEPT ![processes[d]] = NoProc] ELSE proc
  /\ UNCHANGED stopping

Reap ==
  /\ pc = "read"
  /\ Pop(cur)
  /\ RecordFailure(cur)
  /\ Goto("check", todo)
  /\ cur' = None /\ UNCHANGED url

CheckDone ==
  /\ pc = "check" /\ todo = {}
  /\ EndTick
  /\ UNCHANGED <<failureVars, runnerVars>>

-----------------------------------------------------------------------------
\* Steps of a running tick, and the awaits it can be resumed from.
TickRuns ==
  \/ \E d \in todo : \/ StartSkip(d) \/ StartRaises(d) \/ StartSpawn(d)
                     \/ StopNext(d)
                     \/ CheckAbsent(d) \/ CheckHealthy(d) \/ CheckCrashed(d)
  \/ StartDone \/ StopDone \/ CheckDone

SpawnReturns == SpawnOk \/ SpawnFails

TickResumes == BeginTick \/ SpawnReturns \/ StopAwaited \/ Reap

(***************************************************************************)
(* stop(): the task is cancelled where it awaits.  A cancelled             *)
(* create_subprocess_exec kills its child and stores nothing; a cancelled  *)
(* stop_stream leaves its process behind.  CancelledError ends the loop.   *)
(***************************************************************************)
\* Mutant of CancelTick: stop() does not end the running tick.
CancelNothing == UNCHANGED <<machineVars, runnerVars>>

CancelTick ==
  /\ Abandon("tick")
  /\ pc' = "off"
  /\ snapEnabled' = {} /\ snapRunning' = {} /\ todo' = {}
  /\ cur' = None /\ url' = 0
  /\ UNCHANGED failureVars

MachineTypeOK ==
  /\ failures \in [Devices -> 0 .. MaxFailures + 1]
  /\ dead \subseteq Devices
  /\ pc \in Phases
  /\ snapEnabled \subseteq Devices /\ snapRunning \subseteq Devices
  /\ todo \subseteq Devices
  /\ cur \in Devices \union {None}
  /\ url \in Ids \union {0}
  /\ cur # None <=> pc \in {"spawn", "read"} \/ stopping["tick"] # None
  /\ stopping["tick"] # None => pc = "stop"
=============================================================================
