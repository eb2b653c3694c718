------------------------------ MODULE Lifespan ------------------------------
(***************************************************************************)
(* The life of the program, lifespan() of src/app.py, over several runs:   *)
(* the clean-up after a crash, the enumeration, the two helper servers     *)
(* (the mock WSS server and the RTMP server, both Node.js programs), the   *)
(* streams, and the shutdown in the opposite order.  A run may also end    *)
(* anywhere without its shutdown (a crash, or an exception in the startup) *)
(* and leaves its ffmpeg processes and helpers to the next one.            *)
(*                                                                         *)
(* Of the streams only StreamContract is known, which MonitorNode          *)
(* implements.                                                             *)
(***************************************************************************)
EXTENDS StreamContract, Naturals

CONSTANTS         \* in half seconds
  EnumTimeout,    \* _ENUMERATION_TIMEOUT
  MockWait,       \* the sleep before the mock server is checked
  ReadWait,       \* the wait for each line of a mock server that has exited
  MaxLines,       \* bound: lines it has left in its pipe
  LineWait,       \* the wait for the first line of the RTMP server
  RtmpWait,       \* the sleep before the RTMP server is checked
  ConnectLimit    \* documented: the node connects within this time

ASSUME LifespanAssumption ==
  {EnumTimeout, MockWait, ReadWait, MaxLines, LineWait, RtmpWait} \subseteq Nat

Helpers == {"mock", "rtmp"}

VARIABLES
  phase,        \* where lifespan() is
  debug,        \* DEBUG_WSS and RTMP_DEBUG
  devices,      \* the enumeration found devices
  enabled,      \* they were all enabled at startup
  handle,       \* _MOCK_WSS_SERVER_PROC and _RTMP_SERVER_PROC are set
  helper,       \* the helper processes of this run
  taken,        \* ports held by an earlier helper or another program
  old,          \* ffmpeg processes of earlier runs
  unkilled,     \* kill_zombies failed
  elapsed       \* time since the start of the run, until it serves

appVars == <<debug, devices, enabled, unkilled, elapsed>>
helperVars == <<handle, helper>>
lifeVars == <<phase, appVars, helperVars, taken, old>>
vars == <<lifeVars, streamVars>>

(***************************************************************************)
(* A helper that has exited is "silent" when it was killed while its drain *)
(* task no longer read its output (ChildPipe): asyncio then never wakes    *)
(* the wait() of _kill_subprocess, as FfmpegRunner says of ffmpeg.         *)
(***************************************************************************)
Running == {"starting", "up", "termed", "killed"}
Gone == {"exited", "silent"}

\* The phases of each helper, and what comes after them.
StartPhase == [mock |-> "startMock", rtmp |-> "startRtmp"]
CheckPhase == [mock |-> "checkMock", rtmp |-> "checkRtmp"]
StopPhase == [mock |-> "stopMock", rtmp |-> "stopRtmp"]
AfterStart == [mock |-> "startRtmp", rtmp |-> "connect"]
AfterStop == [rtmp |-> "stopMock", mock |-> "halt"]
Startup == {"zombies", "enumerate", "startMock", "checkMock", "startRtmp", "checkRtmp", "connect"}
Shutdown == {"stopping", "stopWss", "stopRtmp", "stopMock", "halt"}

NoHelpers == handle' = [h \in Helpers |-> FALSE] /\ helper' = [h \in Helpers |-> "none"]

LifeInit ==
  /\ Init /\ streams = "off" /\ phase = "off"
  /\ debug = [h \in Helpers |-> FALSE] /\ devices = FALSE /\ enabled = FALSE
  /\ handle = [h \in Helpers |-> FALSE] /\ helper = [h \in Helpers |-> "none"]
  /\ taken \in SUBSET Helpers /\ old = {} /\ unkilled = FALSE /\ elapsed = 0

-----------------------------------------------------------------------------
Boot ==
  /\ phase = "off" /\ phase' = "zombies"
  /\ debug' \in [Helpers -> BOOLEAN]
  /\ devices' = FALSE /\ enabled' = FALSE /\ unkilled' = FALSE /\ elapsed' = 0
  /\ UNCHANGED <<helperVars, taken, old, streamVars>>

\* Mutant of KillZombies: the step is skipped.
KillsNothing ==
  /\ phase = "zombies" /\ phase' = "enumerate"
  /\ UNCHANGED <<appVars, helperVars, taken, old, streamVars>>

\* kill_zombies: every ffmpeg goes, or pkill fails and nobody is told.
KillZombies ==
  /\ phase = "zombies" /\ phase' = "enumerate"
  /\ old' \in {{}, old}
  /\ unkilled' = (old' # {})
  /\ UNCHANGED <<debug, devices, enabled, elapsed, helperVars, taken, streamVars>>

\* Also after the timeout what ffmpeg has written so far is parsed.
Enumerate ==
  /\ phase = "enumerate" /\ phase' = "startMock"
  /\ devices' \in BOOLEAN
  /\ elapsed' \in {0, EnumTimeout}
  /\ UNCHANGED <<debug, enabled, unkilled, helperVars, taken, old, streamVars>>

Wanted(h) == debug[h] /\ (h = "rtmp" => devices)

\* Not wanted, or Node.js, the script or the spawn is missing.
StartSkipped(h) ==
  /\ phase = StartPhase[h] /\ phase' = AfterStart[h]
  /\ UNCHANGED <<appVars, helperVars, taken, old, streamVars>>

Launch(h) ==
  /\ phase = StartPhase[h] /\ phase' = CheckPhase[h]
  /\ Wanted(h)
  /\ helper' = [helper EXCEPT ![h] = "starting"]
  /\ handle' = [handle EXCEPT ![h] = TRUE]
  /\ UNCHANGED <<appVars, taken, old, streamVars>>

(***************************************************************************)
(* After its wait the start looks once whether the helper has exited.      *)
(* The devices are enabled when the RTMP server has not.  The output of a  *)
(* mock server that has exited is read to its end, each line with a wait   *)
(* of its own; the RTMP server is given time for its first line.           *)
(***************************************************************************)
MockTime ==
  IF helper["mock"] = "exited" THEN {MockWait + n * ReadWait : n \in 0 .. MaxLines}
                               ELSE {MockWait}
RtmpTime == {RtmpWait, LineWait + RtmpWait}
CheckTime(h) == IF h = "mock" THEN MockTime ELSE RtmpTime

\* Mutants of Check: the start waits for the helper to listen; it gives up a
\* helper that does not listen yet.
CheckWaits(h) ==
  /\ phase = CheckPhase[h] /\ helper[h] # "starting" /\ phase' = AfterStart[h]
  /\ handle' = [handle EXCEPT ![h] = helper[h] # "exited"]
  /\ enabled' = (enabled \/ (h = "rtmp" /\ helper[h] # "exited"))
  /\ \E w \in CheckTime(h) : elapsed' = elapsed + w
  /\ UNCHANGED <<debug, devices, unkilled, helper, taken, old, streamVars>>

CheckListens(h) ==
  /\ phase = CheckPhase[h] /\ phase' = AfterStart[h]
  /\ handle' = [handle EXCEPT ![h] = helper[h] = "up"]
  /\ enabled' = (enabled \/ (h = "rtmp" /\ helper[h] # "exited"))
  /\ \E w \in CheckTime(h) : elapsed' = elapsed + w
  /\ UNCHANGED <<debug, devices, unkilled, helper, taken, old, streamVars>>

Check(h) ==
  /\ phase = CheckPhase[h] /\ phase' = AfterStart[h]
  /\ handle' = [handle EXCEPT ![h] = helper[h] # "exited"]
  /\ enabled' = (enabled \/ (h = "rtmp" /\ helper[h] # "exited"))
  /\ \E w \in CheckTime(h) : elapsed' = elapsed + w
  /\ UNCHANGED <<debug, devices, unkilled, helper, taken, old, streamVars>>

\* The WSS client and the state machine start, without an await between.
Serve ==
  /\ phase = "connect" /\ phase' = "serve"
  /\ Begin
  /\ elapsed' = 0
  /\ UNCHANGED <<debug, devices, enabled, unkilled, helperVars, taken, old>>

-----------------------------------------------------------------------------
StreamsMove ==
  /\ StreamStep /\ live' \intersect old = {}
  /\ UNCHANGED lifeVars

ShutdownBegins ==
  /\ phase = "serve" /\ phase' = "stopping"
  /\ BeginStop
  /\ UNCHANGED <<appVars, helperVars, taken, old>>

\* Mutant of StreamsStopped: the helpers are stopped before the streams.
HelpersFirst ==
  /\ phase = "stopping" /\ phase' = "stopWss"
  /\ UNCHANGED <<appVars, helperVars, taken, old, streamVars>>

StreamsStopped ==
  /\ phase = "stopping" /\ phase' = "stopWss"
  /\ FinishStop
  /\ UNCHANGED <<appVars, helperVars, taken, old>>

WssStopped ==
  /\ phase = "stopWss" /\ phase' = "stopRtmp"
  /\ UNCHANGED <<appVars, helperVars, taken, old, streamVars>>

\* _kill_subprocess: SIGTERM, after the timeout SIGKILL, and the wait.
Terminate(h) ==
  /\ phase = StopPhase[h] /\ handle[h] /\ helper[h] \in {"starting", "up"}
  /\ helper' = [helper EXCEPT ![h] = "termed"]
  /\ UNCHANGED <<phase, handle, appVars, taken, old, streamVars>>

\* Mutant of Kill: the wait has no end.
NeverKill(h) == phase = StopPhase[h] /\ helper[h] = "termed" /\ UNCHANGED vars

Kill(h) ==
  /\ phase = StopPhase[h] /\ helper[h] = "termed"
  /\ helper' = [helper EXCEPT ![h] = "killed"]
  /\ UNCHANGED <<phase, handle, appVars, taken, old, streamVars>>

HelperStopped(h) ==
  /\ phase = StopPhase[h] /\ phase' = AfterStop[h]
  /\ handle[h] => helper[h] = "exited"
  /\ handle' = [handle EXCEPT ![h] = FALSE]
  /\ UNCHANGED <<helper, appVars, taken, old, streamVars>>

-----------------------------------------------------------------------------
\* The program ends; what still runs is left to the system.
Leave ==
  /\ phase' = "off"
  /\ streams' = "off" /\ live' = {} /\ dying' = {}
  /\ old' = old \union live \union dying
  /\ taken' = taken \union {h \in Helpers : helper[h] \in Running}
  /\ NoHelpers
  /\ UNCHANGED appVars

Halt == phase = "halt" /\ Leave

Crash == phase # "off" /\ Leave

\* The helpers: they listen if the port is free, and may exit at any time.
HelperListens(h) ==
  /\ helper[h] = "starting" /\ h \notin taken
  /\ helper' = [helper EXCEPT ![h] = "up"]
  /\ UNCHANGED <<phase, handle, appVars, taken, old, streamVars>>

HelperExits(h) ==
  /\ helper[h] \in Running
  /\ \E s \in Gone :
       /\ s = "silent" => helper[h] = "killed"
       /\ helper' = [helper EXCEPT ![h] = s]
  /\ UNCHANGED <<phase, handle, appVars, taken, old, streamVars>>

LeftoverExits ==
  /\ \/ \E p \in old : old' = old \ {p} /\ UNCHANGED taken
     \/ \E h \in taken : taken' = taken \ {h} /\ UNCHANGED old
  /\ UNCHANGED <<phase, helperVars, appVars, streamVars>>

-----------------------------------------------------------------------------
Starting ==
  \/ KillZombies \/ Enumerate \/ Serve
  \/ \E h \in Helpers : StartSkipped(h) \/ Launch(h) \/ Check(h)

Stopping ==
  \/ WssStopped \/ Halt
  \/ \E h \in Helpers : Terminate(h) \/ Kill(h) \/ HelperStopped(h)

LifeNext ==
  \/ Boot \/ Starting \/ ShutdownBegins \/ StreamsStopped \/ Stopping \/ Crash
  \/ StreamsMove \/ LeftoverExits
  \/ \E h \in Helpers : HelperListens(h) \/ HelperExits(h)

LifeSpec == LifeInit /\ [][LifeNext]_vars

(***************************************************************************)
(* The main task runs: pkill and the enumeration return, and sleeps end.   *)
(* A SIGKILLed helper exits.  Nothing is assumed of a helper otherwise,    *)
(* nor that shutdown() of the streams returns (MonitorNode).               *)
(***************************************************************************)
KilledExits(h) == helper[h] = "killed" /\ HelperExits(h)

FairSpec ==
  /\ LifeSpec
  /\ WF_vars(Starting) /\ WF_vars(Stopping)
  /\ \A h \in Helpers : WF_vars(KilledExits(h))

-----------------------------------------------------------------------------
(***************************************************************************)
(* A shutdown leaves no helper behind: no early return of a start or of    *)
(* its check loses the handle of a helper that is still running            *)
(* (app.py:110-152,201-221,337-341).                                       *)
(***************************************************************************)
CleanExit == phase = "halt" => \A h \in Helpers : helper[h] \notin Running

(***************************************************************************)
(* The RTMP server is told to end only when every stream has been: a       *)
(* regular shutdown takes the server from no ffmpeg that still is to       *)
(* publish (app.py:331-338).                                               *)
(***************************************************************************)
ServerOutlivesStreams == helper["rtmp"] \in {"termed", "killed"} => live = {}

(***************************************************************************)
(* No stream runs beside an ffmpeg that a crashed run has left behind      *)
(* under the same URL, unless kill_zombies failed (app.py:257-258,         *)
(* ffmpeg_runner.py:173-183).                                              *)
(***************************************************************************)
NoOldStreams == live # {} /\ ~unkilled => old = {}

(***************************************************************************)
(* Whatever the helpers do, a startup comes to serve, or the run ends      *)
(* (app.py:257-323).                                                       *)
(***************************************************************************)
StartupEnds == phase = "zombies" ~> phase \in {"serve", "off"}

(***************************************************************************)
(* Once the streams are stopped a shutdown ends, also when a helper        *)
(* ignores SIGTERM, unless it waits for a helper killed while nobody read  *)
(* its output (app.py:80-88,334-341).                                      *)
(***************************************************************************)
ShutdownEnds ==
  phase = "stopWss" ~> phase = "off" \/ \E h \in Helpers : helper[h] = "silent"

-----------------------------------------------------------------------------
\* What the documents say of a startup and the code does not do.

(***************************************************************************)
(* The node connects within ten seconds of its start                       *)
(* (changes/debug-wss-and-channel-convergence/specs/wss-connection/spec.md:6). *)
(***************************************************************************)
ConnectsInTime == [][Serve => elapsed <= ConnectLimit]_vars

(***************************************************************************)
(* With the RTMP port occupied no stream is enabled at startup             *)
(* (embedded-rtmp-server/spec.md:10-13 of the change                       *)
(* 2026-07-08-media-foundation-capture).                                   *)
(***************************************************************************)
PortOccupiedNoPush == [][Check("rtmp") /\ "rtmp" \in taken => ~enabled']_vars
=============================================================================
