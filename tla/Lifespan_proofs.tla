-------------------------- MODULE Lifespan_proofs --------------------------
(***************************************************************************)
(* Proofs about the life of the program, for any number of processes and   *)
(* any waits: that a shutdown leaves no helper behind and stops the RTMP   *)
(* server after the streams, and that no stream joins a leftover ffmpeg.   *)
(***************************************************************************)
EXTENDS Lifespan, TLAPS

LifeTypeOK ==
  /\ phase \in Startup \union Shutdown \union {"off", "serve"}
  /\ debug \in [Helpers -> BOOLEAN] /\ devices \in BOOLEAN /\ enabled \in BOOLEAN
  /\ handle \in [Helpers -> BOOLEAN]
  /\ helper \in [Helpers -> Running \union Gone \union {"none"}]
  /\ taken \subseteq Helpers /\ unkilled \in BOOLEAN /\ elapsed \in Nat
  /\ streams \in {"off", "run", "stopping", "stopped"}
  /\ live \subseteq Procs /\ dying \subseteq Procs /\ old \subseteq Procs

AfterStreams == {"stopWss", "stopRtmp", "stopMock", "halt"}

StateAt == [f \in Startup \union Shutdown \union {"off", "serve"} |->
  IF f = "serve" THEN "run" ELSE IF f = "stopping" THEN "stopping"
  ELSE IF f \in AfterStreams THEN "stopped" ELSE "off"]

\* The streams follow the phases.
InPhase ==
  /\ streams = StateAt[phase]
  /\ streams \in {"off", "stopped"} => live = {}

\* A helper that runs has its handle, and is told to end in its phase only.
Held ==
  \A h \in Helpers :
    /\ helper[h] \in Running => handle[h]
    /\ helper[h] \in {"termed", "killed"} => phase = StopPhase[h]

Ended ==
  /\ phase \in {"stopMock", "halt"} => helper["rtmp"] \notin Running
  /\ phase = "halt" => helper["mock"] \notin Running

Cleared == phase \notin {"off", "zombies"} /\ ~unkilled => old = {}

IInv == LifeTypeOK /\ InPhase /\ Held /\ Ended /\ Cleared

LEMMA PhaseFacts ==
  /\ StartPhase["mock"] = "startMock" /\ StartPhase["rtmp"] = "startRtmp"
  /\ CheckPhase["mock"] = "checkMock" /\ CheckPhase["rtmp"] = "checkRtmp"
  /\ StopPhase["mock"] = "stopMock" /\ StopPhase["rtmp"] = "stopRtmp"
  /\ AfterStart["mock"] = "startRtmp" /\ AfterStart["rtmp"] = "connect"
  /\ AfterStop["rtmp"] = "stopMock" /\ AfterStop["mock"] = "halt"
  BY DEF StartPhase, CheckPhase, StopPhase, AfterStart, AfterStop

LEMMA StateFacts ==
  /\ \A f \in Startup \union {"off"} : StateAt[f] = "off"
  /\ StateAt["serve"] = "run" /\ StateAt["stopping"] = "stopping"
  /\ \A f \in AfterStreams : StateAt[f] = "stopped"
  BY DEF StateAt, Startup, Shutdown, AfterStreams

LEMMA InitInv == LifeInit => IInv
<1>. SUFFICES ASSUME LifeInit  PROVE IInv
  OBVIOUS
<1>1. LifeTypeOK
  <2>1. /\ debug \in [Helpers -> BOOLEAN] /\ handle \in [Helpers -> BOOLEAN]
        /\ helper \in [Helpers -> Running \union Gone \union {"none"}]
    BY DEF LifeInit
  <2>. QED  BY <2>1 DEF LifeInit, Init, LifeTypeOK
<1>2. InPhase /\ Held /\ Ended /\ Cleared
  BY StateFacts, LifespanAssumption
  DEF LifespanAssumption, LifeInit, Init, InPhase, Held, Ended, Cleared, Running,
      Shutdown, Helpers
<1>. QED  BY <1>1, <1>2 DEF IInv

-----------------------------------------------------------------------------
\* The startup.
LEMMA StartingKeeps ==
  ASSUME IInv, Boot \/ Starting  PROVE IInv'
<1>. USE LifespanAssumption DEF LifespanAssumption, IInv
<1>1. CASE Boot
  <2>0. LifeTypeOK'
    BY <1>1 DEF Boot, LifeTypeOK, helperVars, streamVars, Startup
  <2>1. Held' /\ Ended' /\ Cleared'
    BY <1>1, PhaseFacts
    DEF Boot, LifeTypeOK, Held, Ended, Cleared, helperVars, Helpers
  <2>2. InPhase'
    BY <1>1, StateFacts DEF Boot, InPhase, streamVars, Startup
  <2>. QED  BY <2>0, <2>1, <2>2
<1>2. CASE KillZombies
  <2>1. LifeTypeOK' /\ Held' /\ Ended' /\ Cleared'
    BY <1>2, PhaseFacts
    DEF KillZombies, LifeTypeOK, Held, Ended, Cleared, helperVars, streamVars,
        Startup, Helpers
  <2>2. InPhase'
    BY <1>2, StateFacts DEF KillZombies, InPhase, streamVars, Startup
  <2>. QED  BY <2>1, <2>2
<1>3. CASE Enumerate
  <2>1. LifeTypeOK' /\ Held' /\ Ended' /\ Cleared'
    BY <1>3, PhaseFacts
    DEF Enumerate, LifeTypeOK, Held, Ended, Cleared, helperVars, streamVars,
        Startup, Helpers
  <2>2. InPhase'
    BY <1>3, StateFacts DEF Enumerate, InPhase, streamVars, Startup
  <2>. QED  BY <2>1, <2>2
<1>4. CASE Serve
  <2>1. LifeTypeOK' /\ Held' /\ Ended' /\ Cleared'
    BY <1>4, PhaseFacts
    DEF Serve, Begin, LifeTypeOK, Held, Ended, Cleared, helperVars, streamVars, Helpers
  <2>2. InPhase'
    BY <1>4, StateFacts DEF Serve, Begin, InPhase, Startup
  <2>. QED  BY <2>1, <2>2
<1>5. ASSUME NEW h \in Helpers, StartSkipped(h)  PROVE IInv'
  <2>1. LifeTypeOK' /\ Held' /\ Ended' /\ Cleared'
    BY <1>5, PhaseFacts
    DEF StartSkipped, LifeTypeOK, Held, Ended, Cleared, appVars, helperVars,
        streamVars, Startup, Helpers
  <2>2. InPhase'
    BY <1>5, StateFacts, PhaseFacts DEF StartSkipped, InPhase, streamVars, Startup, Helpers
  <2>. QED  BY <2>1, <2>2
<1>6. ASSUME NEW h \in Helpers, Launch(h)  PROVE IInv'
  <2>1. LifeTypeOK' /\ Ended' /\ Cleared'
    BY <1>6, PhaseFacts
    DEF Launch, LifeTypeOK, Ended, Cleared, appVars, streamVars, Startup, Helpers, Running
  <2>2. InPhase'
    BY <1>6, StateFacts, PhaseFacts DEF Launch, InPhase, streamVars, Startup, Helpers
  <2>3. Held'
    BY <1>6, PhaseFacts DEF Launch, Held, LifeTypeOK, Helpers, Running
  <2>. QED  BY <2>1, <2>2, <2>3
<1>7. ASSUME NEW h \in Helpers, Check(h)  PROVE IInv'
  <2>1. LifeTypeOK' /\ Ended' /\ Cleared'
    BY <1>7, PhaseFacts
    DEF Check, CheckTime, MockTime, RtmpTime, LifeTypeOK, Ended, Cleared, streamVars, Startup, Shutdown, Helpers
  <2>2. InPhase'
    BY <1>7, StateFacts, PhaseFacts DEF Check, InPhase, streamVars, Startup, Helpers
  <2>3. Held'
    BY <1>7, PhaseFacts DEF Check, Held, LifeTypeOK, Helpers, Running
  <2>. QED  BY <2>1, <2>2, <2>3
<1>. QED  BY <1>1, <1>2, <1>3, <1>4, <1>5, <1>6, <1>7 DEF Starting

-----------------------------------------------------------------------------
\* The shutdown and the end of a run.
LEMMA StoppingKeeps ==
  ASSUME IInv, ShutdownBegins \/ StreamsStopped \/ Stopping \/ Crash  PROVE IInv'
<1>. USE LifespanAssumption DEF LifespanAssumption, IInv
<1>1. CASE ShutdownBegins
  <2>1. LifeTypeOK' /\ Held' /\ Ended' /\ Cleared'
    BY <1>1, PhaseFacts
    DEF ShutdownBegins, BeginStop, LifeTypeOK, Held, Ended, Cleared, appVars,
        helperVars, Shutdown, Helpers
  <2>2. InPhase'
    BY <1>1, StateFacts DEF ShutdownBegins, BeginStop, InPhase
  <2>. QED  BY <2>1, <2>2
<1>2. CASE StreamsStopped
  <2>1. LifeTypeOK' /\ Held' /\ Ended' /\ Cleared'
    BY <1>2, PhaseFacts
    DEF StreamsStopped, FinishStop, LifeTypeOK, Held, Ended, Cleared, appVars,
        helperVars, Shutdown, Helpers
  <2>2. InPhase'
    BY <1>2, StateFacts DEF StreamsStopped, FinishStop, InPhase, AfterStreams
  <2>. QED  BY <2>1, <2>2
<1>3. CASE WssStopped
  <2>1. LifeTypeOK' /\ Held' /\ Ended' /\ Cleared'
    BY <1>3, PhaseFacts
    DEF WssStopped, LifeTypeOK, Held, Ended, Cleared, appVars, helperVars,
        streamVars, Shutdown, Helpers
  <2>2. InPhase'
    BY <1>3, StateFacts DEF WssStopped, InPhase, AfterStreams, streamVars
  <2>. QED  BY <2>1, <2>2
<1>4. ASSUME NEW h \in Helpers, Terminate(h) \/ Kill(h)  PROVE IInv'
  <2>1. LifeTypeOK' /\ Cleared'
    BY <1>4 DEF Terminate, Kill, LifeTypeOK, Cleared, appVars, streamVars, Running
  <2>2. InPhase'
    BY <1>4 DEF Terminate, Kill, InPhase, streamVars
  <2>3. Held' /\ Ended'
    BY <1>4, PhaseFacts DEF Terminate, Kill, Held, Ended, LifeTypeOK, Helpers, Running
  <2>. QED  BY <2>1, <2>2, <2>3
<1>5. ASSUME NEW h \in Helpers, HelperStopped(h)  PROVE IInv'
  <2>1. LifeTypeOK' /\ Cleared'
    BY <1>5, PhaseFacts
    DEF HelperStopped, LifeTypeOK, Cleared, appVars, streamVars, Shutdown, Helpers
  <2>2. InPhase'
    BY <1>5, StateFacts, PhaseFacts
    DEF HelperStopped, InPhase, streamVars, AfterStreams, Helpers
  <2>3. helper[h] \notin Running
    BY <1>5 DEF HelperStopped, Held, Running
  <2>4. Held' /\ Ended'
    BY <1>5, <2>3, PhaseFacts DEF HelperStopped, Held, Ended, LifeTypeOK, Helpers, Running
  <2>. QED  BY <2>1, <2>2, <2>4
<1>6. CASE Leave
  <2>0. LifeTypeOK'
    BY <1>6 DEF Leave, NoHelpers, LifeTypeOK, appVars
  <2>1. Held' /\ Ended' /\ Cleared'
    BY <1>6
    DEF Leave, NoHelpers, LifeTypeOK, Held, Ended, Cleared, appVars, Running
  <2>2. InPhase'
    BY <1>6, StateFacts DEF Leave, InPhase
  <2>. QED  BY <2>0, <2>1, <2>2
<1>. QED  BY <1>1, <1>2, <1>3, <1>4, <1>5, <1>6 DEF Stopping, Halt, Crash

-----------------------------------------------------------------------------
\* The streams, the helpers and the leftovers move on their own.
LEMMA OthersKeep ==
  ASSUME IInv, StreamsMove \/ LeftoverExits \/ \E h \in Helpers : HelperListens(h) \/ HelperExits(h)
  PROVE  IInv'
<1>. USE DEF IInv
<1>1. CASE StreamsMove
  <2>1. LifeTypeOK' /\ Held' /\ Ended' /\ Cleared'
    BY <1>1 DEF StreamsMove, StreamStep, StartStream, EndStream, StreamExits, LifeTypeOK,
       Held, Ended, Cleared, lifeVars, appVars, helperVars
  <2>2. InPhase'
    BY <1>1 DEF StreamsMove, StreamStep, StartStream, EndStream, StreamExits, InPhase, lifeVars
  <2>. QED  BY <2>1, <2>2
<1>2. CASE LeftoverExits
  <2>1. LifeTypeOK' /\ Held' /\ Ended' /\ Cleared'
    BY <1>2 DEF LeftoverExits, LifeTypeOK, Held, Ended, Cleared, appVars, helperVars,
       streamVars
  <2>2. InPhase'
    BY <1>2 DEF LeftoverExits, InPhase, streamVars
  <2>. QED  BY <2>1, <2>2
<1>3. ASSUME NEW h \in Helpers, HelperListens(h) \/ HelperExits(h)  PROVE IInv'
  <2>1. PICK s \in Gone \union {"up"} :
          /\ helper' = [helper EXCEPT ![h] = s]
          /\ s = "up" => helper[h] = "starting"
          /\ helper[h] \in Running
    BY <1>3 DEF HelperListens, HelperExits, Running, Gone
  <2>2. UNCHANGED <<phase, handle, appVars, taken, old, streamVars>>
    BY <1>3 DEF HelperListens, HelperExits
  <2>3. LifeTypeOK' /\ Cleared' /\ InPhase'
    BY <2>1, <2>2 DEF LifeTypeOK, Cleared, InPhase, appVars, streamVars, Running
  <2>4. Held' /\ Ended'
    BY <2>1, <2>2 DEF Held, Ended, LifeTypeOK, Helpers, Running, Gone
  <2>. QED  BY <2>3, <2>4
<1>. QED  BY <1>1, <1>2, <1>3

LEMMA StepInv == IInv /\ [LifeNext]_vars => IInv'
<1>1. ASSUME IInv, UNCHANGED vars  PROVE IInv'
  BY <1>1 DEF IInv, LifeTypeOK, InPhase, Held, Ended, Cleared, vars, lifeVars,
     appVars, helperVars, streamVars
<1>. QED  BY <1>1, StartingKeeps, StoppingKeeps, OthersKeep DEF LifeNext

LEMMA Invariant == LifeSpec => []IInv
  BY InitInv, StepInv, PTL DEF LifeSpec

-----------------------------------------------------------------------------
(***************************************************************************)
(* A shutdown leaves no helper behind (app.py:201-229,337-341).            *)
(***************************************************************************)
THEOREM CleanExitHolds == LifeSpec => []CleanExit
<1>1. IInv => CleanExit
  BY DEF IInv, Ended, CleanExit, Helpers
<1>. QED  BY <1>1, Invariant, PTL

(***************************************************************************)
(* The RTMP server is told to end after the last stream (app.py:331-338).  *)
(***************************************************************************)
THEOREM ServerOutlivesStreamsHolds == LifeSpec => []ServerOutlivesStreams
<1>1. IInv => ServerOutlivesStreams
  <2>. SUFFICES ASSUME IInv, helper["rtmp"] \in {"termed", "killed"}  PROVE live = {}
    BY DEF ServerOutlivesStreams
  <2>1. phase = "stopRtmp"
    BY PhaseFacts DEF IInv, Held, Helpers
  <2>. QED  BY <2>1, StateFacts DEF IInv, InPhase, AfterStreams
<1>. QED  BY <1>1, Invariant, PTL

(***************************************************************************)
(* No stream runs beside a leftover ffmpeg unless kill_zombies failed      *)
(* (app.py:257-258, ffmpeg_runner.py:173-183).                             *)
(***************************************************************************)
THEOREM NoOldStreamsHolds == LifeSpec => []NoOldStreams
<1>1. IInv => NoOldStreams
  <2>. SUFFICES ASSUME IInv, live # {}, ~unkilled  PROVE old = {}
    BY DEF NoOldStreams
  <2>1. phase \notin {"off", "zombies"}
    BY StateFacts DEF IInv, InPhase, Startup
  <2>. QED  BY <2>1 DEF IInv, Cleared
<1>. QED  BY <1>1, Invariant, PTL
=============================================================================
