--------------------------- MODULE StreamContract ---------------------------
(***************************************************************************)
(* What the program around them may rely on about the ffmpeg streams: when *)
(* processes may be started, and that the end of shutdown() means that all *)
(* of them have been told to end, though not that they have.  MonitorNode  *)
(* implements this; Lifespan builds on it.                                 *)
(***************************************************************************)
CONSTANT
  Procs         \* ffmpeg processes

VARIABLES
  streams,      \* the state machine: "off", "run", "stopping" or "stopped"
  live,         \* processes running and not told to end
  dying         \* processes told to end and still running

streamVars == <<streams, live, dying>>

Begin == streams = "off" /\ streams' = "run" /\ UNCHANGED <<live, dying>>

StartStream ==
  /\ streams = "run"
  /\ \E p \in Procs \ (live \union dying) : live' = live \union {p}
  /\ UNCHANGED <<streams, dying>>

\* stop_stream, for a disabled device, a new URL or the shutdown.
EndStream(p) ==
  /\ p \in live
  /\ live' = live \ {p} /\ dying' = dying \union {p}
  /\ UNCHANGED streams

StreamExits(p) ==
  /\ p \in live \union dying
  /\ live' = live \ {p} /\ dying' = dying \ {p}
  /\ UNCHANGED streams

BeginStop == streams = "run" /\ streams' = "stopping" /\ UNCHANGED <<live, dying>>

FinishStop ==
  /\ streams = "stopping" /\ live = {}
  /\ streams' = "stopped"
  /\ UNCHANGED <<live, dying>>

\* The view begins before or after state_machine.start().
Init == streams \in {"off", "run"} /\ live = {} /\ dying = {}

StreamStep == StartStream \/ \E p \in Procs : EndStream(p) \/ StreamExits(p)

Next == Begin \/ StreamStep \/ BeginStop \/ FinishStop

Spec == Init /\ [][Next]_streamVars
=============================================================================
