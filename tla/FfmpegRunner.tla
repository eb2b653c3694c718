---------------------------- MODULE FfmpegRunner ----------------------------
(***************************************************************************)
(* The ffmpeg subprocess manager, src/services/ffmpeg_runner.py: the map   *)
(* _processes from device ids to subprocess handles, the operating-system  *)
(* processes behind the handles, and start_stream and stop_stream as       *)
(* the steps asyncio can interleave.                                       *)
(*                                                                         *)
(* Three tasks call stop_stream: the reconciliation tick, the              *)
(* authentication callback (run by the WSS task) and the shutdown (main).  *)
(* A call pops the handle at once and then awaits the exit of the process; *)
(* stopping[t] is the handle whose exit task t is awaiting.  Nobody else   *)
(* refers to that process any more.                                        *)
(*                                                                         *)
(* Handles come from a pool Procs and go back to it when their process has *)
(* exited and nobody refers to them.  Every device holds at most one       *)
(* handle, every task at most one more, so with the assumed pool size a    *)
(* spawn never waits for a handle.                                         *)
(***************************************************************************)
EXTENDS DeviceItems

CONSTANTS
  Procs,        \* pool of subprocess handles
  None          \* no handle

Tasks == {"tick", "wss", "main"}

ASSUME RunnerAssumption ==
  /\ IsFiniteSet(Procs)
  /\ Cardinality(Procs) >= Cardinality(Devices) + 2
  /\ None \notin Procs \union Devices

VARIABLES
  processes,    \* _processes: the handle of each device, None when absent
  proc,         \* per handle: state of the OS process, its device, its URL
  stopping      \* per task: the handle stop_stream awaits, or None

runnerVars == <<processes, proc, stopping>>

(***************************************************************************)
(* The stream name ends in the Server's device id, 0 being the             *)
(* placeholder; a process is described by the id in its URL.               *)
(*                                                                         *)
(* A process has exited when its returncode is set, which start_stream and *)
(* the tick test.  asyncio wakes a wait() already begun only when all its  *)
(* pipes are closed too.  Nobody reads stderr while ffmpeg runs: once more *)
(* than the buffer is written to it, its transport is paused and does not  *)
(* see the end of the pipe (ChildPipe).  "silent" is a process that exited *)
(* like that after SIGKILL: the wait() that follows kill() never returns.  *)
(***************************************************************************)
Status == {"live", "termed", "killed", "exited", "silent"}
NoProc == [st |-> "none", dev |-> None, url |-> 0]
ProcRecord == [st : Status, dev : Devices, url : Ids \union {0}]

Alive(p) == proc[p].st \in {"live", "termed", "killed"}

\* list_running(): the devices with an entry in _processes.
Tracked == {d \in Devices : processes[d] # None}

\* The returncode of the handle is set: the event loop has seen the exit.
Exited(p) == proc[p].st \in {"exited", "silent"}

RunnerInit ==
  /\ processes = [d \in Devices |-> None]
  /\ proc = [p \in Procs |-> NoProc]
  /\ stopping = [t \in Tasks |-> None]

-----------------------------------------------------------------------------
(***************************************************************************)
(* Start.  create_subprocess_exec returned a handle; start_stream stores   *)
(* it under the device id, over whatever is there.                         *)
(***************************************************************************)
Spawn(d, u) ==
  LET p == CHOOSE q \in Procs : proc[q] = NoProc
  IN  /\ \E q \in Procs : proc[q] = NoProc
      /\ proc' = [proc EXCEPT ![p] = [st |-> "live", dev |-> d, url |-> u]]
      /\ processes' = [processes EXCEPT ![d] = p]
      /\ UNCHANGED stopping

(***************************************************************************)
(* stop_stream(d) called by task t, up to its first await.  Nothing to     *)
(* pop: return.  The process has exited: terminate() raises                *)
(* ProcessLookupError or does nothing, and wait(), begun with a returncode *)
(* at hand, returns at once.  Otherwise SIGTERM it and await its exit.     *)
(***************************************************************************)
StopAbsent(d) ==
  /\ processes[d] = None
  /\ UNCHANGED runnerVars

StopExited(d) ==
  /\ processes[d] # None
  /\ Exited(processes[d])
  /\ processes' = [processes EXCEPT ![d] = None]
  /\ proc' = [proc EXCEPT ![processes[d]] = NoProc]
  /\ UNCHANGED stopping

\* Mutant of StopAlive: the entry is popped only after the wait.
StopAliveKeepsEntry(t, d) ==
  /\ processes[d] # None
  /\ ~Exited(processes[d])
  /\ proc' = [proc EXCEPT ![processes[d]].st = "termed"]
  /\ stopping' = [stopping EXCEPT ![t] = processes[d]]
  /\ UNCHANGED processes

\* Mutant of StopAlive: the process is told to end and not awaited.
StopAliveReturns(t, d) ==
  /\ processes[d] # None
  /\ ~Exited(processes[d])
  /\ processes' = [processes EXCEPT ![d] = None]
  /\ proc' = [proc EXCEPT ![processes[d]].st = "termed"]
  /\ UNCHANGED stopping

StopAlive(t, d) ==
  /\ processes[d] # None
  /\ ~Exited(processes[d])
  /\ processes' = [processes EXCEPT ![d] = None]
  /\ proc' = [proc EXCEPT ![processes[d]].st = "termed"]
  /\ stopping' = [stopping EXCEPT ![t] = processes[d]]

StopStream(t, d) == StopAbsent(d) \/ StopExited(d) \/ StopAlive(t, d)

\* Mutant of StopTimeout: the process is awaited without a kill.
StopNeverKills(t) == stopping[t] # None /\ UNCHANGED runnerVars

(***************************************************************************)
(* wait() did not return within _STOP_TIMEOUT: kill() and wait again.  If  *)
(* the process has exited meanwhile and only its pipe kept the first wait  *)
(* from returning, the second one returns at once: StopReturns.            *)
(***************************************************************************)
StopTimeout(t) ==
  /\ stopping[t] # None
  /\ proc[stopping[t]].st = "termed"
  /\ proc' = [proc EXCEPT ![stopping[t]].st = "killed"]
  /\ UNCHANGED <<processes, stopping>>

\* wait() returns: the process has exited, stop_stream returns True.
StopReturns(t) ==
  /\ stopping[t] # None
  /\ proc[stopping[t]].st = "exited"
  /\ proc' = [proc EXCEPT ![stopping[t]] = NoProc]
  /\ stopping' = [stopping EXCEPT ![t] = None]
  /\ UNCHANGED processes

\* The wait() of task t will never return; only a cancellation ends it.
Stuck(t) == stopping[t] # None /\ proc[stopping[t]].st = "silent"

(***************************************************************************)
(* The task awaiting in stop_stream is cancelled: CancelledError is not a  *)
(* TimeoutError, so the process is neither killed nor awaited.  A process  *)
(* that has already exited is simply forgotten.                            *)
(***************************************************************************)
Abandon(t) ==
  /\ stopping' = [stopping EXCEPT ![t] = None]
  /\ proc' = IF stopping[t] # None /\ Exited(stopping[t])
               THEN [proc EXCEPT ![stopping[t]] = NoProc] ELSE proc
  /\ UNCHANGED processes

-----------------------------------------------------------------------------
(***************************************************************************)
(* The operating system.  A live process may exit by itself at any time; a *)
(* SIGTERMed one may ignore the signal; a SIGKILLed one exits, silently if *)
(* its stderr had filled up.  The exit is visible only through the handle, *)
(* so a handle nobody refers to returns to the pool.                       *)
(***************************************************************************)
Referenced(p) ==
  (\E d \in Devices : processes[d] = p) \/ (\E t \in Tasks : stopping[t] = p)

ProcExits(p) ==
  /\ Alive(p)
  /\ \E s \in {"exited"} \union (IF proc[p].st = "killed" THEN {"silent"} ELSE {}) :
       proc' = IF Referenced(p) THEN [proc EXCEPT ![p].st = s]
                                ELSE [proc EXCEPT ![p] = NoProc]
  /\ UNCHANGED <<processes, stopping>>

-----------------------------------------------------------------------------
RunnerTypeOK ==
  /\ processes \in [Devices -> Procs \union {None}]
  /\ proc \in [Procs -> ProcRecord \union {NoProc}]
  /\ stopping \in [Tasks -> Procs \union {None}]

(***************************************************************************)
(* Every handle in use has exactly one owner: the entry of its own device  *)
(* in _processes, or one stop_stream call.  Two owners would let one of    *)
(* them stop or reap the process the other believes to be running.         *)
(***************************************************************************)
SingleOwner ==
  /\ \A d \in Devices : processes[d] # None =>
       /\ proc[processes[d]].dev = d
       /\ proc[processes[d]].st \in {"live", "exited"}
       /\ \A t \in Tasks : stopping[t] # processes[d]
  /\ \A t \in Tasks : stopping[t] # None =>
       /\ proc[stopping[t]].st \in {"termed", "killed", "exited", "silent"}
       /\ \A s \in Tasks : stopping[s] = stopping[t] => s = t

=============================================================================
