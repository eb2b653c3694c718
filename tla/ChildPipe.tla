------------------------------ MODULE ChildPipe ------------------------------
(***************************************************************************)
(* The output of a child process: an OS pipe, the asyncio StreamReader the *)
(* event loop fills from it, and who reads that.  The helper servers have  *)
(* a task that drains their output (_drain_stdout, src/app.py); of ffmpeg  *)
(* the stderr is a pipe too (start_stream, src/services/ffmpeg_runner.py)  *)
(* that nobody reads while it runs.  A child that writes to a full pipe is *)
(* blocked.  Output is a sequence of characters, "end" closes a line.      *)
(***************************************************************************)
EXTENDS Naturals, SequencesExt

CONSTANTS
  Drained,      \* a task reads the output
  Limit,        \* the limit of the StreamReader, 64 KiB
  PipeSize,     \* the capacity of the pipe
  MaxLine       \* the longest line the child writes

ASSUME PipeAssumption ==
  Drained \in BOOLEAN /\ Limit \in Nat \ {0} /\ PipeSize \in Nat \ {0} /\ MaxLine \in Nat

VARIABLES
  child,        \* "runs" or "exited"
  column,       \* length of the line being written
  pipe,         \* characters in the pipe
  buffer,       \* characters in the StreamReader
  paused,       \* the transport has stopped reading the pipe
  reader        \* the draining task: "none", "reads" or "ended"

vars == <<child, column, pipe, buffer, paused, reader>>

Init ==
  /\ child = "runs" /\ column = 0 /\ pipe = <<>>
  /\ buffer = <<>> /\ paused = FALSE /\ reader = "none"

Blocked == child = "runs" /\ Len(pipe) = PipeSize

Write ==
  /\ child = "runs" /\ ~Blocked
  /\ \/ pipe' = Append(pipe, "end") /\ column' = 0
     \/ column < MaxLine /\ pipe' = Append(pipe, "char") /\ column' = column + 1
  /\ UNCHANGED <<child, buffer, paused, reader>>

Exit ==
  /\ child = "runs" /\ child' = "exited"
  /\ UNCHANGED <<column, pipe, buffer, paused, reader>>

\* The transport reads what is there and pauses above twice the limit.
Receive ==
  /\ ~paused /\ pipe # <<>>
  /\ buffer' = buffer \o pipe /\ pipe' = <<>>
  /\ paused' = (Len(buffer') > 2 * Limit)
  /\ UNCHANGED <<child, column, reader>>

-----------------------------------------------------------------------------
\* Mutant of DrainStarts: the output is only read once the child has exited.
DrainOnExit ==
  /\ Drained /\ reader = "none" /\ child = "exited" /\ reader' = "reads"
  /\ UNCHANGED <<child, column, pipe, buffer, paused>>

DrainStarts ==
  /\ Drained /\ reader = "none" /\ reader' = "reads"
  /\ UNCHANGED <<child, column, pipe, buffer, paused>>

LineEnd == SelectInSeq(buffer, LAMBDA c : c = "end")

\* Reading takes the characters from the buffer and resumes the transport.
Taken(n) ==
  /\ buffer' = SubSeq(buffer, n + 1, Len(buffer))
  /\ paused' = (paused /\ Len(buffer') > Limit)

HasLine == LineEnd \in 1 .. Limit + 1

\* A line longer than the limit, complete or not.
TooLong == LineEnd > Limit + 1 \/ (LineEnd = 0 /\ Len(buffer) > Limit)

\* Mutant of ReadLine: an empty line ends the task like the end of the output.
EmptyLineEnds ==
  /\ reader = "reads" /\ HasLine
  /\ Taken(LineEnd)
  /\ reader' = IF LineEnd = 1 THEN "ended" ELSE "reads"
  /\ UNCHANGED <<child, column, pipe>>

ReadLine ==
  /\ reader = "reads" /\ HasLine
  /\ Taken(LineEnd)
  /\ UNCHANGED <<child, column, pipe, reader>>

(***************************************************************************)
(* readline() drops a line that is too long and raises, and the except     *)
(* clause around the loop ends the task.                                   *)
(***************************************************************************)
LineTooLong ==
  /\ reader = "reads" /\ TooLong
  /\ Taken(IF LineEnd > 0 THEN LineEnd ELSE Len(buffer))
  /\ reader' = "ended"
  /\ UNCHANGED <<child, column, pipe>>

\* The return code is set, or readline() meets the end of the output.
DrainEnds ==
  /\ reader = "reads" /\ child = "exited" /\ reader' = "ended"
  /\ UNCHANGED <<child, column, pipe, buffer, paused>>

Next == Write \/ Exit \/ Receive \/ DrainStarts \/ ReadLine \/ LineTooLong \/ DrainEnds

Spec == Init /\ [][Next]_vars

\* The event loop runs its transports and tasks; of the child nothing is assumed.
FairSpec ==
  /\ Spec
  /\ WF_vars(Receive) /\ WF_vars(DrainStarts)
  /\ WF_vars(ReadLine) /\ WF_vars(LineTooLong) /\ WF_vars(DrainEnds)

-----------------------------------------------------------------------------
(***************************************************************************)
(* As long as the draining task has not ended, the child is never blocked  *)
(* for good by what it has written, also before the task has started: the  *)
(* pipe, the pause of the transport and the reader always come apart again *)
(* (app.py:176-190,225-226).                                               *)
(***************************************************************************)
DrainedNeverStuck == []<>(~Blocked \/ reader = "ended")

(***************************************************************************)
(* The draining task ends before its child only over a line longer than    *)
(* the limit, never over an empty or a partial one (app.py:181-190).       *)
(***************************************************************************)
EndsForCause ==
  [][reader = "reads" /\ reader' = "ended" /\ child = "runs" =>
       Len(buffer) > Limit /\ \A i \in 1 .. Limit + 1 : buffer[i] # "end"]_vars

-----------------------------------------------------------------------------
\* What the program needs of ffmpeg and does not see to.

(***************************************************************************)
(* A stream in _processes goes on: its ffmpeg is never blocked for good by *)
(* what it has written (openspec/specs/rtmp-streaming/spec.md:48-49).      *)
(***************************************************************************)
NeverStuck == []<>~Blocked
=============================================================================
