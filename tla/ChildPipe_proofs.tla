-------------------------- MODULE ChildPipe_proofs --------------------------
(***************************************************************************)
(* Proofs about the output of a child process, for every limit, capacity   *)
(* and length of a line: a buffer that makes the draining task give up     *)
(* holds more than the limit, and its first line ends beyond it, if it     *)
(* does.                                                                   *)
(***************************************************************************)
EXTENDS ChildPipe, TLAPS, SequenceTheorems, WellFoundedInduction

Characters == {"char", "end"}

PipeInv == pipe \in Seq(Characters) /\ buffer \in Seq(Characters)

LEMMA LimitType == Limit \in Nat /\ Limit > 0 /\ PipeSize \in Nat
  BY PipeAssumption DEF PipeAssumption

\* A non-empty set of natural numbers has a least element.
LEMMA LeastColumn ==
  ASSUME NEW T \in SUBSET Nat, T # {}
  PROVE  \E x \in T : \A y \in T : x <= y
<1>. DEFINE R == OpToRel(<, Nat)
<1>1. \A x, y \in Nat : y < x => <<y, x>> \in R
  BY Zenon DEF OpToRel
<1>2. \E x \in T : \A y \in T : <<y, x>> \notin R
  <2>1. IsWellFoundedOn(R, Nat)
    BY NatLessThanWellFounded, Zenon
  <2>. HIDE DEF R
  <2>. QED  BY <2>1, WFMin, Zenon
<1>. HIDE DEF R
<1>3. \E x \in T : \A y \in T : ~ (y < x)
  BY <1>1, <1>2, Zenon
<1>. QED  BY <1>3

\* LineEnd is the end of the first line of the buffer, or 0 if it has none.
LEMMA LineEndFacts ==
  ASSUME buffer \in Seq(Characters)
  PROVE  /\ LineEnd \in 0 .. Len(buffer)
         /\ \A i \in 1 .. Len(buffer) : buffer[i] = "end" => LineEnd # 0 /\ LineEnd <= i
<1>. DEFINE I == {i \in 1 .. Len(buffer) : buffer[i] = "end"}
<1>1. Len(buffer) \in Nat
  BY LenProperties
<1>2. CASE I = {}
  <2>1. LineEnd = 0
    BY <1>2 DEF LineEnd, SelectInSeq
  <2>. QED  BY <1>1, <1>2, <2>1
<1>3. CASE I # {}
  <2>1. I \in SUBSET Nat
    OBVIOUS
  <2>2. PICK x \in I : \A y \in I : x <= y
    BY <1>3, <2>1, LeastColumn, Zenon
  <2>3. Min(I) \in I /\ \A y \in I : Min(I) <= y
    BY <2>2, Zenon DEF Min
  <2>4. LineEnd = Min(I)
    BY <1>3, Zenon DEF LineEnd, SelectInSeq
  <2>. HIDE DEF I
  <2>5. LineEnd \in I /\ \A y \in I : LineEnd <= y
    BY <2>3, <2>4, Zenon
  <2>6. I \subseteq 1 .. Len(buffer)
    BY DEF I
  <2>7. LineEnd \in 1 .. Len(buffer)
    BY <2>5, <2>6, Zenon
  <2>8. \A i \in 1 .. Len(buffer) : buffer[i] = "end" => LineEnd <= i
    BY <2>5, Zenon DEF I
  <2>9. LineEnd \in 0 .. Len(buffer) /\ LineEnd # 0
    BY <1>1, <2>7
  <2>. QED  BY <2>8, <2>9, Zenon
<1>. QED  BY <1>2, <1>3

-----------------------------------------------------------------------------
LEMMA InitPipe == Init => PipeInv
  BY DEF Init, PipeInv

\* What is left after a read.
LEMMA TakenKeeps ==
  ASSUME PipeInv, NEW n \in 0 .. Len(buffer), Taken(n)
  PROVE  buffer' \in Seq(Characters)
<1>1. buffer \in Seq(Characters) /\ Len(buffer) \in Nat
  BY LenProperties DEF PipeInv
<1>2. \A i \in n + 1 .. Len(buffer) : buffer[i] \in Characters
  BY <1>1
<1>3. n + 1 \in Int /\ Len(buffer) \in Int
  BY <1>1
<1>4. SubSeq(buffer, n + 1, Len(buffer)) \in Seq(Characters)
  BY <1>2, <1>3, SubSeqProperties
<1>. QED  BY <1>4 DEF Taken

LEMMA NextPipe == PipeInv /\ [Next]_vars => PipeInv'
<1>. SUFFICES ASSUME PipeInv, [Next]_vars  PROVE PipeInv'
  OBVIOUS
<1>1. /\ pipe \in Seq(Characters) /\ buffer \in Seq(Characters)
      /\ Len(pipe) \in Nat /\ Len(buffer) \in Nat
  BY LenProperties DEF PipeInv
<1>2. CASE Write
  <2>1. pipe' = Append(pipe, "end") \/ pipe' = Append(pipe, "char")
    BY <1>2 DEF Write
  <2>2. pipe' \in Seq(Characters)
    BY <1>1, <2>1, AppendProperties DEF Characters
  <2>. QED  BY <1>2, <2>2 DEF Write, PipeInv
<1>3. CASE Exit
  BY <1>3 DEF Exit, PipeInv
<1>4. CASE Receive
  <2>1. buffer' = buffer \o pipe /\ pipe' = <<>>
    BY <1>4 DEF Receive
  <2>2. buffer' \in Seq(Characters) /\ pipe' \in Seq(Characters)
    BY <1>1, <2>1, ConcatProperties
  <2>. QED  BY <2>2 DEF PipeInv
<1>5. CASE DrainStarts
  BY <1>5 DEF DrainStarts, PipeInv
<1>6. CASE ReadLine
  <2>1. LineEnd \in 0 .. Len(buffer) /\ Taken(LineEnd) /\ UNCHANGED pipe
    BY <1>1, <1>6, LineEndFacts DEF ReadLine
  <2>. QED  BY <2>1, TakenKeeps DEF PipeInv
<1>7. CASE LineTooLong
  <2>. DEFINE n == IF LineEnd > 0 THEN LineEnd ELSE Len(buffer)
  <2>1. n \in 0 .. Len(buffer)
    BY <1>1, LineEndFacts
  <2>2. Taken(n) /\ UNCHANGED pipe
    BY <1>7 DEF LineTooLong
  <2>. HIDE DEF n
  <2>. QED  BY <2>1, <2>2, TakenKeeps DEF PipeInv
<1>8. CASE DrainEnds
  BY <1>8 DEF DrainEnds, PipeInv
<1>9. CASE UNCHANGED vars
  BY <1>9 DEF vars, PipeInv
<1>. QED  BY <1>2, <1>3, <1>4, <1>5, <1>6, <1>7, <1>8, <1>9 DEF Next

LEMMA PipeAlways == Spec => []PipeInv
  BY InitPipe, NextPipe, PTL DEF Spec

-----------------------------------------------------------------------------
LEMMA StepCause ==
  PipeInv /\ [Next]_vars =>
    (reader = "reads" /\ reader' = "ended" /\ child = "runs" =>
       Len(buffer) > Limit /\ \A i \in 1 .. Limit + 1 : buffer[i] # "end")
<1>. SUFFICES ASSUME PipeInv, [Next]_vars, reader = "reads", reader' = "ended", child = "runs"
     PROVE  Len(buffer) > Limit /\ \A i \in 1 .. Limit + 1 : buffer[i] # "end"
  OBVIOUS
<1>1. LineTooLong
  BY DEF Next, Write, Exit, Receive, DrainStarts, ReadLine, DrainEnds, vars
<1>2. TooLong
  BY <1>1 DEF LineTooLong
<1>3. buffer \in Seq(Characters) /\ Len(buffer) \in Nat
  BY LenProperties DEF PipeInv
<1>4. /\ LineEnd \in 0 .. Len(buffer)
      /\ \A i \in 1 .. Len(buffer) : buffer[i] = "end" => LineEnd # 0 /\ LineEnd <= i
  BY <1>3, LineEndFacts
<1>5. Len(buffer) > Limit
  BY <1>2, <1>3, <1>4, LimitType DEF TooLong
<1>6. ASSUME NEW i \in 1 .. Limit + 1, buffer[i] = "end"  PROVE FALSE
  <2>1. i \in 1 .. Len(buffer) /\ i <= Limit + 1
    BY <1>3, <1>5, LimitType
  <2>2. LineEnd # 0 /\ LineEnd <= i
    BY <1>4, <1>6, <2>1, Zenon
  <2>. QED  BY <1>2, <1>3, <1>4, <2>1, <2>2, LimitType DEF TooLong
<1>. QED  BY <1>5, <1>6

(***************************************************************************)
(* The draining task ends before its child only over a line longer than    *)
(* the limit, whatever the limit is (app.py:181-190).                      *)
(***************************************************************************)
THEOREM EndsForCauseHolds == Spec => EndsForCause
  BY PipeAlways, StepCause, PTL DEF Spec, EndsForCause
=============================================================================
