----------------------- MODULE CaptureCommand_proofs -----------------------
(***************************************************************************)
(* Proofs about the commands, for any ffmpeg, any lists of preferences and *)
(* any number of cameras.  All cameras are encoded alike: once a camera    *)
(* films the probe has been asked, its answer never changes, and the       *)
(* encoder of each follows from it.  Each films in the best of its modes:  *)
(* the scores are ordered, so that a list has a first best mode, and what  *)
(* a camera offers does not change while it films.                         *)
(***************************************************************************)
EXTENDS CaptureCommand, TLAPS, WellFoundedInduction

Encoder == PickEncoder(VideoPriority, detected, "mpeg4")

EncoderInv ==
  /\ DOMAIN command = Devices
  /\ \A c \in Filming : asked /\ command[c].encoder = Encoder

LEMMA VideoKeeps ==
  ASSUME EncoderInv, NEW c, VideoCommand(c)
  PROVE  EncoderInv'
<1>1. /\ c \in Devices /\ asked' = TRUE
      /\ asked => detected' = detected
  BY DEF VideoCommand, Detect, Devices
<1>2. PICK mode :
        command' = [command EXCEPT ![c] = [encoder |-> Encoder', mode |-> mode]]
  BY DEF VideoCommand, Encoder
<1>3. DOMAIN command' = Devices
  BY <1>2 DEF EncoderInv
<1>4. command'[c].encoder = Encoder'
  BY <1>1, <1>2 DEF EncoderInv
<1>5. ASSUME NEW d \in Filming', d # c
      PROVE  command'[d].encoder = Encoder'
  <2>1. d \in Filming /\ command'[d] = command[d]
    BY <1>2, <1>5 DEF Filming, EncoderInv, Devices
  <2>2. asked /\ command[d].encoder = Encoder
    BY <2>1 DEF EncoderInv
  <2>3. Encoder' = Encoder
    BY <1>1, <2>2 DEF Encoder
  <2>. QED  BY <2>1, <2>2, <2>3
<1>. QED  BY <1>1, <1>3, <1>4, <1>5 DEF EncoderInv

\* A microphone that is no camera, and a stop, leave the cameras alone.
LEMMA OtherKeeps ==
  ASSUME EncoderInv, Cameras \intersect Microphones = {},
         NEW d, AudioCommand(d) \/ Stop(d) \/ Replug(d)
  PROVE  EncoderInv'
<1>1. DOMAIN command' = Devices /\ (asked => asked' /\ detected' = detected)
  BY DEF AudioCommand, Stop, Replug, Detect, EncoderInv
<1>2. ASSUME NEW c \in Filming'
      PROVE  c \in Filming /\ command'[c] = command[c]
  BY <1>2 DEF AudioCommand, Stop, Replug, Filming, EncoderInv, Devices
<1>3. ASSUME NEW c \in Filming'
      PROVE  asked' /\ command'[c].encoder = Encoder'
  <2>1. asked /\ command[c].encoder = Encoder /\ command'[c] = command[c]
    BY <1>2 DEF EncoderInv
  <2>2. Encoder' = Encoder
    BY <1>1, <2>1 DEF Encoder
  <2>. QED  BY <1>1, <2>1, <2>2
<1>. QED  BY <1>1, <1>3 DEF EncoderInv

LEMMA StepKeeps ==
  ASSUME EncoderInv, [Next]_vars
  PROVE  EncoderInv'
<1>1. ASSUME UNCHANGED vars  PROVE EncoderInv'
  BY <1>1 DEF vars, EncoderInv, Filming, Encoder
<1>. QED  BY <1>1, VideoKeeps, OtherKeeps, CaptureAssumption DEF Next, CaptureAssumption

(***************************************************************************)
(* All cameras are encoded alike (encoder_resolver.py:25-49).              *)
(***************************************************************************)
THEOREM OneEncoderHolds == Spec => []OneEncoder
<1>1. Init => EncoderInv
  BY DEF Init, EncoderInv, Filming, Devices
<1>2. EncoderInv => OneEncoder
  BY DEF EncoderInv, OneEncoder
<1>. QED  BY <1>1, <1>2, StepKeeps, PTL DEF Spec

-----------------------------------------------------------------------------
(***************************************************************************)
(* The order of the scores.                                                *)
(***************************************************************************)

\* A non-empty set of natural numbers has a least element.
LEMMA LeastNumber ==
  ASSUME NEW T \in SUBSET Nat, T # {}
  PROVE  \E x \in T : \A y \in T : x <= y
<1>. DEFINE R == OpToRel(<, Nat)
<1>1. \A x, y \in Nat : y < x => <<y, x>> \in R
  BY Zenon DEF OpToRel
<1>2. \E x \in T : \A y \in T : <<y, x>> \notin R
  <2>1. IsWellFoundedOn(R, Nat)
    BY NatLessThanWellFounded, Zenon
  <2>. HIDE DEF R
  <2>. QED  BY <2>1, WFMin, Zenon
<1>. HIDE DEF R
<1>3. \E x \in T : \A y \in T : ~ (y < x)
  BY <1>1, <1>2, Zenon
<1>. QED  BY <1>3

Scores == {<<a, b, c, d>> : a \in Int, b \in Int, c \in Int, d \in Int}

LEMMA RankType ==
  ASSUME NEW S, NEW preferred \in Seq(S), NEW value
  PROVE  Rank(value, preferred) \in Nat
<1>. DEFINE I == {i \in 1 .. Len(preferred) : preferred[i] = value}
<1>1. Len(preferred) \in Nat
  OBVIOUS
<1>2. CASE I = {}
  BY <1>1, <1>2 DEF Rank, SelectInSeq
<1>3. CASE I # {}
  <2>1. I \in SUBSET Nat
    BY <1>1
  <2>2. PICK x \in I : \A y \in I : x <= y
    BY <1>3, <2>1, LeastNumber
  <2>3. Min(I) \in I
    BY <2>2 DEF Min
  <2>. HIDE DEF I
  <2>4. Min(I) \in Nat /\ Min(I) # 0
    BY <2>3 DEF I
  <2>5. Rank(value, preferred) = Min(I) - 1
    BY <1>3, <2>4, Zenon DEF Rank, SelectInSeq, I
  <2>. QED  BY <2>4, <2>5
<1>. QED  BY <1>2, <1>3

LEMMA ScoreType ==
  ASSUME NEW mode \in Modes
  PROVE  Score(mode) \in Scores /\ Score(mode)[1] = Rank(mode.size, PreferredSizes)
<1>1. /\ Rank(mode.size, PreferredSizes) \in Int /\ Rank(mode.rate, PreferredRates) \in Int
      /\ Rank(mode.format, PreferredFormats) \in Int
  BY RankType, CaptureAssumption DEF CaptureAssumption
<1>2. - mode.rate \in Int
  BY DEF Modes
<1>. QED  BY <1>1, <1>2 DEF Score, Scores

LEMMA LessIsLexicographic ==
  ASSUME NEW s \in Scores, NEW t \in Scores
  PROVE  Less(s, t) <=>
           \/ s[1] < t[1]
           \/ s[1] = t[1] /\ s[2] < t[2]
           \/ s[1] = t[1] /\ s[2] = t[2] /\ s[3] < t[3]
           \/ s[1] = t[1] /\ s[2] = t[2] /\ s[3] = t[3] /\ s[4] < t[4]
<1>1. DOMAIN s = 1 .. 4
  BY DEF Scores
<1>2. 1 .. 4 = {1, 2, 3, 4}
  OBVIOUS
<1>3. 1 .. 1 - 1 = {} /\ 1 .. 2 - 1 = {1} /\ 1 .. 3 - 1 = {1, 2} /\ 1 .. 4 - 1 = {1, 2, 3}
  OBVIOUS
<1>. QED  BY <1>1, <1>2, <1>3, Zenon DEF Less

LEMMA ScoresOrdered ==
  ASSUME NEW s \in Scores, NEW t \in Scores, NEW u \in Scores
  PROVE  /\ ~ Less(s, s)
         /\ Less(s, t) => ~ Less(t, s)
         /\ Less(s, t) /\ ~ Less(u, t) => Less(s, u)
<1>1. \A x \in {s, t, u} : x[1] \in Int /\ x[2] \in Int /\ x[3] \in Int /\ x[4] \in Int
  BY DEF Scores
<1>. QED  BY <1>1, LessIsLexicographic

-----------------------------------------------------------------------------
(***************************************************************************)
(* Every list of modes has a first best one: it is found mode by mode.     *)
(***************************************************************************)
First(modes, n, k) ==
  /\ k \in 1 .. n
  /\ \A j \in 1 .. n : /\ ~ Less(Score(modes[j]), Score(modes[k]))
                       /\ j < k => Less(Score(modes[k]), Score(modes[j]))

LEMMA FirstOfMore ==
  ASSUME NEW modes \in Seq(Modes), NEW n \in Nat, n + 1 <= Len(modes), NEW k, First(modes, n, k)
  PROVE  \E l : First(modes, n + 1, l)
<1>1. \A i \in 1 .. n + 1 : Score(modes[i]) \in Scores
  BY ScoreType
<1>2. k \in 1 .. n + 1 /\ n + 1 \in 1 .. n + 1 /\ \A i \in 1 .. n : i \in 1 .. n + 1
  BY DEF First
<1>3. \A i \in 1 .. n + 1 : i = n + 1 \/ (i \in 1 .. n /\ i < n + 1)
  OBVIOUS
<1>4. CASE Less(Score(modes[n + 1]), Score(modes[k]))
  <2>1. \A j \in 1 .. n : Less(Score(modes[n + 1]), Score(modes[j]))
    BY <1>1, <1>2, <1>4, ScoresOrdered DEF First
  <2>2. \A j \in 1 .. n : ~ Less(Score(modes[j]), Score(modes[n + 1]))
    BY <1>1, <1>2, <2>1, ScoresOrdered
  <2>3. ~ Less(Score(modes[n + 1]), Score(modes[n + 1]))
    BY <1>1, <1>2, ScoresOrdered
  <2>4. First(modes, n + 1, n + 1)
    BY <1>2, <1>3, <2>1, <2>2, <2>3 DEF First
  <2>. QED  BY <2>4
<1>5. CASE ~ Less(Score(modes[n + 1]), Score(modes[k]))
  <2>1. ~ (n + 1 < k)
    BY DEF First
  <2>2. First(modes, n + 1, k)
    BY <1>2, <1>3, <1>5, <2>1 DEF First
  <2>. QED  BY <2>2
<1>. QED  BY <1>4, <1>5

LEMMA FirstExists ==
  ASSUME NEW modes \in Seq(Modes), modes # <<>>
  PROVE  \E k : First(modes, Len(modes), k)
<1>. DEFINE Bad == {n \in 1 .. Len(modes) : ~ \E k : First(modes, n, k)}
<1>1. Len(modes) \in Nat /\ Len(modes) # 0
  OBVIOUS
<1>2. ASSUME Bad # {}  PROVE FALSE
  <2>1. Bad \in SUBSET Nat
    OBVIOUS
  <2>2. PICK b \in Bad : \A n \in Bad : b <= n
    BY <1>2, <2>1, LeastNumber, Zenon
  <2>3. b \in 1 .. Len(modes) /\ ~ \E k : First(modes, b, k)
    OBVIOUS
  <2>4. b # 1
    <3>1. Score(modes[1]) \in Scores
      BY <1>1, ScoreType
    <3>2. First(modes, 1, 1)
      BY <3>1, ScoresOrdered DEF First
    <3>. QED  BY <2>3, <3>2
  <2>5. b - 1 \in Nat /\ b - 1 \in 1 .. Len(modes) /\ (b - 1) + 1 = b /\ b - 1 < b
    BY <1>1, <2>3, <2>4
  <2>6. b - 1 \notin Bad
    BY <2>2, <2>5
  <2>7. PICK k : First(modes, b - 1, k)
    BY <2>5, <2>6
  <2>. HIDE DEF Bad
  <2>8. \E l : First(modes, (b - 1) + 1, l)
    BY <1>1, <2>3, <2>5, <2>7, FirstOfMore
  <2>. QED  BY <2>3, <2>5, <2>8
<1>3. Len(modes) \in 1 .. Len(modes)
  BY <1>1
<1>4. Len(modes) \notin Bad
  BY <1>2, Zenon
<1>. QED  BY <1>3, <1>4, Zenon

\* What SelectMode returns is offered, and no offered size is preferred to it.
LEMMA SelectedMode ==
  ASSUME NEW modes \in Seq(Modes), modes # <<>>
  PROVE  /\ SelectMode(modes) \in ToSet(modes)
         /\ \A i \in DOMAIN modes :
              Rank(SelectMode(modes).size, PreferredSizes) <= Rank(modes[i].size, PreferredSizes)
<1>. DEFINE best == CHOOSE k \in DOMAIN modes : \A j \in DOMAIN modes :
               /\ ~ Less(Score(modes[j]), Score(modes[k]))
               /\ j < k => Less(Score(modes[k]), Score(modes[j]))
<1>1. DOMAIN modes = 1 .. Len(modes)
  OBVIOUS
<1>2. PICK k : First(modes, Len(modes), k)
  BY FirstExists
<1>3. best \in DOMAIN modes /\ \A j \in DOMAIN modes : ~ Less(Score(modes[j]), Score(modes[best]))
  BY <1>1, <1>2, Zenon DEF First
<1>4. SelectMode(modes) = modes[best]
  BY DEF SelectMode
<1>. HIDE DEF best
<1>5. ASSUME NEW i \in DOMAIN modes
      PROVE  Rank(modes[best].size, PreferredSizes) <= Rank(modes[i].size, PreferredSizes)
  <2>1. modes[i] \in Modes /\ modes[best] \in Modes
    BY <1>3
  <2>2. Score(modes[i]) \in Scores /\ Score(modes[best]) \in Scores
    BY <2>1, ScoreType
  <2>3. ~ (Score(modes[i])[1] < Score(modes[best])[1])
    BY <1>3, <2>2, LessIsLexicographic
  <2>4. Score(modes[i])[1] \in Int /\ Score(modes[best])[1] \in Int
    BY <2>2 DEF Scores
  <2>. QED  BY <2>1, <2>3, <2>4, ScoreType
<1>6. modes[best] \in ToSet(modes)
  BY <1>3 DEF ToSet
<1>. QED  BY <1>4, <1>5, <1>6

-----------------------------------------------------------------------------
(***************************************************************************)
(* A camera films in the mode that was selected from what it offers now.   *)
(***************************************************************************)
ModeInv ==
  /\ DOMAIN command = Devices /\ DOMAIN failed = Cameras
  /\ offer \in [Cameras -> Offers]
  /\ \A c \in Filming : ~ failed[c] => command[c].mode = SelectMode(offer[c])

LEMMA VideoSelects ==
  ASSUME ModeInv, NEW c, VideoCommand(c)
  PROVE  ModeInv'
<1>. USE DEF ModeInv
<1>1. c \in Cameras /\ c \in Devices /\ UNCHANGED offer
  BY DEF VideoCommand, Devices
<1>2. PICK fails \in BOOLEAN :
        /\ failed' = [failed EXCEPT ![c] = fails]
        /\ command' = [command EXCEPT ![c] =
             [encoder |-> PickEncoder(VideoPriority, detected', "mpeg4"),
              mode |-> SelectMode(IF fails THEN <<>> ELSE offer[c])]]
  BY DEF VideoCommand
<1>3. failed'[c] = fails /\ command'[c].mode = SelectMode(IF fails THEN <<>> ELSE offer[c])
  BY <1>1, <1>2
<1>4. \A d \in Cameras : d # c => failed'[d] = failed[d] /\ command'[d] = command[d]
  BY <1>2 DEF Devices
<1>5. ASSUME NEW d \in Filming', ~ failed'[d]
      PROVE  command'[d].mode = SelectMode(offer'[d])
  BY <1>1, <1>3, <1>4, <1>5 DEF Filming
<1>6. DOMAIN command' = Devices /\ DOMAIN failed' = Cameras
  BY <1>2
<1>. QED  BY <1>1, <1>5, <1>6

LEMMA OtherSelects ==
  ASSUME ModeInv, Cameras \intersect Microphones = {},
         NEW d, AudioCommand(d) \/ Stop(d) \/ Replug(d)
  PROVE  ModeInv'
<1>. USE DEF ModeInv
<1>1. UNCHANGED failed /\ DOMAIN command' = Devices /\ offer' \in [Cameras -> Offers]
  BY DEF AudioCommand, Stop, Replug
<1>2. ASSUME NEW c \in Filming'
      PROVE  c \in Filming /\ command'[c] = command[c] /\ offer'[c] = offer[c]
  <2>1. c \in Cameras /\ c \in Devices /\ command'[c] # Idle
    BY DEF Filming, Devices
  <2>2. CASE AudioCommand(d)
    BY <2>1, <2>2 DEF AudioCommand, Filming
  <2>3. CASE Stop(d)
    BY <2>1, <2>3 DEF Stop, Filming
  <2>4. CASE Replug(d)
    BY <2>1, <2>4 DEF Replug, Filming
  <2>. QED  BY <2>2, <2>3, <2>4
<1>. QED  BY <1>1, <1>2

LEMMA StepSelects ==
  ASSUME ModeInv, [Next]_vars
  PROVE  ModeInv'
<1>1. ASSUME UNCHANGED vars  PROVE ModeInv'
  BY <1>1 DEF vars, ModeInv, Filming
<1>. QED  BY <1>1, VideoSelects, OtherSelects, CaptureAssumption DEF Next, CaptureAssumption

LEMMA SelectedOffered == ModeInv => ModeOffered
<1>. SUFFICES ASSUME ModeInv, NEW c \in Filming, ~ failed[c], offer[c] # <<>>
     PROVE  /\ command[c].mode \in ToSet(offer[c])
            /\ \A i \in DOMAIN offer[c] :
                 Rank(command[c].mode.size, PreferredSizes)
                   <= Rank(offer[c][i].size, PreferredSizes)
  BY DEF ModeOffered
<1>1. command[c].mode = SelectMode(offer[c])
  BY DEF ModeInv
<1>2. offer[c] \in Seq(Modes)
  BY CaptureAssumption DEF ModeInv, Filming, CaptureAssumption
<1>. QED  BY <1>1, <1>2, SelectedMode

(***************************************************************************)
(* Whatever is preferred and offered, a camera whose probe did not fail is *)
(* opened in a mode that it offers, and in the first of the preferred      *)
(* sizes that it offers at all (ffmpeg_dshow.py:117-128).                  *)
(***************************************************************************)
THEOREM ModeOfferedHolds == Spec => []ModeOffered
<1>1. Init => ModeInv
  BY DEF Init, ModeInv, Filming, Devices
<1>. QED  BY <1>1, SelectedOffered, StepSelects, PTL DEF Spec
=============================================================================
