--------------------------- MODULE CaptureCommand ---------------------------
(***************************************************************************)
(* The ffmpeg command of a stream on Windows: the encoder is the first of  *)
(* a list that `ffmpeg -encoders` names, asked once                        *)
(* (src/services/capture/encoder_resolver.py), the mode of a camera the    *)
(* best of those it offers, asked at every start, for each start has a     *)
(* driver of its own (src/services/capture/ffmpeg_dshow.py).  Both probes  *)
(* may fail.  What is constant in a command is left out.                   *)
(***************************************************************************)
EXTENDS Integers, SequencesExt

CONSTANTS
  Cameras, Microphones,
  Builds,         \* the sets of encoders an ffmpeg may have
  VideoPriority, AudioPriority,               \* sequences of encoders
  PreferredSizes, PreferredRates, PreferredFormats,
  Offers          \* the lists of modes a camera may have: [size, rate, format]

Modes == [size : STRING, rate : Nat, format : STRING]

\* A device is a camera or a microphone.
ASSUME CaptureAssumption ==
  /\ Cameras \intersect Microphones = {}
  /\ PreferredSizes \in Seq(STRING) /\ PreferredRates \in Seq(Nat)
  /\ PreferredFormats \in Seq(STRING)
  /\ Offers \subseteq Seq(Modes)

VARIABLES
  build,          \* the encoders that `ffmpeg -encoders` names
  asked,          \* _detect_encoders has an answer in its cache
  detected,       \* that answer
  offer,          \* the modes of each camera
  command,        \* the command of each stream
  failed          \* the last probe of the camera has failed

vars == <<build, asked, detected, offer, command, failed>>
Devices == Cameras \union Microphones

Fallback == [size |-> "640x480", rate |-> 30, format |-> "any"]
Idle == [encoder |-> "none", mode |-> Fallback]

Init ==
  /\ build \in Builds /\ asked = FALSE /\ detected = {}
  /\ offer \in [Cameras -> Offers]
  /\ command = [d \in Devices |-> Idle] /\ failed = [c \in Cameras |-> FALSE]

-----------------------------------------------------------------------------
PickEncoder(priority, found, fallback) ==
  LET listed == {i \in DOMAIN priority : priority[i] \in found}
  IN  IF listed = {} THEN fallback ELSE priority[Min(listed)]

\* Mutant of Detect: a probe that has failed is repeated.
DetectAgain ==
  /\ asked' = TRUE
  /\ IF detected = {} THEN detected' \in {build, {}} ELSE UNCHANGED detected

\* lru_cache keeps the empty output of a probe that has failed like any other.
Detect ==
  /\ asked' = TRUE
  /\ IF asked THEN UNCHANGED detected ELSE detected' \in {build, {}}

Rank(value, preferred) ==
  LET i == SelectInSeq(preferred, LAMBDA p : p = value)
  IN  IF i = 0 THEN Len(preferred) ELSE i - 1

Score(mode) ==
  <<Rank(mode.size, PreferredSizes), Rank(mode.rate, PreferredRates),
    Rank(mode.format, PreferredFormats), -mode.rate>>

Less(s, t) == \E i \in DOMAIN s : s[i] < t[i] /\ \A j \in 1 .. i - 1 : s[j] = t[j]

\* Mutant of SelectMode: the size of the fallback is taken for granted.
SelectRate(modes) ==
  IF modes = <<>> THEN Fallback ELSE [Fallback EXCEPT !.rate = modes[1].rate]

\* min() takes the first of the best.
SelectMode(modes) ==
  IF modes = <<>> THEN Fallback
  ELSE modes[CHOOSE k \in DOMAIN modes : \A j \in DOMAIN modes :
               /\ ~ Less(Score(modes[j]), Score(modes[k]))
               /\ j < k => Less(Score(modes[k]), Score(modes[j]))]

VideoCommand(c) ==
  /\ c \in Cameras /\ command[c] = Idle
  /\ \E fails \in BOOLEAN :
       /\ failed' = [failed EXCEPT ![c] = fails]
       /\ Detect
       /\ command' = [command EXCEPT ![c] =
            [encoder |-> PickEncoder(VideoPriority, detected', "mpeg4"),
             mode |-> SelectMode(IF fails THEN <<>> ELSE offer[c])]]
  /\ UNCHANGED <<build, offer>>

AudioCommand(m) ==
  /\ m \in Microphones /\ command[m] = Idle
  /\ Detect
  /\ command' = [command EXCEPT ![m].encoder = PickEncoder(AudioPriority, detected', "aac")]
  /\ UNCHANGED <<build, offer, failed>>

Stop(d) ==
  /\ command[d] # Idle
  /\ command' = [command EXCEPT ![d] = Idle]
  /\ UNCHANGED <<build, asked, detected, offer, failed>>

\* Another camera of that name is plugged in: nothing of the old one is kept.
Replug(c) ==
  /\ c \in Cameras /\ command[c] = Idle
  /\ \E modes \in Offers : offer' = [offer EXCEPT ![c] = modes]
  /\ UNCHANGED <<build, asked, detected, command, failed>>

Next == \E d \in Devices : VideoCommand(d) \/ AudioCommand(d) \/ Stop(d) \/ Replug(d)

Spec == Init /\ [][Next]_vars

-----------------------------------------------------------------------------
Filming == {c \in Cameras : command[c] # Idle}

(***************************************************************************)
(* All cameras are encoded alike, in whatever order they were started and  *)
(* whichever probe failed in between (encoder_resolver.py:27-39).          *)
(***************************************************************************)
OneEncoder == \A c, d \in Filming : command[c].encoder = command[d].encoder

(***************************************************************************)
(* Unless its probe has failed, a camera is opened in a mode that it       *)
(* offers, and in the first of the preferred sizes that it offers at all   *)
(* (ffmpeg_dshow.py:122-135).                                              *)
(***************************************************************************)
ModeOffered ==
  \A c \in Filming : ~failed[c] /\ offer[c] # <<>> =>
    /\ command[c].mode \in ToSet(offer[c])
    /\ \A i \in DOMAIN offer[c] :
         Rank(command[c].mode.size, PreferredSizes) <= Rank(offer[c][i].size, PreferredSizes)

-----------------------------------------------------------------------------
\* What the documents say and the code does not do.

(***************************************************************************)
(* With h264_mf in the output of ffmpeg, it is used                        *)
(* (openspec/specs/dynamic-encoder-selection/spec.md:23-25).               *)
(***************************************************************************)
MfPreferred ==
  \A c \in Filming : "h264_mf" \in detected => command[c].encoder = "h264_mf"
=============================================================================
