----------------------------- MODULE StreamNames -----------------------------
(***************************************************************************)
(* The URLs the node pushes to: _sanitize_stream_name and _build_rtmp_url  *)
(* of src/services/ffmpeg_runner.py.  The Server pulls from a URL it       *)
(* builds itself from name, type and database id, so both must agree, and  *)
(* no two streams may meet in one.                                         *)
(*                                                                         *)
(* A name is a sequence of characters, one for each way the four regular   *)
(* expressions treat them; host and port are the same for all streams and  *)
(* left out.  The name of a URL ends where its type begins: neither types  *)
(* nor ids contain an underscore.                                          *)
(***************************************************************************)
EXTENDS Naturals, SequencesExt

CONSTANTS
  Devices,      \* devices of the node
  Letters,      \* letters, digits, dot and dash: kept as they are
  MaxName,      \* bound: length of a name
  Ids           \* database ids of the Server

\* Blank and underscore; another printable character; a character outside ASCII.
Chars == Letters \union {" ", "_", "(", "non-ascii"}

ASSUME StreamNamesAssumption ==
  /\ Letters \intersect {" ", "_", "(", "non-ascii"} = {}
  /\ MaxName \in Nat
  /\ Ids \subseteq Nat \ {0}

VARIABLES
  name, type,   \* of each device
  serverId,     \* its id in the Server's maps, 0 if it is in none
  url           \* the URL of its ffmpeg, if it has one

vars == <<name, type, serverId, url>>

-----------------------------------------------------------------------------
\* The characters of s at the positions in kept, in their order.
Picked(s, kept) ==
  [k \in 1 .. Cardinality(kept) |->
     s[CHOOSE i \in kept : Cardinality({j \in kept : j < i}) = k - 1]]

Without(s, c) == Picked(s, {i \in DOMAIN s : s[i] # c})

Strip(s, c) ==
  LET kept == {i \in DOMAIN s : s[i] # c}
  IN  IF kept = {} THEN <<>> ELSE SubSeq(s, Min(kept), Max(kept))

\* Every blank and every other character becomes an underscore.
Underscored(s) == [i \in DOMAIN s |-> IF s[i] \in Letters THEN s[i] ELSE "_"]

\* Of a run of underscores the first is kept.
Merged(s) == Picked(s, {i \in DOMAIN s : i = 1 \/ s[i] # "_" \/ s[i - 1] # "_"})

Ascii(s) == Without(s, "non-ascii")

\* Mutants of Sanitize: runs of underscores stay; blanks are dropped.
SanitizeRuns(s) == Strip(Underscored(Strip(Ascii(s), " ")), "_")
SanitizeBlanks(s) == Strip(Merged(Underscored(Without(Ascii(s), " "))), "_")

Sanitize(s) == Strip(Merged(Underscored(Strip(Ascii(s), " "))), "_")

Url(d) == <<Sanitize(name[d]), type[d], serverId[d]>>

-----------------------------------------------------------------------------
(***************************************************************************)
(* The maps are dicts from ids to names, one per type: the lookup by name  *)
(* gives devices of one name and type one id, others different ones.       *)
(***************************************************************************)
Maps ==
  {f \in [Devices -> Ids \union {0}] :
     \A d, e \in Devices : type[d] = type[e] =>
       /\ name[d] = name[e] => f[d] = f[e]
       /\ name[d] # name[e] /\ f[d] # 0 => f[d] # f[e]}

Init ==
  /\ name \in [Devices -> SeqOf(Chars, MaxName) \ {<<>>}]
  /\ type \in [Devices -> {"video", "audio"}]
  /\ serverId = [d \in Devices |-> 0]
  /\ url = [d \in Devices |-> <<>>]

Start(d) ==
  /\ url[d] = <<>> /\ url' = [url EXCEPT ![d] = Url(d)]
  /\ UNCHANGED <<name, type, serverId>>

Stop(d) ==
  /\ url[d] # <<>> /\ url' = [url EXCEPT ![d] = <<>>]
  /\ UNCHANGED <<name, type, serverId>>

NewMaps == serverId' \in Maps /\ UNCHANGED <<name, type, url>>

Next == NewMaps \/ \E d \in Devices : Start(d) \/ Stop(d)

Spec == Init /\ [][Next]_vars

Streaming == {d \in Devices : url[d] # <<>>}

-----------------------------------------------------------------------------
(***************************************************************************)
(* A stream name holds the letters of the device name in their order and   *)
(* single underscores between them, nothing else (ffmpeg_runner.py:23-33). *)
(***************************************************************************)
SafeNames ==
  \A d \in Streaming : LET s == url[d][1] IN
    /\ Without(s, "_") = Picked(name[d], {i \in DOMAIN name[d] : name[d][i] \in Letters})
    /\ \A i \in DOMAIN s : s[i] = "_" =>
         i \notin {1, Len(s)} /\ s[i - 1] \in Letters /\ s[i + 1] \in Letters

\* What the Server does: device_name.replace(" ", "_").
ServerName(s) == [i \in DOMAIN s |-> IF s[i] = " " THEN "_" ELSE s[i]]

Spaced(s) == Len(s) > 0 /\ \A i \in DOMAIN s :
  s[i] \in Letters \/ (s[i] = " " /\ 1 < i /\ i < Len(s) /\ s[i - 1] # " ")

(***************************************************************************)
(* For names of letters and single blanks the node pushes to the URL from  *)
(* which the Server pulls (openspec/specs/rtmp-streaming/spec.md:12-24).   *)
(***************************************************************************)
SpacedNamesAgree ==
  \A d \in Streaming : Spaced(name[d]) => url[d][1] = ServerName(name[d])

-----------------------------------------------------------------------------
\* What the documents say and the code does not do.

(***************************************************************************)
(* Every name is normalised by the same rule as in the Server              *)
(* (openspec/specs/rtmp-streaming/spec.md:12-19).                          *)
(***************************************************************************)
NamedAsServer == \A d \in Streaming : url[d][1] = ServerName(name[d])

(***************************************************************************)
(* Two devices of different names never push to one URL (rtmp-streaming/   *)
(* spec.md:5 of the change 2026-07-09-align-wss-with-server-protocol).     *)
(***************************************************************************)
DedicatedUrls ==
  \A d, e \in Streaming : name[d] # name[e] => url[d] # url[e]
=============================================================================
