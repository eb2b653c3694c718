------------------------------ MODULE DeviceIds ------------------------------
(***************************************************************************)
(* Where the local device ids come from: the capture drivers give one to   *)
(* every line of ffmpeg's device list (parse_device_list and _unique_id,   *)
(* src/services/capture), the command handler gives one to the placeholder *)
(* of a device that only the Server knows.  The registry and the process   *)
(* table are keyed by them.                                                *)
(*                                                                         *)
(* An id is a string; here it is kept in parts: a type, an index, and the  *)
(* text of a name.  A text is a root, the numbers hung on it with dashes   *)
(* ("cam-1" is the root of "cam" with the tail <<1>>), and a form: one of  *)
(* the spellings _slugify maps to the same text, which is Plain.           *)
(***************************************************************************)
EXTENDS Naturals, Sequences, FiniteSets

CONSTANTS
  Drivers,      \* "dshow", "avfoundation", "v4l2", or some of them
  Roots, Forms, \* of texts
  Plain,        \* the form of a text that _slugify leaves as it is
  Keywords,     \* the words "video" and "audio" that a root speaks of
  Lines,        \* lines of a device list: [type, index, path, name]
  ServerNames,  \* the names in the Server's maps
  MaxDevices    \* bound: length of a device list

Texts == [root : Roots, tail : Seq(Nat), form : Forms]    \* names and paths

ASSUME DeviceIdsAssumption ==
  /\ Drivers \subseteq {"dshow", "avfoundation", "v4l2"}
  /\ Plain \in Forms
  /\ Lines \subseteq [type : {"video", "audio", "none"}, index : Nat, path : Texts, name : Texts]
  /\ ServerNames \subseteq Texts
  /\ MaxDevices \in Nat

VARIABLES
  driver,       \* the driver of this platform
  devices,      \* the devices parsed so far, in the order of the list
  listed,       \* the types the list gave them
  phase,        \* "list" or "serve"
  registry,     \* the enabled devices: the values of a dict keyed by id
  answered      \* the last command answered with success, if any

vars == <<driver, devices, listed, phase, registry, answered>>

Id(type, index, x) ==
  [type |-> type, index |-> index, root |-> x.root, tail |-> x.tail, form |-> x.form]

Item(id, type, name) == [id |-> id, type |-> type, name |-> name]

Slug(x) == [x EXCEPT !.form = Plain]

Suffixed(id, i) == [id EXCEPT !.tail = Append(id.tail, i)]

\* ffmpeg's type, a guess from the name, or always video.
ParsedType(l) ==
  IF driver = "dshow" THEN l.type
  ELSE IF driver = "avfoundation" /\ Keywords[l.name.root] = {"audio"} THEN "audio"
  ELSE "video"

\* A list may repeat a line: two identical cameras.  Index 0 is no index, and
\* replacing the slashes of a path merges spellings like _slugify.
BaseId(l) ==
  IF driver = "dshow" THEN Id(l.type, 0, Slug(l.name))
  ELSE IF driver = "avfoundation" THEN Id(ParsedType(l), l.index + 1, Slug(l.name))
  ELSE Id("", 0, Slug(l.path))

Seen == {devices[k].id : k \in DOMAIN devices}

\* Mutant of UniqueId: a single suffix.
SuffixOnce(base) == IF base \in Seen THEN Suffixed(base, 1) ELSE base

(***************************************************************************)
(* The loop of _unique_id takes the first free number; the number of ids   *)
(* seen bounds its search.                                                 *)
(***************************************************************************)
Free(base) == {i \in 1 .. Cardinality(Seen) + 1 : Suffixed(base, i) \notin Seen}

UniqueId(base) ==
  IF base \in Seen
    THEN Suffixed(base, CHOOSE i \in Free(base) : \A j \in Free(base) : i <= j)
    ELSE base

-----------------------------------------------------------------------------
Init ==
  /\ driver \in Drivers
  /\ devices = <<>> /\ listed = <<>> /\ phase = "list" /\ registry = {}
  /\ answered = <<>>

Parse(l) ==
  /\ phase = "list" /\ Len(devices) < MaxDevices
  /\ devices' = Append(devices, Item(UniqueId(BaseId(l)), ParsedType(l), l.name))
  /\ listed' = Append(listed, l.type)
  /\ UNCHANGED <<driver, phase, registry, answered>>

\* Under RTMP_DEBUG every device is added, unless its id is taken.
Serve ==
  /\ phase = "list" /\ phase' = "serve"
  /\ registry' \in {{}, {devices[k] : k \in {k \in DOMAIN devices :
                            \A j \in 1 .. k - 1 : devices[j].id # devices[k].id}}}
  /\ UNCHANGED <<driver, devices, listed, answered>>

Matching(s, type, name) == {d \in s : d.type = type /\ d.name = name}

\* Mutant of PlaceholderId: the type is no part of the id.
NameAlone(type, name) == Id("", 0, name)

\* The type and the name, with a dash between them, like the ids of dshow.
PlaceholderId(type, name) == Id(type, 0, name)

\* The first device of the list with the type and the name, or a placeholder.
Chosen(type, name) ==
  LET found == {k \in DOMAIN devices : devices[k].type = type /\ devices[k].name = name}
  IN  IF found = {} THEN Item(PlaceholderId(type, name), type, name)
      ELSE devices[CHOOSE k \in found : \A j \in found : k <= j]

Enable(type, name) ==
  LET d == Chosen(type, name) IN
  /\ phase = "serve"
  /\ registry' = IF \E e \in registry : e.id = d.id THEN registry ELSE registry \union {d}
  /\ answered' = <<"enabled", type, name>>
  /\ UNCHANGED <<driver, devices, listed, phase>>

\* One of the matches goes: which, is the order of the dict (CommandHandler).
Disable(type, name) ==
  /\ phase = "serve"
  /\ \/ \E d \in Matching(registry, type, name) : registry' = registry \ {d}
     \/ Matching(registry, type, name) = {} /\ UNCHANGED registry
  /\ answered' = <<"disabled", type, name>>
  /\ UNCHANGED <<driver, devices, listed, phase>>

Next ==
  \/ \E l \in Lines : Parse(l)
  \/ Serve
  \/ \E type \in {"video", "audio"}, name \in ServerNames : Enable(type, name) \/ Disable(type, name)

Spec == Init /\ [][Next]_vars

-----------------------------------------------------------------------------
(***************************************************************************)
(* The ids of a device list are distinct, identical devices and names that *)
(* already end in a number included: the registry and the process table,   *)
(* which are keyed by them, hold every device (base.py:46-58).             *)
(***************************************************************************)
IdsDistinct ==
  \A j, k \in DOMAIN devices : devices[j].id = devices[k].id => j = k

Listed == {devices[k] : k \in DOMAIN devices}

(***************************************************************************)
(* An enable that is confirmed and enables nothing (EnableTakesEffect) has *)
(* met another enabled device with the same id, and one of the two is a    *)
(* placeholder and the other a device of the list, of the same type:       *)
(* devices of the list never get into one another's way, nor placeholders, *)
(* nor a camera and a microphone, whatever was enabled and disabled before *)
(* (device_registry.py:26-35, command_handler.py:109-123).                 *)
(***************************************************************************)
LostEnablesClash ==
  \A type \in {"video", "audio"}, name \in ServerNames :
    answered = <<"enabled", type, name>> /\ Matching(registry, type, name) = {} =>
      \E e \in registry :
        /\ e.id = Chosen(type, name).id /\ e.type = type
        /\ e \in Listed <=> Chosen(type, name) \notin Listed

-----------------------------------------------------------------------------
\* What the documents say and the code does not do.

(***************************************************************************)
(* An enable answered with success has put a device of the name and type   *)
(* into the registry (server-device-mapping/spec.md:33-36 of the change    *)
(* 2026-07-09-align-wss-with-server-protocol).                             *)
(***************************************************************************)
EnableTakesEffect ==
  \A type \in {"video", "audio"}, name \in ServerNames :
    answered = <<"enabled", type, name>> => Matching(registry, type, name) # {}

(***************************************************************************)
(* A device has the type that ffmpeg's list gives it                       *)
(* (openspec/specs/device-enumeration/spec.md:16-18).                      *)
(***************************************************************************)
TypesAsListed == \A k \in DOMAIN devices : devices[k].type = listed[k]
=============================================================================
