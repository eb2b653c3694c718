--------------------------- MODULE CommandHandler ---------------------------
(***************************************************************************)
(* What a message of the Server does once the WSS client hands it to       *)
(* CommandHandler.dispatch, src/network/command_handler.py.  A handler     *)
(* changes the registry or the maps first and awaits only the sending of   *)
(* its response, so each is one step.  It never touches ffmpeg.            *)
(***************************************************************************)
EXTENDS DeviceRegistry, DeviceMaps

\* The devices of a sequence the code matches by name and type.
Matches(s, t, n) == {k \in DOMAIN s : NameOf[s[k]] = n /\ TypeOf[s[k]] = t}

\* The first match in s, or the default when there is none.
FirstMatch(s, t, n, default) ==
  IF Matches(s, t, n) = {} THEN default
  ELSE s[CHOOSE k \in Matches(s, t, n) : \A j \in Matches(s, t, n) : k <= j]

(***************************************************************************)
(* UPDATE_STREAM.  An id the maps do not know (or a malformed type or id)  *)
(* is answered with success = false and changes nothing.  Enabling adds    *)
(* the first enumerated device of that name and type, or a placeholder.    *)
(* Disabling removes the first such entry of the registry, if any, and     *)
(* reports success in either case.                                         *)
(***************************************************************************)
RejectCommand(t, i) == NamesFor(t, i) = {} /\ UNCHANGED <<registry, serverMap>>

\* Mutant of EnableStream: a later enumeration may miss the device.
EnableAfterRescan(t, i) ==
  /\ \E n \in NamesFor(t, i) :
       \/ AddDevice(FirstMatch(Cached, t, n, Placeholder[<<t, n>>]))
       \/ AddDevice(Placeholder[<<t, n>>])
  /\ UNCHANGED serverMap

EnableStream(t, i) ==
  /\ \E n \in NamesFor(t, i) :
       AddDevice(FirstMatch(Cached, t, n, Placeholder[<<t, n>>]))
  /\ UNCHANGED serverMap

\* Mutant of DisableStream: the entry is looked up under the type alone.
DisableByType(t, i) ==
  /\ NamesFor(t, i) # {}
  /\ \E d \in Enabled : TypeOf[d] = t /\ RemoveDevice(d)
  /\ UNCHANGED serverMap

DisableStream(t, i) ==
  /\ \E n \in NamesFor(t, i) :
       IF Matches(registry, t, n) = {} THEN UNCHANGED registry
       ELSE \E d \in Enabled :
              d = FirstMatch(registry, t, n, d) /\ RemoveDevice(d)
  /\ UNCHANGED serverMap

DeviceMapMessage(m) ==
  /\ SetServerMaps(m) \/ SetVideosOnly(m)
  /\ UNCHANGED registry
-----------------------------------------------------------------------------
(***************************************************************************)
(* The handler by itself: any message at any time, and the two events of   *)
(* the connection that touch the maps.                                     *)
(***************************************************************************)
handlerVars == <<registry, serverMap>>

HandlerInit == RegistryInit /\ serverMap = NoMap

Acknowledged(m) == SetServerMaps(m) /\ UNCHANGED registry
Disconnected == ClearServerMaps /\ UNCHANGED registry

HandlerNext ==
  \/ \E t \in Types, i \in Ids :
       EnableStream(t, i) \/ DisableStream(t, i) \/ RejectCommand(t, i)
  \/ \E m \in MapChoices : DeviceMapMessage(m) \/ Acknowledged(m)
  \/ Disconnected

HandlerSpec == HandlerInit /\ [][HandlerNext]_handlerVars

(***************************************************************************)
(* No two enabled devices share name and type, although placeholders and   *)
(* enumerated devices are looked up in different tables and the Server     *)
(* may rename its ids between two commands (command_handler.py:111-124).   *)
(***************************************************************************)
NoNamesakes ==
  \A c, d \in Enabled : NameOf[c] = NameOf[d] /\ TypeOf[c] = TypeOf[d] => c = d

(***************************************************************************)
(* After a disable no enabled device is left that the command names: the   *)
(* first match of the registry was the only one (command_handler.py:       *)
(* 127-138).                                                               *)
(***************************************************************************)
DisableLeavesNone ==
  [][\A t \in Types, i \in Ids : DisableStream(t, i) =>
       \A n \in NamesFor(t, i) : Matches(registry', t, n) = {}]_handlerVars
=============================================================================
