---------------------------- MODULE DeviceItems ----------------------------
(***************************************************************************)
(* The devices of a node, src/network/models.py: DeviceItem, and the cache *)
(* filled once by the enumeration at startup.  A device the Server names   *)
(* but the enumeration did not find gets a placeholder item.               *)
(***************************************************************************)
EXTENDS Naturals, Sequences, FiniteSets

CONSTANTS
  Types,        \* "video" and "audio", or one of them
  Devices,      \* local device ids: the cached ones and the placeholders
  Names,        \* device names
  Ids,          \* database ids of the Server
  NameOf,       \* [Devices -> Names]
  TypeOf,       \* [Devices -> Types]
  Cached,       \* the enumerated devices, in order
  RtmpDebug,    \* the settings of RTMP_DEBUG considered
  Placeholder   \* [Types \X Names -> Devices]: the item built for the rest

ASSUME DevicesAssumption ==
  /\ Types \subseteq {"video", "audio"}
  /\ IsFiniteSet(Devices)
  /\ Ids \subseteq Nat \ {0}
  /\ NameOf \in [Devices -> Names]
  /\ TypeOf \in [Devices -> Types]
  /\ Cached \in Seq(Devices)
  /\ \A i, j \in DOMAIN Cached : Cached[i] = Cached[j] => i = j
  /\ RtmpDebug \subseteq BOOLEAN
  /\ Placeholder \in [Types \X Names -> Devices]
  /\ \A t \in Types, n \in Names :
       TypeOf[Placeholder[<<t, n>>]] = t /\ NameOf[Placeholder[<<t, n>>]] = n
=============================================================================
