---------------------------- MODULE LinkProtocol ----------------------------
(***************************************************************************)
(* What the rest of the node may rely on about the WSS task: in which      *)
(* order it acknowledges, handles commands, runs the authentication        *)
(* callback and loses the connection, and when the Server's device maps    *)
(* change.  WssClient implements it in detail; MonitorNode, which has only *)
(* this much of the WSS task, implements it too.                           *)
(***************************************************************************)
CONSTANTS
  AckMaps,      \* the maps an acknowledgement may carry
  Maps,         \* the maps there may ever be
  NoMaps        \* the maps when the Server's are not known

VARIABLES
  link,         \* down, acked, restart (the callback), up, off
  maps          \* the device maps of the Server

linkSpecVars == <<link, maps>>

Init == link = "down" /\ maps = NoMaps

Acknowledge == link = "down" /\ link' = "acked" /\ maps' \in AckMaps

\* A failed attempt clears the maps, one with a malformed acknowledgement
\* keeps what was read of them, and others leave them alone.
AttemptFails == link = "down" /\ maps' \in Maps /\ UNCHANGED link

HandleMessage == link \in {"acked", "up"} /\ maps' \in Maps /\ UNCHANGED link

Callback == link = "acked" /\ link' = "restart" /\ UNCHANGED maps

\* Without a session token there is no callback.
CallbackDone == link \in {"acked", "restart"} /\ link' = "up" /\ UNCHANGED maps

Lost == link = "up" /\ link' = "down" /\ UNCHANGED maps

Stop == link # "off" /\ link' = "off" /\ maps' = NoMaps

Next == \/ Acknowledge \/ AttemptFails \/ HandleMessage
        \/ Callback \/ CallbackDone \/ Lost \/ Stop

Spec == Init /\ [][Next]_linkSpecVars
=============================================================================
