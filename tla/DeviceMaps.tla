----------------------------- MODULE DeviceMaps -----------------------------
(***************************************************************************)
(* The Server's device maps, src/network/models.py: per device type, a     *)
(* dict from the Server's database ids to device names.  The               *)
(* authentication response and device_map messages replace the maps and    *)
(* _disconnect clears them.                                                *)
(***************************************************************************)
EXTENDS DeviceItems, SequencesExt

CONSTANT MapChoices     \* bound: the pairs of maps the Server sends

\* A dict with the Server's database keys; it keeps the order of the list.
MapEntry == [id : Ids, name : Names]

ASSUME MapsAssumption ==
  /\ MapChoices \subseteq [Types -> Seq(MapEntry)]
  /\ \A m \in MapChoices : \A t \in Types : \A j, k \in DOMAIN m[t] :
       m[t][j].id = m[t][k].id => j = k

VARIABLE serverMap      \* per type, the dict as a sequence of [id, name]

NoMap == [t \in Types |-> <<>>]

SetServerMaps(m) == serverMap' = m

(***************************************************************************)
(* A device_map whose audio list is malformed: the video map is assigned   *)
(* before the second comprehension raises.                                 *)
(***************************************************************************)
SetVideosOnly(m) == serverMap' = [serverMap EXCEPT !["video"] = m["video"]]

ClearServerMaps == serverMap' = NoMap

\* get_server_device_name: the set is empty or holds the one name of id i.
NamesFor(t, i) ==
  {serverMap[t][k].name : k \in {j \in DOMAIN serverMap[t] : serverMap[t][j].id = i}}

\* get_server_device_id: the id of the first entry with the name, else 0.
ServerId(t, n) ==
  LET k == SelectInSeq(serverMap[t], LAMBDA e : e.name = n)
  IN  IF k = 0 THEN 0 ELSE serverMap[t][k].id

MapsTypeOK == serverMap \in [Types -> Seq(MapEntry)]
=============================================================================
