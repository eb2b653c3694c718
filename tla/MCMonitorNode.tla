--------------------------- MODULE MCMonitorNode ---------------------------
(* Two cameras a and b, which the Server knows as 1 and 2. *)
EXTENDS MonitorNode

CONSTANTS a, b

MCDevices == {a, b}
MCNameOf == [d \in MCDevices |-> d]
MCTypeOf == [d \in MCDevices |-> "video"]
MCCached == <<a, b>>
MCPlaceholder == [tn \in {"video"} \X MCDevices |-> tn[2]]
MCMap == [t \in {"video"} |-> <<[id |-> 1, name |-> a], [id |-> 2, name |-> b]>>]
MCMapChoices == {NoMap, MCMap}
MCOneMap == {MCMap}

(* One camera, for the liveness runs. *)
MCDevice == {a}
MCNameOfA == [d \in MCDevice |-> d]
MCTypeOfA == [d \in MCDevice |-> "video"]
MCPlaceholderA == [tn \in {"video"} \X MCDevice |-> tn[2]]
MCCachedA == <<a>>
MCMapA == [t \in {"video"} |-> <<[id |-> 1, name |-> a]>>]
MCMapChoicesA == {NoMap, MCMapA}
=============================================================================
