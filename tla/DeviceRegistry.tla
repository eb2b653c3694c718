--------------------------- MODULE DeviceRegistry ---------------------------
(***************************************************************************)
(* The table of enabled devices, src/services/device_registry.py.  A       *)
(* Python dict keeps the order of insertion, and the command handler looks *)
(* for the first match in that order, so the table is a sequence of        *)
(* distinct device ids.  No critical section of the asyncio.Lock awaits    *)
(* anything, so every operation is one step of the event loop.             *)
(***************************************************************************)
EXTENDS DeviceItems, SequencesExt

VARIABLE registry

(***************************************************************************)
(* Nothing is enabled at the start, except that under RTMP_DEBUG the       *)
(* lifespan adds every enumerated device.                                  *)
(***************************************************************************)
RegistryInit == registry \in {IF r THEN Cached ELSE <<>> : r \in RtmpDebug}

Enabled == ToSet(registry)

AddDevice(d) ==
  registry' = IF d \in Enabled THEN registry ELSE Append(registry, d)

RemoveDevice(d) ==
  IF d \in Enabled
    THEN \E i \in DOMAIN registry :
            registry[i] = d /\ registry' = RemoveAt(registry, i)
    ELSE UNCHANGED registry

\* The keys of the dict: no device twice.
RegistryTypeOK ==
  /\ registry \in Seq(Devices)
  /\ \A i, j \in DOMAIN registry : registry[i] = registry[j] => i = j
=============================================================================
