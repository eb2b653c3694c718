----------------------- MODULE NodeOperations_proofs ------------------------
(***************************************************************************)
(* Proofs about the operations the node is composed of: those of the       *)
(* ffmpeg runner, and those of the registry, the maps and the command      *)
(* handler, with the handler's own specification.                          *)
(***************************************************************************)
EXTENDS FfmpegRunner, CommandHandler, TLAPS, WellFoundedInduction

(***************************************************************************)
(* The runner: what each operation preserves.  Accounted and AllHeld split *)
(* NothingOrphaned of MonitorNode into the part that holds always and the  *)
(* part that a cancellation (Abandon) gives up.                            *)
(***************************************************************************)
\* A process without an owner has been sent SIGTERM.
Accounted == \A p \in Procs : Alive(p) /\ ~Referenced(p) => proc[p].st # "live"

\* Every live process has an owner.
AllHeld == \A p \in Procs : Alive(p) => Referenced(p)

RunnerInv == RunnerTypeOK /\ SingleOwner /\ Accounted

\* There is no live process under device d.
Settled(d) == processes[d] = None \/ Exited(processes[d])

(***************************************************************************)
(* None is no handle and no device, and NoProc is no process.              *)
(***************************************************************************)
LEMMA NoneFacts ==
  /\ None \notin Procs /\ None \notin Devices
  /\ \A s \in Status : s # "none"
  /\ \A r \in ProcRecord : r # NoProc
  BY RunnerAssumption DEF RunnerAssumption, ProcRecord, NoProc, Status

(***************************************************************************)
(* The initial state of the runner.                                        *)
(***************************************************************************)
LEMMA RunnerInitInv == RunnerInit => RunnerInv /\ AllHeld /\ Tracked = {}
  BY NoneFacts DEF RunnerInit, RunnerInv, RunnerTypeOK, SingleOwner, Accounted, AllHeld,
     Tracked, Alive, NoProc

(***************************************************************************)
(* stop_stream removes the entry of its device and touches no other one;   *)
(* the process, if it still runs, is held by the caller.                   *)
(***************************************************************************)
LEMMA StopStreamInv ==
  ASSUME NEW t \in Tasks, NEW d \in Devices,
         RunnerInv, stopping[t] = None, StopStream(t, d)
  PROVE  /\ RunnerInv'
         /\ AllHeld => AllHeld'
         /\ Tracked' = Tracked \ {d}
         /\ \A e \in Devices : Settled(e) => Settled(e)'
         /\ \A s \in Tasks \ {t} : stopping'[s] = stopping[s]
<1>1. CASE StopAbsent(d)
  BY <1>1, NoneFacts DEF StopAbsent, runnerVars, RunnerInv, RunnerTypeOK, SingleOwner,
     Accounted, AllHeld, Tracked, Settled, Alive, Referenced, Exited
<1>2. CASE StopExited(d)
  <2>. DEFINE p == processes[d]
  <2>1. p \in Procs /\ proc[p] \in ProcRecord /\ proc[p].st = "exited"
    BY <1>2, NoneFacts DEF StopExited, RunnerInv, RunnerTypeOK, SingleOwner, Exited, NoProc
  <2>2. RunnerTypeOK'
    BY <1>2, <2>1 DEF StopExited, RunnerInv, RunnerTypeOK
  <2>3. SingleOwner'
    BY <1>2, <2>1 DEF StopExited, RunnerInv, RunnerTypeOK, SingleOwner
  <2>4. \A q \in Procs : Alive(q)' => q # p /\ proc'[q] = proc[q] /\ Alive(q)
    BY <1>2, <2>1 DEF StopExited, RunnerInv, RunnerTypeOK, Alive, NoProc
  <2>5. \A q \in Procs : q # p /\ Referenced(q) => Referenced(q)'
    BY <1>2, <2>1 DEF StopExited, RunnerInv, RunnerTypeOK, Referenced
  <2>6. Accounted' /\ (AllHeld => AllHeld')
    BY <2>4, <2>5 DEF RunnerInv, Accounted, AllHeld
  <2>7. Tracked' = Tracked \ {d}
    BY <1>2 DEF StopExited, RunnerInv, RunnerTypeOK, Tracked
  <2>8. \A e \in Devices : Settled(e) => Settled(e)'
    BY <1>2, <2>1 DEF StopExited, RunnerInv, RunnerTypeOK, SingleOwner, Settled, Exited
  <2>. QED  BY <1>2, <2>2, <2>3, <2>6, <2>7, <2>8 DEF RunnerInv, StopExited
<1>3. CASE StopAlive(t, d)
  <2>. DEFINE p == processes[d]
  <2>1. p \in Procs /\ proc[p] \in ProcRecord /\ proc[p].st = "live"
    BY <1>3, NoneFacts DEF StopAlive, RunnerInv, RunnerTypeOK, SingleOwner, Exited, NoProc
  <2>2. proc'[p] = [proc[p] EXCEPT !.st = "termed"] /\ proc'[p] \in ProcRecord
    BY <1>3, <2>1 DEF StopAlive, RunnerInv, RunnerTypeOK, ProcRecord, Status
  <2>3. RunnerTypeOK'
    BY <1>3, <2>1, <2>2 DEF StopAlive, RunnerInv, RunnerTypeOK
  <2>4. \A q \in Procs : q # p => proc'[q] = proc[q]
    BY <1>3 DEF StopAlive, RunnerInv, RunnerTypeOK
  <2>5. proc'[p].st = "termed"
    BY <2>1, <2>2 DEF ProcRecord
  <2>6. SingleOwner'
    BY <1>3, <2>1, <2>4, <2>5, NoneFacts DEF StopAlive, RunnerInv, RunnerTypeOK, SingleOwner
  <2>7. \A q \in Procs : q = p \/ Referenced(q) => Referenced(q)'
    BY <1>3, <2>1, NoneFacts DEF StopAlive, RunnerInv, RunnerTypeOK, Referenced
  <2>8. \A q \in Procs : Alive(q)' /\ ~Referenced(q)' => Alive(q) /\ ~Referenced(q) /\ q # p
    BY <2>4, <2>7 DEF Alive
  <2>12. Accounted' /\ (AllHeld => AllHeld')
    BY <2>4, <2>8 DEF RunnerInv, Accounted, AllHeld
  <2>9. Tracked' = Tracked \ {d}
    BY <1>3 DEF StopAlive, RunnerInv, RunnerTypeOK, Tracked
  <2>10. \A e \in Devices : Settled(e) => Settled(e)'
    BY <1>3, <2>1, <2>4 DEF StopAlive, RunnerInv, RunnerTypeOK, Settled, Exited
  <2>11. \A s \in Tasks \ {t} : stopping'[s] = stopping[s]
    BY <1>3 DEF StopAlive, RunnerInv, RunnerTypeOK
  <2>. QED  BY <2>3, <2>6, <2>9, <2>10, <2>11, <2>12 DEF RunnerInv
<1>. QED  BY <1>1, <1>2, <1>3 DEF StopStream

(***************************************************************************)
(* The timer turns a SIGTERMed process into a SIGKILLed one.               *)
(***************************************************************************)
LEMMA StopTimeoutInv ==
  ASSUME NEW t \in Tasks, RunnerInv, StopTimeout(t)
  PROVE  /\ RunnerInv' /\ (AllHeld => AllHeld')
         /\ Tracked' = Tracked
         /\ \A e \in Devices : Settled(e) => Settled(e)'
         /\ stopping' = stopping
<1>. DEFINE p == stopping[t]
<1>1. p \in Procs /\ proc[p] \in ProcRecord
  BY NoneFacts DEF StopTimeout, RunnerInv, RunnerTypeOK, NoProc
<1>2. /\ proc'[p] = [proc[p] EXCEPT !.st = "killed"]
      /\ proc'[p] \in ProcRecord /\ proc'[p].st = "killed"
  BY <1>1 DEF StopTimeout, RunnerInv, RunnerTypeOK, ProcRecord, Status
<1>3. \A q \in Procs : q # p => proc'[q] = proc[q]
  BY DEF StopTimeout, RunnerInv, RunnerTypeOK
<1>4. RunnerTypeOK'
  BY <1>1, <1>2 DEF StopTimeout, RunnerInv, RunnerTypeOK
<1>5. SingleOwner'
  BY <1>1, <1>2, <1>3 DEF StopTimeout, RunnerInv, RunnerTypeOK, SingleOwner
<1>6. \A q \in Procs : Referenced(q)' <=> Referenced(q)
  BY DEF StopTimeout, Referenced
<1>7. \A q \in Procs : Alive(q)' /\ ~Referenced(q)' => Alive(q) /\ ~Referenced(q) /\ q # p
  BY <1>1, <1>3, <1>6 DEF Alive, Referenced
<1>8. Accounted' /\ (AllHeld => AllHeld')
  BY <1>3, <1>7 DEF RunnerInv, Accounted, AllHeld
<1>9. \A e \in Devices : Settled(e) => Settled(e)'
  BY <1>1, <1>2, <1>3 DEF StopTimeout, RunnerInv, RunnerTypeOK, SingleOwner, Settled, Exited
<1>. QED  BY <1>4, <1>5, <1>8, <1>9 DEF RunnerInv, StopTimeout, Tracked

(***************************************************************************)
(* A task lets go of a process that has exited; the handle is free.        *)
(***************************************************************************)
LEMMA ReleaseInv ==
  ASSUME NEW t \in Tasks, RunnerInv, stopping[t] # None, Exited(stopping[t]),
         proc' = [proc EXCEPT ![stopping[t]] = NoProc],
         stopping' = [stopping EXCEPT ![t] = None], UNCHANGED processes
  PROVE  /\ RunnerInv' /\ (AllHeld => AllHeld')
         /\ Tracked' = Tracked
         /\ \A e \in Devices : Settled(e) => Settled(e)'
         /\ stopping'[t] = None
         /\ \A s \in Tasks \ {t} : stopping'[s] = stopping[s]
<1>. DEFINE p == stopping[t]
<1>1. p \in Procs /\ proc[p].st \in {"exited", "silent"}
  BY DEF RunnerInv, RunnerTypeOK, Exited
<1>2. RunnerTypeOK'
  BY <1>1 DEF RunnerInv, RunnerTypeOK
<1>3. proc'[p] = NoProc /\ \A q \in Procs : q # p => proc'[q] = proc[q]
  BY <1>1 DEF RunnerInv, RunnerTypeOK
<1>4. SingleOwner'
  BY <1>1, <1>3 DEF RunnerInv, RunnerTypeOK, SingleOwner
<1>5. \A q \in Procs : q # p /\ Referenced(q) => Referenced(q)'
  BY <1>1 DEF RunnerInv, RunnerTypeOK, Referenced
<1>6. \A q \in Procs : Alive(q)' => q # p /\ Alive(q)
  BY <1>3 DEF Alive, NoProc
<1>7. Accounted' /\ (AllHeld => AllHeld')
  BY <1>3, <1>5, <1>6 DEF RunnerInv, Accounted, AllHeld
<1>8. \A e \in Devices : Settled(e) => Settled(e)'
  BY <1>1, <1>3 DEF RunnerInv, RunnerTypeOK, SingleOwner, Settled, Exited
<1>. QED  BY <1>2, <1>4, <1>7, <1>8 DEF RunnerInv, RunnerTypeOK, Tracked

(***************************************************************************)
(* stop_stream returns once its process has exited; the handle is free.    *)
(***************************************************************************)
LEMMA StopReturnsInv ==
  ASSUME NEW t \in Tasks, RunnerInv, StopReturns(t)
  PROVE  /\ RunnerInv' /\ (AllHeld => AllHeld')
         /\ Tracked' = Tracked
         /\ \A e \in Devices : Settled(e) => Settled(e)'
         /\ stopping'[t] = None
         /\ \A s \in Tasks \ {t} : stopping'[s] = stopping[s]
  BY ReleaseInv DEF StopReturns, Exited

(***************************************************************************)
(* A cancellation lets go of a process, but only of one that has been      *)
(* sent SIGTERM.                                                           *)
(***************************************************************************)
LEMMA AbandonInv ==
  ASSUME NEW t \in Tasks, RunnerInv, Abandon(t)
  PROVE  /\ RunnerInv' /\ Tracked' = Tracked
         /\ \A e \in Devices : Settled(e) => Settled(e)'
         /\ stopping'[t] = None
         /\ \A s \in Tasks \ {t} : stopping'[s] = stopping[s]
<1>1. CASE stopping[t] # None /\ Exited(stopping[t])
  BY <1>1, ReleaseInv DEF Abandon
<1>2. CASE ~(stopping[t] # None /\ Exited(stopping[t]))
  <2>1. RunnerTypeOK'
    BY <1>2 DEF Abandon, RunnerInv, RunnerTypeOK
  <2>2. SingleOwner'
    BY <1>2 DEF Abandon, RunnerInv, RunnerTypeOK, SingleOwner
  <2>3. \A q \in Procs : Referenced(q) => Referenced(q)' \/ q = stopping[t]
    BY DEF Abandon, RunnerInv, RunnerTypeOK, Referenced
  <2>4. \A q \in Procs : q = stopping[t] => proc[q].st # "live"
    BY NoneFacts DEF RunnerInv, RunnerTypeOK, SingleOwner
  <2>5. proc' = proc
    BY <1>2 DEF Abandon
  <2>6. Accounted'
    BY <2>3, <2>4, <2>5 DEF RunnerInv, Accounted, Alive
  <2>7. \A e \in Devices : Settled(e) => Settled(e)'
    BY <2>5 DEF Abandon, Settled, Exited
  <2>. QED  BY <2>1, <2>2, <2>6, <2>7 DEF RunnerInv, RunnerTypeOK, Abandon, Tracked
<1>. QED  BY <1>1, <1>2

(***************************************************************************)
(* A spawn for a device without an entry takes a free handle.              *)
(***************************************************************************)
LEMMA SpawnInv ==
  ASSUME NEW d \in Devices, NEW u \in Ids \union {0},
         RunnerInv, processes[d] = None, Spawn(d, u)
  PROVE  /\ RunnerInv' /\ (AllHeld => AllHeld')
         /\ Tracked' = Tracked \union {d}
         /\ stopping' = stopping
<1>. DEFINE p == CHOOSE q \in Procs : proc[q] = NoProc
<1>1. p \in Procs /\ proc[p] = NoProc
  BY DEF Spawn
<1>2. /\ proc' = [proc EXCEPT ![p] = [st |-> "live", dev |-> d, url |-> u]]
      /\ processes' = [processes EXCEPT ![d] = p]
      /\ stopping' = stopping
  BY DEF Spawn
<1>. HIDE DEF p
<1>3. [st |-> "live", dev |-> d, url |-> u] \in ProcRecord
  BY DEF ProcRecord, Status
<1>4. RunnerTypeOK'
  BY <1>1, <1>2, <1>3 DEF RunnerInv, RunnerTypeOK
<1>5. \A e \in Devices : processes[e] # p
  BY <1>1, NoneFacts DEF RunnerInv, RunnerTypeOK, SingleOwner, NoProc
<1>6. \A t \in Tasks : stopping[t] # p
  BY <1>1, NoneFacts DEF RunnerInv, RunnerTypeOK, SingleOwner, NoProc
<1>7. proc'[p].st = "live" /\ proc'[p].dev = d /\ \A q \in Procs : q # p => proc'[q] = proc[q]
  BY <1>1, <1>2 DEF RunnerInv, RunnerTypeOK
<1>8. SingleOwner'
  BY <1>1, <1>2, <1>5, <1>6, <1>7, NoneFacts DEF RunnerInv, RunnerTypeOK, SingleOwner
<1>9. \A q \in Procs : q = p \/ Referenced(q) => Referenced(q)'
  BY <1>1, <1>2, NoneFacts DEF RunnerInv, RunnerTypeOK, Referenced
<1>10. \A q \in Procs : Alive(q)' /\ ~Referenced(q)' => Alive(q) /\ ~Referenced(q) /\ q # p
  BY <1>7, <1>9 DEF Alive
<1>11. Accounted' /\ (AllHeld => AllHeld')
  BY <1>7, <1>10 DEF RunnerInv, Accounted, AllHeld
<1>12. Tracked' = Tracked \union {d}
  BY <1>1, <1>2, NoneFacts DEF RunnerInv, RunnerTypeOK, Tracked
<1>. QED  BY <1>2, <1>4, <1>8, <1>11, <1>12 DEF RunnerInv

(***************************************************************************)
(* A process exits; without an owner its handle becomes free.              *)
(***************************************************************************)
LEMMA ProcExitsInv ==
  ASSUME NEW p \in Procs, RunnerInv, ProcExits(p)
  PROVE  /\ RunnerInv' /\ (AllHeld => AllHeld')
         /\ Tracked' = Tracked
         /\ \A e \in Devices : Settled(e) => Settled(e)'
         /\ stopping' = stopping
<1>1. proc[p] \in ProcRecord
  BY DEF ProcExits, RunnerInv, RunnerTypeOK, Alive, NoProc
<1>2. \A q \in Procs : q # p => proc'[q] = proc[q]
  BY DEF ProcExits, RunnerInv, RunnerTypeOK
<1>3. PICK s \in {"exited", "silent"} :
        /\ s = "silent" => proc[p].st = "killed"
        /\ Referenced(p) => proc'[p] = [proc[p] EXCEPT !.st = s]
  BY DEF ProcExits, RunnerInv, RunnerTypeOK
<1>4. ~Referenced(p) => proc'[p] = NoProc
  BY DEF ProcExits, RunnerInv, RunnerTypeOK
<1>5. RunnerTypeOK'
  BY <1>1, <1>3, <1>4 DEF ProcExits, RunnerInv, RunnerTypeOK, ProcRecord, Status
<1>6. Referenced(p) => /\ proc'[p].st \in {"exited", "silent"}
                       /\ proc'[p].st = "exited" \/ proc[p].st = "killed"
                       /\ proc'[p].dev = proc[p].dev
  BY <1>1, <1>3 DEF ProcRecord
<1>7. SingleOwner'
  BY <1>2, <1>6 DEF ProcExits, RunnerInv, RunnerTypeOK, SingleOwner, Referenced
<1>8. \A q \in Procs : Referenced(q)' <=> Referenced(q)
  BY DEF ProcExits, Referenced
<1>9. \A q \in Procs : Alive(q)' => q # p /\ Alive(q)
  BY <1>2, <1>4, <1>6 DEF Alive, NoProc
<1>10. Accounted' /\ (AllHeld => AllHeld')
  BY <1>2, <1>8, <1>9 DEF RunnerInv, Accounted, AllHeld
<1>11. \A e \in Devices : Settled(e) => Settled(e)'
  BY <1>2, <1>6 DEF ProcExits, RunnerInv, RunnerTypeOK, Settled, Exited, Referenced
<1>. QED  BY <1>5, <1>7, <1>10, <1>11 DEF RunnerInv, ProcExits, Tracked

-----------------------------------------------------------------------------
(***************************************************************************)
(* The registry, the maps and the handler.  The maps have one entry per    *)
(* id, and an enabled device is always the one that a lookup in the        *)
(* enumeration yields for its type and name; from the second fact two      *)
(* enabled devices with the same type and name are the same.               *)
(***************************************************************************)
HandlerTypeOK == RegistryTypeOK /\ MapsTypeOK

(***************************************************************************)
(* A non-empty set of naturals has a least element.                        *)
(***************************************************************************)
LEMMA LeastElement ==
  ASSUME NEW T, T \subseteq Nat, T # {}
  PROVE  \E x \in T : \A y \in T : x <= y
<1>. DEFINE R == {ss \in Nat \X Nat : ss[1] < ss[2]}
<1>1. IsWellFoundedOn(R, Nat)
  BY NatLessThanWellFounded DEF OpToRel
<1>2. \A x, y \in Nat : y < x => <<y, x>> \in R
  OBVIOUS
<1>. HIDE DEF R
<1>3. PICK x \in T : \A y \in T : ~ (<<y, x>> \in R)
  BY <1>1, WFMin
<1>4. \A y \in T : ~ (y < x)
  BY <1>2, <1>3
<1>. QED  BY <1>4

(***************************************************************************)
(* A lookup yields the default or a device of the sequence with the type   *)
(* and the name looked for.                                                *)
(***************************************************************************)
LEMMA FirstMatchFacts ==
  ASSUME NEW s \in Seq(Devices), NEW t, NEW n, NEW default
  PROVE  /\ Matches(s, t, n) = {} => FirstMatch(s, t, n, default) = default
         /\ Matches(s, t, n) # {} =>
              \E k \in Matches(s, t, n) : FirstMatch(s, t, n, default) = s[k]
<1>1. Matches(s, t, n) \subseteq Nat
  BY DEF Matches
<1>. QED  BY <1>1, LeastElement DEF FirstMatch

\* The item an enable command yields for a type and a name.
Item(t, n) == FirstMatch(Cached, t, n, Placeholder[<<t, n>>])

(***************************************************************************)
(* That item has the type and the name it was looked up by.                *)
(***************************************************************************)
LEMMA ItemFacts ==
  ASSUME NEW t \in Types, NEW n \in Names
  PROVE  Item(t, n) \in Devices /\ TypeOf[Item(t, n)] = t /\ NameOf[Item(t, n)] = n
<1>1. Cached \in Seq(Devices) /\ <<t, n>> \in Types \X Names
  BY DevicesAssumption DEF DevicesAssumption
<1>2. CASE Matches(Cached, t, n) = {}
  <2>1. Item(t, n) = Placeholder[<<t, n>>]
    BY <1>1, <1>2, FirstMatchFacts DEF Item
  <2>2. Placeholder[<<t, n>>] \in Devices
    BY DevicesAssumption DEF DevicesAssumption
  <2>. QED  BY <2>1, <2>2, DevicesAssumption DEF DevicesAssumption
<1>3. CASE Matches(Cached, t, n) # {}
  <2>1. PICK k \in Matches(Cached, t, n) : Item(t, n) = Cached[k]
    BY <1>1, <1>3, FirstMatchFacts DEF Item
  <2>. QED  BY <1>1, <2>1 DEF Matches
<1>. QED  BY <1>2, <1>3

(***************************************************************************)
(* DeviceRegistry.add keeps the dict a dict, and adds only its device.     *)
(***************************************************************************)
LEMMA AddKeeps ==
  ASSUME RegistryTypeOK, NEW d \in Devices, AddDevice(d)
  PROVE  RegistryTypeOK' /\ Enabled' = Enabled \union {d}
<1>1. CASE d \in Enabled
  BY <1>1 DEF AddDevice, RegistryTypeOK, Enabled
<1>2. CASE d \notin Enabled
  <2>1. registry' = Append(registry, d)
    BY <1>2 DEF AddDevice
  <2>2. /\ registry' \in Seq(Devices) /\ Len(registry') = Len(registry) + 1
        /\ \A k \in 1 .. Len(registry) : registry'[k] = registry[k]
        /\ registry'[Len(registry) + 1] = d
    BY <2>1 DEF RegistryTypeOK
  <2>3. DOMAIN registry = 1 .. Len(registry) /\ DOMAIN registry' = 1 .. Len(registry) + 1
        /\ Len(registry) \in Nat
    BY <2>2 DEF RegistryTypeOK
  <2>4. \A k \in DOMAIN registry : registry[k] # d
    BY <1>2 DEF Enabled, ToSet
  <2>5. RegistryTypeOK'
    BY <2>2, <2>3, <2>4 DEF RegistryTypeOK
  <2>6. Enabled' = Enabled \union {d}
    BY <2>2, <2>3 DEF Enabled, ToSet
  <2>. QED  BY <2>5, <2>6
<1>. QED  BY <1>1, <1>2

(***************************************************************************)
(* The length of a concatenation.                                          *)
(***************************************************************************)
LEMMA ConcatFacts ==
  ASSUME NEW S, NEW u \in Seq(S), NEW v \in Seq(S)
  PROVE  u \o v \in Seq(S) /\ Len(u \o v) = Len(u) + Len(v)
  OBVIOUS

(***************************************************************************)
(* DeviceRegistry.remove keeps the dict a dict, and removes its device.    *)
(***************************************************************************)
LEMMA RemoveKeeps ==
  ASSUME RegistryTypeOK, NEW d \in Devices, RemoveDevice(d)
  PROVE  RegistryTypeOK' /\ Enabled' = Enabled \ {d}
<1>1. CASE d \in Enabled
  <2>1. PICK i \in DOMAIN registry : registry[i] = d /\ registry' = RemoveAt(registry, i)
    BY <1>1 DEF RemoveDevice
  <2>. DEFINE n == Len(registry)
              s1 == SubSeq(registry, 1, i - 1)
              s2 == SubSeq(registry, i + 1, n)
  <2>2. n \in Nat /\ DOMAIN registry = 1 .. n /\ i \in 1 .. n /\ registry \in Seq(Devices)
    BY <2>1 DEF RegistryTypeOK
  <2>3. s1 \in Seq(Devices) /\ Len(s1) = i - 1 /\ \A k \in 1 .. i - 1 : s1[k] = registry[k]
    BY <2>2
  <2>4. s2 \in Seq(Devices) /\ Len(s2) = n - i /\ \A k \in 1 .. n - i : s2[k] = registry[i + k]
    BY <2>2
  <2>5. registry' = s1 \o s2
    BY <2>1 DEF RemoveAt
  <2>. HIDE DEF s1, s2
  <2>6. /\ registry' \in Seq(Devices) /\ Len(registry') = n - 1
        /\ DOMAIN registry' = 1 .. n - 1
        /\ \A k \in 1 .. n - 1 : registry'[k] = IF k < i THEN registry[k] ELSE registry[k + 1]
    <3>0. s1 \o s2 \in Seq(Devices) /\ Len(s1 \o s2) = Len(s1) + Len(s2)
      BY <2>3, <2>4, ConcatFacts
    <3>1. registry' \in Seq(Devices) /\ Len(registry') = n - 1
      BY <2>2, <2>3, <2>4, <2>5, <3>0
    <3>2. ASSUME NEW k \in 1 .. n - 1, k < i  PROVE registry'[k] = registry[k]
      BY <2>2, <2>3, <2>4, <2>5, <3>2
    <3>3. ASSUME NEW k \in 1 .. n - 1, ~ (k < i)  PROVE registry'[k] = registry[k + 1]
      <4>1. registry'[k] = s2[k - (i - 1)]
        BY <2>2, <2>3, <2>4, <2>5, <3>3
      <4>2. k - (i - 1) \in 1 .. n - i /\ i + (k - (i - 1)) = k + 1
        BY <2>2, <3>3
      <4>. QED  BY <2>4, <4>1, <4>2
    <3>. QED  BY <3>1, <3>2, <3>3
  <2>7. RegistryTypeOK'
    BY <2>2, <2>6 DEF RegistryTypeOK
  <2>8. Enabled' \subseteq Enabled \ {d}
    <3>1. SUFFICES ASSUME NEW k \in 1 .. n - 1
                   PROVE  registry'[k] \in Enabled /\ registry'[k] # d
      BY <2>6 DEF Enabled, ToSet
    <3>2. PICK j \in 1 .. n : j # i /\ registry'[k] = registry[j]
      BY <2>2, <2>6
    <3>. QED  BY <2>1, <2>2, <3>2 DEF Enabled, ToSet, RegistryTypeOK
  <2>9. ASSUME NEW e \in Enabled, e # d  PROVE e \in Enabled'
    <3>1. PICK k \in 1 .. n : registry[k] = e
      BY <2>2 DEF Enabled, ToSet
    <3>2. CASE k < i
      BY <2>2, <2>6, <3>1, <3>2 DEF Enabled, ToSet
    <3>3. CASE k > i
      <4>1. k - 1 \in DOMAIN registry' /\ registry'[k - 1] = e
        BY <2>2, <2>6, <3>1, <3>3
      <4>. QED  BY <4>1 DEF Enabled, ToSet
    <3>. QED  BY <2>1, <2>2, <2>9, <3>1, <3>2, <3>3
  <2>. QED  BY <2>7, <2>8, <2>9
<1>2. CASE d \notin Enabled
  BY <1>2 DEF RemoveDevice, RegistryTypeOK, Enabled
<1>. QED  BY <1>1, <1>2

-----------------------------------------------------------------------------
\* An id names at most one device: the maps are dicts.
DistinctIds ==
  \A t \in Types : \A j, k \in DOMAIN serverMap[t] :
    serverMap[t][j].id = serverMap[t][k].id => j = k

(***************************************************************************)
(* A new pair of maps, half of one, or none: the maps remain dicts.        *)
(***************************************************************************)
LEMMA MapsKeep ==
  ASSUME MapsTypeOK, NEW m \in MapChoices,
         SetServerMaps(m) \/ SetVideosOnly(m)
  PROVE  MapsTypeOK' /\ (DistinctIds => DistinctIds')
<1>1. /\ m \in [Types -> Seq(MapEntry)]
      /\ \A t \in Types : \A j, k \in DOMAIN m[t] : m[t][j].id = m[t][k].id => j = k
  BY MapsAssumption DEF MapsAssumption
<1>2. CASE SetServerMaps(m)
  BY <1>1, <1>2 DEF SetServerMaps, MapsTypeOK, DistinctIds
<1>3. CASE SetVideosOnly(m)
  <2>1. /\ serverMap' \in [Types -> Seq(MapEntry)]
        /\ \A t \in Types : serverMap'[t] = m[t] \/ serverMap'[t] = serverMap[t]
    BY <1>1, <1>3 DEF SetVideosOnly, MapsTypeOK
  <2>. QED  BY <1>1, <2>1 DEF MapsTypeOK, DistinctIds
<1>. QED  BY <1>2, <1>3

(***************************************************************************)
(* The maps are empty at the start and after a disconnect.                 *)
(***************************************************************************)
LEMMA NoMapFacts == serverMap = NoMap => MapsTypeOK /\ DistinctIds
  BY DEF NoMap, MapsTypeOK, DistinctIds

(***************************************************************************)
(* The entries of a dict of the Server.                                    *)
(***************************************************************************)
LEMMA EntryFacts ==
  ASSUME MapsTypeOK, NEW t \in Types
  PROVE  /\ DOMAIN serverMap[t] = 1 .. Len(serverMap[t]) /\ Len(serverMap[t]) \in Nat
         /\ \A k \in 1 .. Len(serverMap[t]) :
              serverMap[t][k].id \in Ids /\ serverMap[t][k].name \in Names
<1>1. serverMap[t] \in Seq(MapEntry)
  BY DEF MapsTypeOK
<1>2. \A k \in 1 .. Len(serverMap[t]) : serverMap[t][k] \in MapEntry
  BY <1>1
<1>3. \A e \in MapEntry : e.id \in Ids /\ e.name \in Names
  BY DEF MapEntry
<1>. QED  BY <1>1, <1>2, <1>3

(***************************************************************************)
(* Names found in the maps are names, and unique for their id.             *)
(***************************************************************************)
LEMMA NamesForFacts ==
  ASSUME MapsTypeOK, NEW t \in Types, NEW i
  PROVE  /\ NamesFor(t, i) \subseteq Names
         /\ DistinctIds => \A m, n \in NamesFor(t, i) : m = n
<1>3. NamesFor(t, i) \subseteq Names
  BY EntryFacts DEF NamesFor
<1>4. ASSUME DistinctIds, NEW m \in NamesFor(t, i), NEW n \in NamesFor(t, i)  PROVE m = n
  <2>1. PICK j \in DOMAIN serverMap[t] : serverMap[t][j].id = i /\ m = serverMap[t][j].name
    BY DEF NamesFor
  <2>2. PICK k \in DOMAIN serverMap[t] : serverMap[t][k].id = i /\ n = serverMap[t][k].name
    BY DEF NamesFor
  <2>. QED  BY <1>4, <2>1, <2>2 DEF DistinctIds
<1>. QED  BY <1>3, <1>4

(***************************************************************************)
(* The id in a stream's URL is an id of the Server or the placeholder 0.   *)
(***************************************************************************)
LEMMA ServerIdFacts ==
  ASSUME MapsTypeOK, NEW t \in Types, NEW n
  PROVE  ServerId(t, n) \in Ids \union {0}
<1>. DEFINE I == {k \in 1 .. Len(serverMap[t]) : serverMap[t][k].name = n}
<1>1. ServerId(t, n) = LET k == IF I # {} THEN Min(I) ELSE 0
                       IN  IF k = 0 THEN 0 ELSE serverMap[t][k].id
  BY DEF ServerId, SelectInSeq
<1>3. CASE I # {}
  <2>1. I \subseteq Nat
    BY EntryFacts
  <2>2. Min(I) \in I
    BY <1>3, <2>1, LeastElement DEF Min
  <2>3. \A k \in I : k # 0 /\ serverMap[t][k].id \in Ids
    BY EntryFacts
  <2>. HIDE DEF I
  <2>4. Min(I) # 0 /\ serverMap[t][Min(I)].id \in Ids
    BY <2>2, <2>3
  <2>. QED  BY <1>1, <1>3, <2>4
<1>4. CASE I = {}
  BY <1>1, <1>4
<1>. QED  BY <1>3, <1>4

-----------------------------------------------------------------------------
(***************************************************************************)
(* Enabling adds the item of a name the id stands for.                     *)
(***************************************************************************)
LEMMA EnableKeeps ==
  ASSUME HandlerTypeOK, NEW t \in Types, NEW i \in Ids, EnableStream(t, i)
  PROVE  /\ HandlerTypeOK' /\ serverMap' = serverMap
         /\ \E n \in NamesFor(t, i) \intersect Names :
              Enabled' = Enabled \union {Item(t, n)}
<1>1. PICK n \in NamesFor(t, i) : AddDevice(Item(t, n))
  BY DEF EnableStream, Item
<1>2. n \in Names
  BY NamesForFacts DEF HandlerTypeOK
<1>3. Item(t, n) \in Devices
  BY <1>2, ItemFacts
<1>4. RegistryTypeOK' /\ Enabled' = Enabled \union {Item(t, n)}
  BY <1>1, <1>3, AddKeeps DEF HandlerTypeOK
<1>. QED  BY <1>2, <1>4 DEF EnableStream, HandlerTypeOK, MapsTypeOK

(***************************************************************************)
(* Disabling removes at most one device, which has the type and the name   *)
(* looked for; if it removes none, none had.                               *)
(***************************************************************************)
LEMMA DisableKeeps ==
  ASSUME HandlerTypeOK, NEW t \in Types, NEW i \in Ids, DisableStream(t, i)
  PROVE  /\ HandlerTypeOK' /\ serverMap' = serverMap
         /\ Enabled' \subseteq Enabled
         /\ \E n \in NamesFor(t, i) :
              \/ Matches(registry, t, n) = {} /\ Enabled' = Enabled
              \/ \E d \in Enabled :
                   TypeOf[d] = t /\ NameOf[d] = n /\ Enabled' = Enabled \ {d}
<1>1. PICK n \in NamesFor(t, i) :
        IF Matches(registry, t, n) = {} THEN UNCHANGED registry
        ELSE \E d \in Enabled :
               d = FirstMatch(registry, t, n, d) /\ RemoveDevice(d)
  BY DEF DisableStream
<1>2. serverMap' = serverMap /\ MapsTypeOK'
  BY DEF DisableStream, HandlerTypeOK, MapsTypeOK
<1>3. CASE Matches(registry, t, n) = {}
  BY <1>1, <1>2, <1>3 DEF HandlerTypeOK, RegistryTypeOK, Enabled
<1>4. CASE Matches(registry, t, n) # {}
  <2>1. PICK d \in Enabled : d = FirstMatch(registry, t, n, d) /\ RemoveDevice(d)
    BY <1>1, <1>4
  <2>2. registry \in Seq(Devices)
    BY DEF HandlerTypeOK, RegistryTypeOK
  <2>3. PICK k \in Matches(registry, t, n) : d = registry[k]
    BY <1>4, <2>1, <2>2, FirstMatchFacts
  <2>4. d \in Devices /\ TypeOf[d] = t /\ NameOf[d] = n
    BY <2>2, <2>3 DEF Matches
  <2>5. RegistryTypeOK' /\ Enabled' = Enabled \ {d}
    BY <2>1, <2>4, RemoveKeeps DEF HandlerTypeOK
  <2>. QED  BY <1>2, <2>4, <2>5 DEF HandlerTypeOK
<1>. QED  BY <1>3, <1>4

(***************************************************************************)
(* The initial registry, with and without RTMP_DEBUG.                      *)
(***************************************************************************)
LEMMA RegistryInitFacts == RegistryInit => RegistryTypeOK
<1>1. <<>> \in Seq(Devices) /\ Cached \in Seq(Devices)
  BY DevicesAssumption DEF DevicesAssumption
<1>2. \A i, j \in DOMAIN Cached : Cached[i] = Cached[j] => i = j
  BY DevicesAssumption DEF DevicesAssumption
<1>3. RegistryInit => registry = Cached \/ registry = <<>>
  BY DEF RegistryInit
<1>4. registry = Cached => RegistryTypeOK
  BY <1>1, <1>2 DEF RegistryTypeOK
<1>5. registry = <<>> => RegistryTypeOK
  BY <1>1 DEF RegistryTypeOK
<1>. QED  BY <1>3, <1>4, <1>5

(***************************************************************************)
(* Every message of the Server keeps the types, and the maps dicts.        *)
(***************************************************************************)
LEMMA HandlerStepKeeps ==
  ASSUME HandlerTypeOK, [HandlerNext]_handlerVars
  PROVE  HandlerTypeOK' /\ (DistinctIds => DistinctIds')
<1>1. CASE \E t \in Types, i \in Ids : EnableStream(t, i)
  BY <1>1, EnableKeeps DEF DistinctIds
<1>2. CASE \E t \in Types, i \in Ids : DisableStream(t, i)
  BY <1>2, DisableKeeps DEF DistinctIds
<1>3. CASE UNCHANGED handlerVars
  BY <1>3 DEF handlerVars, HandlerTypeOK, RegistryTypeOK, MapsTypeOK, DistinctIds
<1>4. CASE \E t \in Types, i \in Ids : RejectCommand(t, i)
  BY <1>3, <1>4 DEF RejectCommand, handlerVars
<1>5. CASE \E m \in MapChoices : DeviceMapMessage(m) \/ Acknowledged(m)
  <2>1. PICK m \in MapChoices : SetServerMaps(m) \/ SetVideosOnly(m)
    BY <1>5 DEF DeviceMapMessage, Acknowledged
  <2>2. registry' = registry
    BY <1>5 DEF DeviceMapMessage, Acknowledged
  <2>. QED  BY <2>1, <2>2, MapsKeep DEF HandlerTypeOK, RegistryTypeOK
<1>6. CASE Disconnected
  BY <1>6 DEF Disconnected, ClearServerMaps, NoMap, HandlerTypeOK, RegistryTypeOK,
              MapsTypeOK, DistinctIds
<1>. QED  BY <1>1, <1>2, <1>3, <1>4, <1>5, <1>6 DEF HandlerNext

-----------------------------------------------------------------------------
(***************************************************************************)
(* Without RTMP_DEBUG the registry starts empty, and every enabled device  *)
(* is what the lookup of an enable command yields.                         *)
(***************************************************************************)
Looked == \A d \in Enabled : d = Item(TypeOf[d], NameOf[d])

CommandInv == HandlerTypeOK /\ DistinctIds /\ Looked

(***************************************************************************)
(* Two enabled devices of one type and name are the same item.             *)
(***************************************************************************)
LEMMA CommandInvImplies == CommandInv => NoNamesakes
  BY DEF CommandInv, Looked, NoNamesakes

(***************************************************************************)
(* The initial state: nothing is enabled, no maps are known.               *)
(***************************************************************************)
LEMMA CommandInvInit ==
  ASSUME RtmpDebug = {FALSE}, HandlerInit
  PROVE  CommandInv
<1>1. registry = <<>>
  BY DEF HandlerInit, RegistryInit
<1>2. Enabled = {}
  BY <1>1 DEF Enabled, ToSet
<1>. QED  BY <1>2, RegistryInitFacts, NoMapFacts
          DEF HandlerInit, HandlerTypeOK, CommandInv, Looked

(***************************************************************************)
(* The inductive step: only an enable adds a device, and it is the item.   *)
(***************************************************************************)
LEMMA CommandInvStep ==
  ASSUME CommandInv, [HandlerNext]_handlerVars
  PROVE  CommandInv'
<1>1. HandlerTypeOK' /\ DistinctIds'
  BY HandlerStepKeeps DEF CommandInv
<1>2. CASE \E t \in Types, i \in Ids : EnableStream(t, i)
  <2>1. PICK t \in Types, n \in Names : Enabled' = Enabled \union {Item(t, n)}
    BY <1>2, EnableKeeps DEF CommandInv
  <2>. QED  BY <1>1, <2>1, ItemFacts DEF CommandInv, Looked
<1>3. CASE \E t \in Types, i \in Ids : DisableStream(t, i)
  <2>1. Enabled' \subseteq Enabled
    BY <1>3, DisableKeeps DEF CommandInv
  <2>. QED  BY <1>1, <2>1 DEF CommandInv, Looked
<1>4. CASE UNCHANGED registry
  BY <1>1, <1>4 DEF CommandInv, Looked, Enabled
<1>. QED  BY <1>2, <1>3, <1>4 DEF HandlerNext, handlerVars, RejectCommand,
              DeviceMapMessage, Acknowledged, Disconnected

(***************************************************************************)
(* Without RTMP_DEBUG no two enabled devices share type and name, whatever *)
(* commands and maps the Server sends.                                     *)
(***************************************************************************)
THEOREM NoNamesakesInvariant ==
  ASSUME RtmpDebug = {FALSE}
  PROVE  HandlerSpec => []NoNamesakes
<1>1. HandlerInit => CommandInv
  BY CommandInvInit
<1>2. CommandInv /\ [HandlerNext]_handlerVars => CommandInv'
  BY CommandInvStep
<1>. QED  BY <1>1, <1>2, CommandInvImplies, PTL DEF HandlerSpec

(***************************************************************************)
(* Without RTMP_DEBUG a disable leaves no enabled device of the name and   *)
(* the type the command stands for.                                        *)
(***************************************************************************)
LEMMA DisableEmpties ==
  ASSUME CommandInv, [HandlerNext]_handlerVars, NEW t \in Types, NEW i \in Ids,
         DisableStream(t, i), NEW n \in NamesFor(t, i)
  PROVE  Matches(registry', t, n) = {}
<1>1. HandlerTypeOK /\ DistinctIds /\ NoNamesakes /\ HandlerTypeOK'
  BY CommandInvImplies, HandlerStepKeeps DEF CommandInv
<1>2. \A m \in NamesFor(t, i) : m = n
  BY <1>1, NamesForFacts DEF HandlerTypeOK
<1>3. SUFFICES ASSUME NEW k \in DOMAIN registry',
                      NameOf[registry'[k]] = n, TypeOf[registry'[k]] = t
               PROVE  FALSE
  BY DEF Matches
<1>4. registry'[k] \in Enabled'
  BY DEF Enabled, ToSet
<1>5. CASE Matches(registry, t, n) = {} /\ Enabled' = Enabled
  BY <1>3, <1>4, <1>5 DEF Enabled, ToSet, Matches
<1>6. CASE \E d \in Enabled : TypeOf[d] = t /\ NameOf[d] = n /\ Enabled' = Enabled \ {d}
  BY <1>1, <1>3, <1>4, <1>6 DEF NoNamesakes
<1>. QED  BY <1>1, <1>2, <1>5, <1>6, DisableKeeps

(***************************************************************************)
(* The same as an action property of the handler.                          *)
(***************************************************************************)
THEOREM DisableLeavesNoneHolds ==
  ASSUME RtmpDebug = {FALSE}
  PROVE  HandlerSpec => DisableLeavesNone
<1>1. HandlerInit => CommandInv
  BY CommandInvInit
<1>2. CommandInv /\ [HandlerNext]_handlerVars => CommandInv'
  BY CommandInvStep
<1>3. CommandInv /\ [HandlerNext]_handlerVars =>
        [\A t \in Types, i \in Ids : DisableStream(t, i) =>
           \A n \in NamesFor(t, i) : Matches(registry', t, n) = {}]_handlerVars
  BY DisableEmpties
<1>. QED  BY <1>1, <1>2, <1>3, PTL DEF HandlerSpec, DisableLeavesNone
=============================================================================
