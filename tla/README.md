# A TLA+ development of monitor-node

monitor-node runs beside cameras and microphones.  It keeps one WebSocket
connection (WSS) to a Server, which tells it which devices to stream, and runs
one `ffmpeg` process per enabled device that pushes RTMP to that Server.  All
of it is one asyncio event loop with three tasks that matter:

* the **reconciliation tick** (`services/state_machine.py`), which every few
  seconds compares the enabled devices with the running processes;
* the **WSS task** (`network/wss_client.py`), which connects, authenticates,
  hands the Server's commands to `network/command_handler.py`, and after every
  authentication stops all running streams so that they are started again with
  the Server's device ids in their URLs (the callback in `app.py`);
* the **main task** (`app.py: lifespan`), which starts the other two and shuts
  them down.

Paths below are relative to the repository's root.

## Inventory

| component | source | state | operations | talks to |
|---|---|---|---|---|
| stream state machine | `services/state_machine.py` | `_consecutive_failures`, `_dead`, the snapshots of a running tick | `_tick`, `_record_failure`, `stop`, `shutdown` | reads the registry, calls the runner, reads and pops the runner's `_processes` |
| ffmpeg runner | `services/ffmpeg_runner.py` | `_processes`: device id -> subprocess | `start_stream`, `stop_stream`, `stop_all`, `list_running`, `kill_zombies`, the RTMP URL | called by tick, callback and main; the operating system |
| device registry | `services/device_registry.py` | ordered dict of enabled devices | `add`, `remove`, `list`, `snapshot` | command handler writes, tick and heartbeat read |
| devices and maps | `network/models.py` | cached enumeration, per type a dict Server id -> name | `set_server_device_maps`, `clear_server_device_maps`, the lookups | written by WSS client and handler, read by handler and runner |
| command handler | `network/command_handler.py` | none of its own | `dispatch`: `UPDATE_STREAM`, `device_map` | registry, maps, `WssClient.send` |
| WSS client | `network/wss_client.py` | `_ws`, `_connected`, `_auth_status`, `_session_token`, `_backoff` | `_connect_loop`, `_authenticate`, `_heartbeat_loop`, `_receive_loop`, `stop` | handler and callback (awaited calls), maps |
| lifespan | `app.py` | process handles of the two helper servers | startup order, restart callback, shutdown order | everything |
| helper servers | `app.py`, `rtmp_server/` | one subprocess each, its stdout pipe and drain task | start, early-exit check, drain, kill | only under `RTMP_DEBUG`, `DEBUG_WSS` |
| device enumerator and capture drivers | `services/device_enumerator.py`, `services/capture/` | ids seen so far, the modes of a camera per driver object | enumeration, `parse_device_list`, `capture_command`, mode probe | lifespan once per run, the runner once per spawn |
| encoder resolver | `services/capture/encoder_resolver.py` | the encoders found, for the life of the program | `_detect`, the choice by priority | the capture drivers |

**Where it gets hard.**  Nothing runs in parallel, but every `await` lets the
other tasks run: `stop_stream` pops its entry and then waits up to five
seconds; a spawn is awaited between the check of `_processes` and the store
into it; a tick works on snapshots across four kinds of awaits; the callback
holds up the receive loop while the tick goes on.  Processes die at any
moment, ignore SIGTERM, or block on a pipe nobody reads, and a wait for such a
one may never return.  The Server closes
connections or vanishes, refuses tokens, sends commands before the
acknowledgement, malformed messages, and maps that differ from the last ones.
A shutdown cancels whatever is going on, and a crash leaves ffmpeg and helper
processes to the next run.

**What makes each component correct.**

* Runner: every handle has one owner, no live process is forgotten; two devices
  do not share a URL without cause.
* State machine: a complete tick stops what is not enabled; a device given up
  stays down; enabled devices get a process again and again until then;
  disabled ones end up without one.
* Handler, registry and maps: one enabled device per name and type, a disable
  finds it, an enable has an effect.
* WSS client: each message handled once, in order, after the acknowledgement;
  it never stops trying, nor stops its heartbeats, nor leaves a connection
  behind.
* Lifespan: the startup and the shutdown end whatever the helpers do; the
  shutdown goes from streams to servers and leaves no helper; after it every
  stream has been told to end; no stream runs beside a leftover one.
* Helper servers: no child is blocked by its own output.
* Drivers: ids are distinct; a camera is opened in a mode it has; all streams
  use one encoder.

## Modules

``` DeviceItems <- DeviceRegistry, DeviceMaps <- CommandHandler ---+ DeviceItems
<- FfmpegRunner <- StreamStateMachine -------------+-> MonitorNode |       |
refines       refines |       | LinkProtocol         StreamContract |       |
refined by         built upon by |       | WssClient       Lifespan

ChildPipe      DeviceIds      StreamNames      CaptureCommand       (alone)
```

* **DeviceItems**: constants only, the devices (`DeviceItem`) with name and
  type, the cached enumeration, and the placeholder item the handler builds for
  a name it does not find.
* **DeviceRegistry**: the dict as a sequence without duplicates, since the
  handler takes the first match in insertion order.  `AddDevice` and
  `RemoveDevice` are single steps because no critical section of the
  `asyncio.Lock` awaits.
* **DeviceMaps**: `serverMap` per type, a sequence of (id, name) because
  `get_server_device_id` takes the first entry with a name.  `SetVideosOnly` is
  the malformed `device_map` that assigns the first map and then raises.
* **CommandHandler**: `EnableStream`, `DisableStream`, `RejectCommand`,
  `DeviceMapMessage`, one action per branch of `dispatch`, and a small
  specification of its own (`HandlerSpec`).
* **FfmpegRunner**: `processes` is `_processes`; `proc` holds the operating
  system's processes; `stopping[t]` is the process whose exit task `t` awaits
  inside `stop_stream`.  `StopStream` is the call up to its first await,
  `StopTimeout` the five-second timer, `StopReturns` its return, `Abandon` its
  cancellation, `Spawn` the return of `create_subprocess_exec`, `ProcExits` the
  operating system.  asyncio of Python 3.12 (`environment.yml:6`) wakes a
  `wait()` that has begun only when the pipes are closed too, and the paused
  transport of a stderr nobody reads never is (`ChildPipe`): a process killed
  in that state is `"silent"`, its return code is set, and the task that awaits
  it is `Stuck` until it is cancelled.  Whether stderr was full is a free choice
  at the exit.  A handle whose process is gone and that nobody refers to
  returns to the pool `Procs`.
* **StreamStateMachine**: `pc` is where the tick is, `snapEnabled`,
  `snapRunning`, `todo`, `cur` its local variables.  Awaits are the phases
  `sleep`, `spawn`, `read` and `stop` with a process being awaited; in every
  other phase `TickBusy` keeps the other tasks out.  One action per branch of
  `_tick`; sets are iterated in any order, as Python's are.
* **MonitorNode**: composes the above with the WSS task (reduced to what it
  does to devices) and the main task.  `LoopFree` is the event loop: a task is
  resumed only when no task is between two awaits.
* **LinkProtocol**: the abstract specification of the WSS task: acknowledge,
  handle messages, callback, lose the connection, stop, and when the maps may
  change.
* **WssClient**: the client in detail, one action per stretch of code between
  awaits, with the session as its two tasks (`hb`, `rx`).  `ws` is the socket:
  a peer may close it or vanish (`half`), after which a heartbeat is
  `unacked` until the kernel gives up.  A message is the acknowledgement, a
  numbered message for the handler, invalid JSON, JSON that is no object, or an
  acknowledgement with a malformed token or list; the last two raise where
  nothing but the connect loop catches them, and the socket stays open
  (`broken`).  Token and deadline of the authentication, the buffer it fills,
  and the cancellation of one session task by the other are actions.
* **StreamContract**: the abstract specification of the streams: processes are
  started while the state machine runs, told to end one by one, exit by
  themselves; `shutdown()` returns when none is left that has not been told.
* **Lifespan**: `lifespan()` over any number of runs on top of
  `StreamContract`, and instead of the detailed node.  `phase` is the line it is
  at; `handle` the two globals, `helper` the processes behind them, `taken` the
  ports held by leftovers or strangers, `old` the ffmpeg of earlier runs.  A
  `Crash` anywhere leaves everything to the next `Boot`.  `elapsed` adds up the
  waits of the startup in half seconds, those for the output of a mock server
  that has exited included.  A helper killed while its drain task no longer
  reads is `"silent"`, as in `FfmpegRunner`.
* **ChildPipe**: the output of one child: OS pipe, StreamReader with its limit
  and pause, `_drain_stdout`.  `Drained` tells a helper's stdout (`TRUE`) from
  ffmpeg's stderr (`FALSE`).
* **DeviceIds**: the ids the three drivers give to the lines of a device list
  and the handler to its placeholders, and the registry keyed by them.  An id
  is kept in the parts its string is put together from; `Free` is the search of
  `_unique_id`, and `Forms` are the spellings `_slugify` does not tell apart.
* **StreamNames**: `_sanitize_stream_name` on sequences of character classes
  (letters, blank, underscore, punctuation, non-ASCII), and the URL of a stream
  with the Server's id at the time of its start.
* **CaptureCommand**: the encoder probe and its cache, the priority list, the
  mode probe of the DirectShow driver and `_select_mode`.  `Replug` exchanges a
  camera while its stream is down.
* **MC\***: instances, where the configuration file alone cannot say them.
  **\*_proofs**: theorems.

In `DeviceIds`, `LostEnablesClash` and `EnableTakesEffect` look at the last
command answered with success (`answered`).

Two contracts hold the parts together.  `WssClient` and `MonitorNode` meet at
`LinkProtocol`: each implements it (property `ImplementsLink` of either), so
what `MonitorNode` assumes of the WSS task is what `WssClient` provides.
`MonitorNode` and `Lifespan` meet at `StreamContract`: `MonitorNode` implements
it (`ImplementsStreams`), `Lifespan` knows nothing else of the streams.

## Runs

| run | instance | shows |
|---|---|---|
| `node_safety` | 2 cameras, 4 handles, `MaxFailures` 1, one camera with a driver that may raise, empty and full maps, with and without `RTMP_DEBUG`; 1.4 million states | `TypeOK`, `SingleOwner`, `NothingOrphaned`, `ShutdownSignalsAll`, `GivenUpStaysDown`, `AtMostTwo`, `TickReconciles`, `RestartMissesOne`, `ImplementsLink`, `ImplementsStreams` under every interleaving of tick, restart, commands, crashes, timeouts and shutdown |
| `node_liveness` | 1 camera whose driver may raise, 3 handles; 6 300 states | `DisabledStops`, `EnabledRuns`, `ShutdownEnds`, each with the ways out it names: a wait for a killed process that never returns, a driver that raises again and again |
| `commands` | 2 identical cameras, a microphone of the same name, a device only the Server knows; 25 pairs of maps | `NoNamesakes`, `DisableLeavesNone` |
| `wss` | 3 messages a connection, 2 unread, backoff 1, 2, 3; 210 000 states | `TypeOK`, `InOrder`, `OwnIdentity`, `TasksEndClosed`, `KeepsTrying`, `HeartbeatsGoOn`, `LeavesNoneOpen`, `ImplementsLink`, whatever the Server sends and however the connection ends |
| `lifespan` | the code's waits, 2 ffmpeg handles, any number of runs; 25 000 states | `CleanExit`, `ServerOutlivesStreams`, `NoOldStreams`, `StartupEnds`, `ShutdownEnds` |
| `child_pipe` | limit 2, pipe 3, lines of up to 3 | `DrainedNeverStuck`: while its drain task lives a helper is never blocked for good; `EndsForCause`: the task ends early only over a line beyond the limit |
| `device_ids` | lists of up to 4 devices, all three drivers; 800 000 states | `IdsDistinct`; `LostEnablesClash`: an enable without effect has met a placeholder and a listed device with one id |
| `stream_names` | names of up to 5 characters, two letters and every other class; 224 000 states | `SafeNames`, `SpacedNamesAgree` |
| `capture_command` | 2 cameras, 1 microphone, 3 ffmpeg builds, 21 lists of modes; 86 000 states | `OneEncoder`, `ModeOffered` |
| `shutdown_hangs`, `removed_device_stops`, `ffmpeg_stderr` | as `node_liveness` with a driver that does not raise; as `node_safety` with `MaxFailures` 0 and one map; as `child_pipe` without a drain task | each finds a behaviour that contradicts a statement of the repository, see Findings |

**Bounds.**

* `Devices`: two devices are needed for one device's exception or stop to hold
  up another; the tick treats devices independently otherwise.  The liveness
  run has one: its properties are per device, and with two the temporal check
  did not come to an end in several minutes for any of the instances tried
  (54 000 to 216 000 states).  That a raising driver of one device keeps the
  stream of another is what `removed_device_stops` shows with two; that nothing
  else of one device holds up another for ever is not checked.
* `Procs`: a device holds at most one handle in `_processes`, the WSS task and
  either tick or main one more each, so `|Devices| + 2` handles are enough for
  a spawn never to lack one (`RunnerAssumption`).
* `MaxFailures` 1: a first failure, a retry, and giving up all happen;
  `MCDeadAfter.cfg` uses the code's 5, run `removed_device_stops` 0 to keep the
  graph small.
* `MapChoices`, `Names`, `Ids`: enough for a name to change its id, an id its
  name, and either to be missing.
* `MaxData`, `MaxInbox`, `MaxBackoff`: two messages can be put aside while a
  third is in transit; the backoff doubles, meets its cap and stays there.
  `rejected` counts to 2, which is what `RejectionsBackOff` needs.
* `Limit` 2, `PipeSize` 3, `MaxLine` 3 (for 64 KiB and the pipe's size): a line
  may fit the limit or exceed it, the buffer may pass twice the limit and
  pause, and the pipe may be full behind it.
* `MaxDevices` 4: two names that collide, a third that ends in the number the
  second would get, and one more.
* `MaxName` 5: leading, inner and trailing runs of every class next to one
  another.  Sanitisation has no state from one name to the next, so one device
  is enough.
* `Offers` of up to two modes: every pair is compared; the choice is a minimum
  over pairs.
* `EnumTimeout` 30, `MockWait` 3, `ReadWait` 1, `LineWait` 10, `RtmpWait` 1: the
  waits of the code in half seconds, not bounds.  `MaxLines` 2 bounds the lines
  a mock server that exited has left: none, one and several; they only
  lengthen `elapsed`.

**Fairness.**  asyncio runs ready callbacks in FIFO order, so a task that is
ready again and again gets its turn: in `MonitorNode` strong fairness for each
task's resumption (`TickAwaits`, `LinkAwaits`, `MainAwaits`), weak fairness for
a task that holds the loop.  Timers fire (`TimerFires`), a spawn returns (either
way), and the operating system ends a process that was sent SIGKILL
(`KillTakesEffect`).  Not assumed: that ffmpeg obeys SIGTERM or ever exits by
itself, that the wait for a killed one returns, that the Server sends anything,
that a connection succeeds or breaks, that the node is shut down.  The liveness
properties therefore name what the code itself lets go wrong, `Stuck` and
`TickRaises`, both findings, and say that nothing else does.

In `WssClient` weak fairness is enough since its conditions persist: calls other
than the callback return (that one stops streams and may be stuck), sleeps and
the authentication deadline end, a closed connection is noticed by `recv()`, and
the kernel does not retransmit an unacknowledged heartbeat for ever
(`KernelGivesUp`; on this alone rests that a session whose peer has vanished
ends, since the client asks for no pings).  In `Lifespan` the main task goes on
(`Starting`, `Stopping`) and a SIGKILLed helper exits; not assumed is that the
`shutdown()` of the streams returns, nor anything of a helper that was sent
SIGTERM, nor that it listens or prints a line.  In `ChildPipe` the event loop
runs the transport and the drain task; the child is free to stop writing.

`Halted`, `Stopped` and `Boot` keep the ended programs going, so only the runs
of `ChildPipe` switch the deadlock check off: a child that has exited, with its
output read, does nothing more.

## Findings

Each is a run TLC ends with a counterexample; `PROJECT.json` quotes the text.

* `shutdown_hangs`: once an ffmpeg has blocked on its full stderr it does not act
  on SIGTERM, and after the SIGKILL asyncio does not wake the `wait()` at
  `ffmpeg_runner.py:141`, which has no timeout: `stop_all` hangs and the node
  never exits.  The tick and the restart callback may hang at the same line.
* `removed_device_stops`: an exception in one device's `capture_command` ends
  every tick before it stops anything, so a device that was disabled streams on.
* `ffmpeg_stderr`: ffmpeg's stderr is a pipe that is read only once ffmpeg has
  exited.  Transport and pipe fill up, ffmpeg blocks in a write, and the tick,
  which looks at the return code, takes it for healthy for ever.

### Further disagreements

The following were met in the same way.  Each has a configuration of its own,
`tlc -config <cfg> <module>`, and TLC finds the counterexample; they are not
part of the project's runs.

| name | cfg, module | what the code does | what is written |
|---|---|---|---|
| one_process | `MCOneProcess.cfg`, `MCMonitorNode` | Between the pop and the end of `stop_stream` in the restart callback (`ffmpeg_runner.py:132`) a tick starts a second ffmpeg for the device, never a third (`AtMostTwo`). | "Node SHALL start one ffmpeg subprocess for that device", `openspec/specs/rtmp-streaming/spec.md:48` |
| restart_urls | `MCRestartUrls.cfg`, `MCMonitorNode` | A spawn under way at the acknowledgement has its URL already (`ffmpeg_runner.py:100`), is not yet in `list_running()`, and keeps device id 0.  It is the only one to (`RestartMissesOne`). | "认证成功后自动重启所有运行中的流，使 RTMP URL 包含 Server 侧 device_id", `app.py:299` |
| shutdown_waits | `MCShutdownWaits.cfg`, `MCMonitorNode` | A cancelled `stop_stream` neither kills nor awaits its process, which `stop_all` no longer knows (`state_machine.py:71`); it has been sent SIGTERM (`ShutdownSignalsAll`), but the node may end before it. | the node terminates every ffmpeg and "等待完成后再退出", `openspec/specs/stream-state-machine/spec.md:47` |
| dead_after_max | `MCDeadAfter.cfg`, `MCMonitorNode` | The comparison is `>` (`state_machine.py:166`): given up at the sixth failure.  The passing properties encode this comparison and do not see the difference. | "Mark device dead after _MAX_FAILURES consecutive failures", `state_machine.py:160`.  `openspec/specs/stream-state-machine/spec.md:24-33` goes further: at most 3 retries, and then the device is marked and a warning sent to the Server over WSS; the code has 5 and sends nothing. |
| namesakes | `MCNamesakes.cfg`, `MCCommandHandler` | With `RTMP_DEBUG` and two identical cameras a disable reported as successful leaves one of them streaming (`command_handler.py:130`). | "WHEN a streaming device is disabled THEN Node terminates the corresponding ffmpeg process", `openspec/specs/rtmp-streaming/spec.md:63-64` |
| session_cleared | `MCSessionCleared.cfg`, `MCWssClient` | After a lost connection session token and maps remain (`wss_client.py:396`). | "Node SHALL 在 WSS 断开后清除本地 `session_token` 和设备映射表", `node-identity/spec.md:40` of the change `2026-07-09-align-wss-with-server-protocol` |
| rejections | `MCRejections.cfg`, `MCWssClient` | The backoff is reset before the authentication (`wss_client.py:170`), so refused ones never back off. | "进入重连流程（使用指数退避）", `node-identity/spec.md:29` of the same change |
| connects_in_time | `MCConnectsInTime.cfg`, `Lifespan` | The client starts after the enumeration (up to 15 s) and the helpers (`app.py:261`). | "Node 启动后 SHALL 在 10 秒内主动向 Server 发起 WebSocket 连接", `wss-connection/spec.md:6` of the change `debug-wss-and-channel-convergence` |
| port_occupied | `MCPortOccupied.cfg`, `Lifespan` | An RTMP server without its port that has not exited when it is looked at counts as started (`app.py:218`), and all devices are enabled. | "系统输出明确错误信息，不启动推流", `embedded-rtmp-server/spec.md:10-12` of the change `2026-07-08-media-foundation-capture` |
| long_line | `MCLongLine.cfg`, `ChildPipe` | A line beyond 64 KiB ends the drain task (`app.py:189`), and the helper blocks. | "防止管道缓冲区阻塞", `app.py:180` |
| enable_takes_effect | `MCEnableTakesEffect.cfg`, `MCDeviceIds` | A placeholder whose id an enumerated device holds is ignored by the registry, and success is reported (`command_handler.py:118`). | "Node 创建占位 DeviceItem(...) 并加入 registry", `server-device-mapping/spec.md:35` of the change `2026-07-09-align-wss-with-server-protocol` |
| listed_types | `MCTypesAsListed.cfg`, `MCDeviceIds` | On macOS the type is guessed from words in the name (`ffmpeg_avfoundation.py:29`): the microphone of a webcam becomes a video device. | the node parses "设备名和类型" from the list, `openspec/specs/device-enumeration/spec.md:18` |
| named_as_server | `MCNamedAsServer.cfg`, `StreamNames` | Names are stripped of non-ASCII and punctuation (`ffmpeg_runner.py:68`). | "the same normalization rule used by Server", a mere `replace(" ", "_")`, `openspec/specs/rtmp-streaming/spec.md:12-16` |
| dedicated_urls | `MCDedicatedUrls.cfg`, `StreamNames` | Without ids two names that differ only in what is removed, such as two in Chinese, share one URL (`ffmpeg_runner.py:82`). | "Each device gets a dedicated RTMP URL", `rtmp-streaming/spec.md:5` of the same change |
| mf_preferred | `MCMfPreferred.cfg`, `MCCaptureCommand` | `h264_mf` comes last but one in the priorities (`encoder_resolver.py:21`). | "`capture_command()` 使用 `-c:v h264_mf`" when it is available, `openspec/specs/dynamic-encoder-selection/spec.md:24-25` |

## What is proved

TLAPS checks the theorems below for every value of the constants that satisfies
the named assumptions: any finite set of devices, any maps, any limit of
failures, any pool of handles (`DevicesAssumption`, `MapsAssumption`,
`RunnerAssumption`, `StateMachineAssumption`); any backoff bounds and any number
of messages (`WssAssumption`); any waits (`LifespanAssumption`); any lines of a
device list (`DeviceIdsAssumption`); names of any length over any letters
(`StreamNamesAssumption`); any lists of preferred and offered modes, cameras not
being microphones (`CaptureAssumption`); any limit, capacity and length of a
line (`PipeAssumption`).  Every safety and action property of the passing runs is
a theorem.

* **MonitorNode_proofs**: `TypeCorrect`, `SingleOwnerHolds`,
  `NothingOrphanedHolds`, `ShutdownSignalsAllHolds`, `GivenUpStaysDownHolds`,
  `TickReconcilesHolds`, `AtMostTwoHolds`, `RestartMissesOneHolds`,
  `NodeImplementsLink`, `NodeImplementsStreams`; and `SpawnFindsHandle`, that
  the bounded pool of handles hides no behaviour.
* **NodeOperations_proofs**: lemmas about the operations the node is composed
  of, and about the handler's own specification under `RtmpDebug = {FALSE}` (the
  registry starts empty) `NoNamesakesInvariant` and `DisableLeavesNoneHolds`.
  With `RTMP_DEBUG` they fail (see namesakes).
* **WssClient_proofs**: `TypeCorrect`, `InOrderHolds`, `OwnIdentityHolds`,
  `TasksEndClosedHolds`, `ClientImplementsLink`, `LeavesNoneOpenHolds`.
* **Lifespan_proofs**: `CleanExitHolds`,
  `ServerOutlivesStreamsHolds`, `NoOldStreamsHolds`.
* **DeviceIds_proofs**: `IdsDistinctHolds`, `LostEnablesClashHolds`.
* **StreamNames_proofs**: `SafeNamesHold`, `SpacedNamesAgreeHolds`.
* **CaptureCommand_proofs**: `OneEncoderHolds`, `ModeOfferedHolds`.
* **ChildPipe_proofs**: `EndsForCauseHolds`.

*The argument for the node.*  None of the safety properties is inductive
alone.  `TickReconciles` needs that in the stop phase every tracked device is
enabled in the snapshot or still to be stopped, which needs that in the start
phase it was in one of the two snapshots.  `GivenUpStaysDown`, and with it the
bound on the failure counts, needs that a device in the spawn is neither given
up nor tracked, and that a crash is only recorded for a device not given up.
`NothingOrphaned` needs that the entry popped after a crash is the one that was
found dead, or gone.  `TickPlan` says this for each phase, `MainPlan` says how
far the shutdown has come.  Every operation of the runner has a lemma in
`NodeOperations_proofs` about what it preserves; from the point of view of the
tick, what the others do at its awaits can only remove entries and end
processes, and the lemma `OthersStep` shows once that the plan survives this.
Only the tick starts processes, so each tick action is then a lemma of its own.

*How many processes.*  Every step but a spawn adds no live process to any device
(`NothingNew`, `StepNew`).  At a spawn the tick awaits no process, and main none
before the shutdown (`MainIdle`); the device has no entry, so the one process it
may still have is what the callback waits for (`SpawnOwners`), and the spawn
makes it two.  Since a handle whose process is gone is in use only while it is
stored or awaited (`Freed`), the same observation shows `SpawnFindsHandle`: at a
spawn the handles in use are one for each device and the callback's.

*What the restart misses.*  The callback begins with the list of all tracked
streams.  From then on there is at most one device with a stale URL that is not
on the list any more or not yet tracked (`StalePlan`): the one whose spawn was
under way.  The maps stay as they are while the callback runs, so a later spawn
has the right URL, and the list loses only what `stop_stream` has popped.  When
the callback is done its list is empty.

*The argument for the handler.*  The invariant is `Looked`: an enabled device
is what the enumeration yields for its own type and name.  Two enabled devices
with the same type and name are then one.  A disable needs besides that an id
names one device (`DistinctIds`), since maps change half at a time.

*The refinements.*  `NodeImplementsLink` maps `serverMap` to the abstract maps.
It needs that `serverMap` stays within what the Server sent (half of one pair
and half of another included) and that the link is off exactly when the node
has halted.  `ClientImplementsLink` maps the client's position to the state of
the link; its invariant is the type invariant.  `NodeImplementsStreams` maps the
processes to those not yet and those already told to end; each operation of the
runner touches one process at most, so each is one step of the contract or
none, and the return of `shutdown()` is allowed by `ShutdownSignalsAll`.

*The argument for the client.*  `OrderInv` looks at the messages put aside
followed by the unread ones as one queue: what was handled lies within what
arrived, the numbers of the queue are the run between the two, and nothing is
put aside outside authentication and the draining of the buffer.  Reading,
buffering, handling and arrival each take or add one end of that run.
`LeavesNoneOpen` needs that on every way back to the connect loop the socket is
closed or absent, or a message has raised (`GoneInv`).  `TasksEndClosed` needs
that `_connected` is cleared only at a closed socket, from the connection on
(`SocketInv`); `OwnIdentity` is inductive with the types, and what makes the
finding session_cleared harmless for token and status: they outlive the
connection, but not into the next one.

*The argument for the lifespan.*  The state of the streams and the handles
follow the phase (`InPhase`, `Held`); a helper that runs has its handle, so each
stop finds it (`Ended`); and after a clean-up that did not fail there is nothing
old (`Cleared`).

*The argument for the ids.*  `_unique_id` tries numbers until one is free.  With
n ids seen, one of the first n + 1 is free by the pigeonhole principle
(`FreeExists`), the least exists (`Least`), and the type in front keeps the ids
of cameras and microphones apart.  For `LostEnablesClash` every
device is either one of the list or the placeholder of its type and name; two
of the list with one id are the same, two placeholders with one id have the
same type and name, and a listed id either has its device's type in it or none,
as on Linux, and is then no placeholder's (`SameId`).

*The argument for the names.*  A selection of positions is proved to list them
in order (`PickedLists`, by counting those below each), and two lists of one set
agree (`ListsAgree`).  Each stage of the sanitisation leaves a rising map from
the positions of its result to those of its argument that misses no letter and
changes none (`LettersKept`); such maps compose (`KeptTransitive`), and names
between which there is one have the same letters in order (`KeptLettered`).
Merging leaves no two underscores side by side (`MergedFacts`: neighbours of a
list have no element between them), stripping none at the ends (`StripFacts`).

*The argument for the commands.*  Once a camera films, the probe has been
asked, its answer never changes, and each encoder is a function of it.  The
lexicographic order of the scores is total (`ScoresOrdered`), so a list of modes
has a first best one (`FirstExists`, found mode by mode), which makes the choice
in `SelectMode` one; and the offer of a camera is fixed while it films
(`ModeInv`).

*The argument for the pipe.*  The task ends early only where the reader finds
more than the limit before the end of the first line, and `LineEndFacts` says
which position that end is, for any buffer.

Only model-checked: the liveness properties (`DisabledStops`, `EnabledRuns`,
`ShutdownEnds`, `StartupEnds`, `KeepsTrying`, `HeartbeatsGoOn`,
`DrainedNeverStuck`), since fairness and ENABLED are outside the prover's reach;
and the violations.

## Not modelled

* Wording of log lines and responses, `_was_connected`, `max_retries` (nothing
  reads it), status fields.
* In `WssClient`: where URL and token come from, and the text of the device list
  in a heartbeat.  They change no state.
* How long the synchronous probes of the DirectShow driver hold up the event
  loop (up to ten seconds a start).  In the models they are one atomic step,
  which is what they are for the order of things.
* The Node.js programs of the helper servers beyond listening, printing,
  failing and exiting; the search for the ffmpeg binary on the disk.
* The commands of the AVFoundation and V4L2 drivers, which are constant text,
  and `media_foundation.py`, which `get_capture_driver` never selects.
* Process entry (`run.py`), constants, the mock server and the tests.

## What is left

1. The heartbeat's merged device list against the maps: which devices the
   Server is told about when an id has changed since.
2. The duration of probes and ticks against the heartbeat interval, once a
   document states a bound for it.
