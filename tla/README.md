# A verification project for haptic-relay-desktop

haptic-relay-desktop is an Electron application and a small relay server.
A *host* publishes motion frames into a room; every *viewer* of the room
receives them and drives a serial (T-Code) device with them. What must not go
wrong is physical: a device that moves after a stop, a port nobody can close
any more, an emergency stop that does not reach somebody, a room that keeps
viewers it does not list.

This directory holds TLA+ models of the parts of the system where those things
are decided, TLC runs that check them on small instances, and theorems about
them that TLAPS checks for every value of the constants. `PROJECT.json` is the
machine-readable index: which definition stands for which source lines, which
run checks which property, which mutation of the model breaks it, the hazards
of the code and the disagreements found.

Paths are those of the repository: `electron/` is the main process of the
application, `src/` its window, `server/` the relay.

## 1. Inventory

| component | source | state it keeps | operations | hard behaviour | module |
|---|---|---|---|---|---|
| Hardware controller | `electron/services/hardware-controller.ts` | port references (current, ready, failed, stale), latest frame, flush timer, emergency latch, writes in flight, queue of lifecycle operations, pending closes | connect, disconnect, room-exit stop, motion, protection, emergency stop and release, test pattern | every operation awaits a port that may never answer, may answer after its timer, or may be unplugged | `HardwareController`, `OutputGate`, `OutputRange` |
| Relay server | `server/src/relay-server.ts` | active rooms, bindings, approvals, blocked names, grace timers, last sequence, token buckets | create, join, approve, kick, block, stop, motion, disconnect | connections noticed late, grace timers, awaits between check and use | `RelayServer`, `HostLists`, `MotionPath`, `MotionPacket`, `TokenBucket`, `RateLimiter` |
| Room registry | `server/src/room-registry.ts` | room records, in memory or in Redis | create, get, attach host, remove, list, choose a node | read-modify-write across awaits, several servers, expiry | `RelayServer`, `RedisRegistry` |
| Control tokens | `server/src/control-token.ts` | none | issue, verify | a lifetime of their own | `RedisRegistry` (lifetime) |
| Relay client | `electron/services/relay-client.ts` | socket, session, lifecycle generation, rejoin, latest frame, playback timer | create, join, rejoin, disconnect, stop, publish, delay | calls superseded at each await, lost connections, late answers | `RelayClient` |
| Motion sequence | relay client (tracker), relay server (`resolveForwardedSequence`) | last sequence, losses | accept, forward, reset | wrap at 2^32, restart of the sender, old packets | `MotionPath` |
| Motion packets | `electron/motion-packet.ts`, `src/shared/motion-packet.ts` | none | encode, decode | widths, missing fields, two roundings | `MotionPacket` |
| Motion delay buffer | `electron/services/motion-delay-buffer.ts` | bounded queue, last sample | enqueue, sample, clear | late timers, overflow, changed delay | `MotionDelay` |
| Demo motion stream | `demo-motion-stream.ts`, `demo-motion-pattern.ts`, `manual-motion-safety.ts` | mode, position, timer | start, update, stop, speed | calls between the ticks | `DemoMotion` |
| Rate limiting | `server/src/http-security.ts`, relay server | windows, tokens | consume, refill | bounded table, clock | `RateLimiter`, `TokenBucket` |
| Settings | `electron/settings-file-store.ts`, `app-settings.ts`, main, window | the file, pending operations | read, save, set the delay | failures, crashes, overlapping requests | `SettingsFile`, `OutputRange` |
| Diagnostic log | `electron/diagnostic-log-store.ts` | generations of files, queue | record, rotate, disable, flush | failure or end between two renames | `DiagnosticLog` |
| Output log | `hardware-output-session-store.ts`, `hardware-output-window-manager.ts`, `output-log-model.mjs`, `HardwareOutputLogView.tsx` | rows of a session, copy in the log window | append, reset, snapshot, scroll | snapshot and events cross | `OutputLog` |
| Application main | `electron/main.ts`, `preload.cts`, `window-messenger.ts` | wires all of the above | IPC handlers, shutdown | a stop needs device and relay; shutdown during operations | `Desktop`, `Shutdown` |
| Renderer | `src/App.tsx`, `src/ui`, `src/qr-code.ts` | a copy of everything shown | actions, event listeners | answers and events in any order | `Desktop`, `RoomDirectory`, `HostLists`, `Invites`, `OutputRange`, `QrCode` |
| Protocol types, presentation, launchers, tests | `protocol.ts`, `src/ui/views`, `deploy/`, `demo/`, `scripts/` | none | | | not modelled |

How they interact: the window calls the main process by IPC; the main process
owns one `HardwareController` and one `RelayClient` and connects them by
callbacks (a received frame is `queueMotion`, a received `room:stop` is
`latchEmergencyStop`, a `viewer:removed` is `stopForRoomExit`). The client talks
to the relay server by socket.io events and HTTP, the server to the registry by
awaits. Nothing shares memory across processes.

What makes each component correct is stated by the properties of the runs
(section 3); the hazards they answer are listed in `PROJECT.json`.

## 2. Modules and conventions

```
HardwareController --implements--> OutputGate      RelayServer           RelayClient
  MCHardwareController                               MCRelayServer         MCRelayClient
  HardwareController_proofs, HardwareGate_proofs     RelayServer_proofs    RelayClient_proofs

Desktop (window, main process, abstract device and room)
  MCDesktop, Desktop_proofs

MCParts: MotionDelay MotionPath MotionPacket DemoMotion TokenBucket RateLimiter RedisRegistry
         RoomDirectory HostLists SettingsFile DiagnosticLog OutputLog OutputRange Invites Shutdown QrCode
  DesktopParts_proofs   Shutdown, SettingsFile, OutputRange, Invites, DemoMotion, DiagnosticLog,
                        OutputLog
  RelayParts_proofs     TokenBucket, MotionPacket, RoomDirectory, MotionDelay, RateLimiter
  RoomParts_proofs      RedisRegistry, HostLists, MotionPath
```

* One action per handler, timer, callback or continuation; the names are those
  of the code.
* JavaScript runs to completion: an action is the code from an event to its
  next `await`, including everything it calls in between.
* Mutated definitions stand next to the definition they mutate and begin with
  the comment "Mutant"; nothing in a specification uses them. `PROJECT.json`
  names for every property the mutant that breaks it.
* An inductive invariant stands at the end of the module it is about, as a
  conjunction of named parts (`IInv`, or `...Inv` in a part), so that TLC can
  check it on the instance of a run before it is proved; the theorems and their
  lemmas are in the `..._proofs` modules.
* Model values stand for ports, calls, connections, rooms and names. `None` is
  the code's `null` or `undefined`.
* Each module of `MCParts` has variables, an Init, a Next and a property of its
  own names, so that they can be extended together. `MCParts` picks one part in
  the initial state and lets only that one move: the state space is the sum,
  not the product, of the parts.
* `Desktop` composes window, main process, device and room. Of the device it
  keeps what `OutputGate` says, which `HardwareController` is checked to
  implement; of the room whether there is a session, which is what
  `RelayClient` decides.

## 3. Runs

| run | states | instance | properties |
|---|---|---|---|
| `hw_safety` | 1,435,900 | 2 port objects, one latch call that writes, a test pattern of 2 steps, one operation queued behind the running one | `LatchedDeviceStopped` `StoppedBeforeClose` `RoomExitHoldsStop` `PortsAccountedFor` `UnexpectedLossLatches` `MovesOnlyWhenAllowed` `ImplementsGate` |
| `hw_liveness` | 62,726 | fair, 2 port objects, one operation at a time, no symmetry | `LifecycleCompletes` `FramesLeave` |
| `relay_redis` | 548,333 | 2 host and 2 viewer connections, capacity 1, two registry calls in flight, late disconnects | `FanoutIsViewerList` `ApprovalNeeded` |
| `relay_memory` | 528,879 | 2 hosts, 3 viewers, 2 names, capacity 2, late disconnects | `CapacityKept` `ClosedRoomIsEmpty` `LiveHostKeepsRoom` |
| `relay_inorder` | 255,344 | fair, 2 rooms, 2 hosts, 1 viewer; old connections end before the host is back | `HostCanPublish` `HostlessRoomGoes` |
| `client` | 50,714 | 4 calls, 2 lost connections, 3 packets in flight | `SessionIsCurrent` `RelayAgrees` `NothingStale` `RejoinSettles` |
| `desktop` | 717,967 | 2 actions that await answers, one event that waits beside the replies | `LatchShown` `LeavingStops` `ButtonsComeBack` |
| `parts` | 443,646 | section 7 | one or two for each part |
| `relay_late` | violation | | `HostCanPublish`, section 8 |
| `desktop_exit` | violation | | `StoppedOutsideRooms`, section 8 |
| `host_requests` | violation | | `WaitingIsShown`, section 8 |
| `path_restart` | violation | | `NoFrameRefused`, section 8 |

The type invariants of `HardwareController`, `RelayServer`, `RelayClient` and
`Desktop` are theorems (`TypeCorrect`), those of the parts with a proof are conjuncts
of their inductive invariants. They and the inductive invariants hold on the
instances above when added to the configurations, and no run repeats this, since
they say nothing of the code that the other properties do not need.

## 4. HardwareController

### State and actions

`HardwareController` models `hardware-controller.ts` whole, except port
enumeration, which only reads.

| model | code |
|---|---|
| `port`, `readyPort`, `failedPort`, `stalePorts` | the fields of these names |
| `connected` | `connectionStatus.connected`, as last reported |
| `protection`, `latestFrame`, `flushTimer`, `emergencyStopped` | the fields of these names; a frame is the protection it was clamped under |
| `patternPc`, `patternStep`, `patternLive` | a call of `runTestPattern`, its step, and whether `operationGeneration` is still the one it read |
| `write`, `writePort` | `activeWrites`, one per owner; `writing` is the flush's |
| `queue`, `pc`, `cur`, `todo`, `version` | `lifecycleTail`: the head of the queue is the operation that runs, `pc` the await it is at, the others its local variables |
| `transition`, `Gated` | `lifecycleTransition`; `lifecycleGates`, derived from the queue |
| `precedingFailed` | whether the disconnect a connect waits for has thrown |
| `LastIs` | `connectOperation`, `disconnectOperation`, `roomExitOperation`: a request equal to the last one shares its promise |
| `dev[p]`: closed, opening, open, closing, lost | the serial port object (external); `isOpen` is true in "open" only, as for the fake port of the tests |
| `closing`, `timedOut` | `pendingCloseRecords`: the record's role and `timedOut` |
| `lastCmd` | the kind of the last payload handed to the port |

*Public calls and events* (`Connect`, `Disconnect`, `StopForRoomExit`,
`AcceptMotion`, `SetProtection`, `LatchEmergencyStop`, `ReleaseEmergencyStop`,
`RunTestPattern`, port errors and closes, timers) happen only when no promise
continuation is due (`Quiescent`). *Continuations* (`StartOperation`,
`StopSettled`, `Resume`, `FlushSettled`, ...) run before anything else, as
microtasks do. *The port* answers, fails, is unplugged or stays silent: each of
open, write and close may succeed, fail or time out, and after its timeout may
still succeed or fail late.

Abstracted: payload bytes and positions (a write is a stop, a move, a test step
or a probe), interpolation times, which reports are sent other than the
connection status, and logs. The one assumption about the operating system is
`WriteAborted`: a handle that is closed fails the writes that are pending on it.


### Bounds

`Ports` bounds how many port objects exist at once, not how often one
connects: an object nobody refers to any more is used again (`Unused`). Two are
needed for a new port beside one whose close or open is still pending; the
instance with three (one failed, one stale, one current; no pattern, no latch
call, 625,834 states) was explored with the same result and is not repeated by
a run. `MaxQueue` bounds the operations that run or wait: with two, each kind of
operation is requested while each other runs, and its gate closes in the middle
of the other's awaits. A third would wait behind the second in the same way,
since an operation looks only at the references the one before it left and, for
a connect, at whether the disconnect before it threw. For liveness one at a time
is enough: an operation starts from whatever state the last one left, and that
each ends is what the chain needs. `LatchCalls` bounds the emergency stops that
are writing at one time. One key is enough for the test pattern and frames,
since no property compares two.

### OutputGate

`OutputGate` says what the window and the relay may rely on: whether movement is
latched off, admitted, waiting, and whether the device was last told to move.
Movement is accepted only while a device is admitted and nothing is latched, is
carried out only if it was accepted and not withdrawn since, and a latch leaves
neither a waiting nor a running movement. `Gate` maps the controller's state to
these four variables and `ImplementsGate` is `Gate!Spec`: every step of the
controller, late answers and losses included, is a step of the gate or a
stutter.

### Fairness

`FairSpec` has weak fairness of the continuations (the event loop runs
microtasks) and strong fairness of each timer - flush, lifecycle timers, the
write timer of each owner, the close timer of each port: a timer of Node that
stays armed fires whatever other events happen before. For writes and closes
the fairness is of the timer *or* of the answer it races with, so nothing is assumed
of the port. No call is fair.

### Proofs

`HardwareController_proofs` proves, for all constants allowed by the module's
assumptions:

| theorem | statement |
|---|---|
| `Inductive` | `Spec => []IInv` |
| `TypeCorrect` | `Spec => []TypeOK` |
| `LatchStopsDevice` | `Spec => []LatchedDeviceStopped` |
| `StopBeforeClose` | `Spec => []StoppedBeforeClose` |
| `RoomExitStops` | `Spec => []RoomExitHoldsStop` |
| `MovesAreAllowed` | `Spec => [][...]_vars` of `MovesOnlyWhenAllowed` |

None of these is inductive alone. That a latched device is stopped depends on
no motion, test or flush being able to begin afterwards, although `flushLatest`
and the pattern's loop look neither at the latch nor at the transition: they can
only run while a frame is queued or a pattern is alive, and every path that stops
has dropped both. `IInv` is the conjunction of

* `TypeOK`, which also says that no queued frame was clamped under "paused";
* `LatchAndBlockClearOutput`: while latched or blocked no frame is queued and
  no pattern is alive - the fact that makes the unguarded writers safe;
* `PendingIsForReadyPort`: what is queued or alive belongs to a current, ready
  port, so losing the port is noticed by `UnexpectedReadyLoss` before anything
  moves on another;
* `OperationState`: which transition and which references go with which await,
  without which nothing is known of the port a continuation works on;
* `ActiveWriteHasPort` and `StopIsLast`: from the stop of a disconnect or room
  exit to its end the stop is the last command of the open port;
* `CloseRecords`: a port has a close record exactly while it closes, an owned
  one was stopped, and is held by the operation or, after its timeout, by the
  controller - the part that carries "stopped before close" over a late answer;
* `CurrentPort`: the current port is neither failed nor stale, and one that is
  still opening has had no command, so a late open cannot reveal a moving port;
* `LatchedDeviceStopped` itself.

The actions are treated in four groups (calls, output, lifecycle, port events),
with one step per action: it either clears what could move, or leaves it and
the latch alone. `Inductive` combines them, and the other theorems follow from `IInv` or, for
`MovesOnlyWhenAllowed`, from `IInv` and the step. The assumptions are those on the constants: `None` and `Paused` are distinct
from ports and limits, owners of writes are distinct, and the bounds are positive.

`HardwareGate_proofs` builds on this:

| theorem | statement |
|---|---|
| `PortsInductive` | `Spec => [](IInv /\ PortsInv)` |
| `PortsAccounted` | `Spec => []PortsAccountedFor` |
| `LossIsLatched` | `Spec => UnexpectedLossLatches` |
| `GateImplemented` | `Spec => ImplementsGate` |

`PortsInv` says who holds which port at which await: the ready port is the current
one or the one being closed, and is reported (`ReadyReference`); a failed port
and a current one never exist together when a new port is created
(`FailedReference`); every open port, and every port that would be open again if its
close failed, is current, failed or stale (`PortReferences`); no movement is
accepted for a port that closes (`GateIsShut`). A leak could come only from a close
whose role says where the port returns to while the reference has moved on, which
is why `PortReferences` speaks of closes under way and not of open ports only.
`UnexpectedLossLatches` follows from the step: `failPort` latches whenever it takes
the ready port away, and nothing else does so outside a lifecycle operation.

The refinement is proved step by step. `GateSteps` lists, for the four expressions
the mapping puts for the gate's variables, which changes are a step of the gate.
Each of the controller's actions is then one of them: a call latches, releases,
closes or accepts; output moves, withdraws or halts; the end of a lifecycle
operation opens, which needs `PortsInv` to know that the device was not left moving
and that nothing is pending; a lost port latches or closes. The liveness properties
(`LifecycleCompletes`, `FramesLeave`) stay with TLC, since the prover treats
neither fairness nor ENABLED.

## 5. RelayServer

### State and actions

| model | code |
|---|---|
| `registry[r]` | the room's record in the registry: its host socket and entry mode |
| `commands` | the registry calls that handlers are awaiting, in order |
| `active[r]` | `activeRooms`: the host socket of the entry |
| `hostRoom[s]` | `hostRoomsBySocket` |
| `graceTimer[r]` | `hostCleanupTimers`: the socket whose disconnect armed it |
| `pending`, `session`, `approved`, `blocked` | `pendingApprovals`, `viewerSessions`, `approvedViewersByRoom`, `blockedViewersByRoom` |
| `members[r]` | the room of socket.io, to which motion and stops are emitted |
| `conn` | connected sockets |

A handler that awaits the registry is split at the await: `HostRoomCreate`,
`AttachHost`, `BindHost` are one `room:create`; `GraceOver` (or an explicit
leave in `Disconnect`), `RemoveHostedRoom`, `ListRoomsOfHost`, `DeleteRooms`
are one removal. The Redis client sends its commands on one connection and
answers come back in that order, so the answered command is the head of a
queue, and a step is the command's effect, its answer and the code up to the
next command. With the memory registry (`Redis = FALSE`) an await yields no
event, so no handler runs while the queue is not empty; `Redis = TRUE` allows
every behaviour of both.

A connection is of one role and stays with one room, as the client opens a
connection for each lifecycle. A connection that nothing refers to any more
(`Forgotten`) is reused for the next one, so connections are bounded at a time
and not in number. `LateDisconnects` says whether a host may be back on a new connection
before the server has noticed the end of the old one: a cut connection is noticed by a
ping timeout, so it may. Joining a room on a disconnected socket is a no-op, as
in the version of socket.io the server uses.

Expiry of records, choice of a node and several servers are in `RedisRegistry`,
what the host is told in `HostLists`, motion forwarding in `MotionPath`,
`MotionPacket` and `TokenBucket`. Not modelled: HTTP formatting and status
codes, token signatures, metrics, and the shutdown of the server.

### Bounds

All the state is per room or per connection and handlers touch one room
each, except `removeHostSocket`, which deletes every room of a socket; as a
connection stays with one room one room is enough for the properties of a
room; `relay_inorder` has two, which the part `OneRoom` of the inductive invariant
needs to say anything. Two hosts are an old and a
new connection of one host, or two hosts after each other. One viewer more than
the capacity reaches the limit. Two commands in flight are two handlers that
overlap; a longer queue only delays.

### Fairness

Weak fairness of the registry's answers and strong fairness of each grace
timer, which fires whatever handlers run while it stays armed. Hosts and
viewers owe nothing.

### Proofs

`RelayServer_proofs` proves, for every set of connections, rooms and names,
every capacity and both drivers: `Inductive` (`Spec => []IInv`), `TypeCorrect`,
`FanoutIsListed` (`Spec => []FanoutIsViewerList`) and `ApprovalIsNeeded`
(`Spec => ApprovalNeeded`). For the memory registry (`ASSUME ~Redis`), the one a
server without a Redis address uses, it proves `MemoryInductive`
(`Spec => []MemoryInv`), `CapacityIsKept`, `ClosedIsEmpty`, `LiveHostIsKept` and,
with `ASSUME ~LateDisconnects` too, `BoundHostPublishes`.

`FanoutIsViewerList` is not inductive. A late answer of the registry could seat
a connection in a second room and leave it in the first one's fan-out, or make
a viewer a host of the room it receives from. `IInv` adds what excludes this:
`Roles` (only hosts bind, only viewers hold seats, also in what the queue of
commands will do, and a room of socket.io holds connected sockets only) and
`OneRoom` (everything a connection is, waits for or has asked for is about one
room). `OneRoom` rests on the client opening a connection per lifecycle, which
the guard `InRoomOnly` of the two requests states; every other step only
shrinks what a connection uses. `ApprovalNeeded` follows from `IInv` and the
step: only `JoinAnswered` and `ViewerApproval` seat anybody, and each looks at,
or writes, the approved names in the same step.

`MemoryInv` adds to `IInv` what holds because an answer of the memory registry
comes before anything else happens. At most one command is in flight, and its answer
finds what was checked before the await (`QueueFits`): who asks to enter is still
connected, and a removal that has begun is for one room, already emptied, of a host
that is gone. The host of an active entry sits in the fan-out (`EntryIsBound`), so
that subtracting it from the count of viewers is right - `CapacityKept` counts
seats, and the proof adds or removes one element of a finite set per step. A
connection is the registered host of the one room it is bound to and grace timers are
about connections that have ended (`HostsOfRecord`), so no cleanup finds the room of
a live host. A room without a record has nobody and no list of names
(`UnstoredIsEmpty`). With one connection of a host at a time the bound one is the
active one (`BoundIsActive`), which is `HostCanPublish`; `relay_late` shows that the
assumption is needed.

The assumptions on constants are that hosts and viewers are different connections,
that `None` is none of the connections, rooms, seats or records, and that
capacity and bound are positive.

`CapacityKept`, `ClosedRoomIsEmpty` and `LiveHostKeepsRoom` do not hold over
Redis, so `~Redis` is a real restriction: a viewer may join a room that is being
removed; a host that disconnects while `attachHost` awaits is bound although it is
gone, and is subtracted from a count it is not in, so one viewer too many fits; and a
room listed for deletion is deleted although its host has bound it again
meanwhile.

## 6. RelayClient and Desktop

`RelayClient` has the client's fields under their names: `gen`
(`lifecycleGeneration`), `calls` (createRoom and joinRoom between two awaits),
`socket` and `link`, `session`, `room`, `rejoin`, `latest`, `flushTimer`, the
playback buffer as a count with its timer. The relay is the packets on their way
to it (`up`) and back (`down`) and what it has bound the connection to
(`bound`); it answers, refuses, or does not answer before the client's timer. It
also gives places up without a word (`RelayForgets`): the request of a viewer that
waits, when the room is removed (section 9), and the active entry of a host (`relay_late`); a
viewer it has admitted it always tells.
The connection is lost with what is in flight and comes back. `Quiet` is the
rule of the event loop: a settled promise resumes its function before the next
task, so that only packets which arrived together with an answer are handled
between the answer and the function that awaits it.

Fairness: the connection comes back, the relay answers or the timer fires,
packets are handled, promises resume. The user calls nothing by fairness.
`RejoinSettles` excepts, and names, the two cases in which the code gives up:
a rejoin without an answer while the connection lives (it is reported and not
tried again) and an event that overtook the answer it belongs to.

`RelayClient_proofs` proves `ClientInductive` (`Spec => []IInv`), `TypeCorrect`,
`SessionStaysCurrent`, `AgreementIsKept` and `NothingBecomesStale` for every number
of calls, lost connections and packets. `RelayAgrees` speaks of the moment when
nothing is in flight; what makes it true is what is known while something is. A
connection carries one request (`ConnectionsAreFresh`, `CallsAreCurrent`), whose
answer is requested, on its way, or handled and waiting for its function (`Awaited`,
`Answered`). From the place this answer grants, or else from the place the session
says, the events under way lead to the place the relay holds (`LeadFrom`): one
admission at most, from the waiting room, and any expulsion means that the relay
holds no place. `RelayAgrees` names three exceptions. An event that overtook its
answer (`overtaken`) and a rejoin without an answer (`gaveUp`) switch exactly these
conjuncts off; a place that was given up silently (`forgotten`) stands for the one
the events lead to as long as that is not an admitted viewer's. `NothingStale` is
about the frame to publish (`SentInItsRoom`) and about those to play
(`PlaysInTime`). `fresh` counts what was buffered since the last boundary
(`Boundary`: lost connection, entry, removal, stop, change of the delay) and is
reset there whatever the code does with the buffer, so a handler that forgets to
clear it leaves more frames than `fresh`; that the count stays within its bound
needs that a frame on its way leaves room for itself (`FramesHaveRoom`). The only
assumption is that `None` is no role and no session.

`Desktop` has the handlers of `main.ts` and the actions of `App.tsx`. A request
is handled in the step that makes it, since what the main process does while the
request travels could as well have come before; replies and events travel in
order and are read one at a time. Its device is `OutputGate` with the room-exit
stop. `MaxMessages` keeps events from arriving while so many messages wait;
replies come whenever they are due. Two actions can await answers at a time, the
most the window allows besides the emergency stop and logout, which start
whatever is under way.

Fairness: both event loops run and whatever a handler awaits is answered or
times out, which `HardwareController` (`LifecycleCompletes`) and the client's
timers justify.

`Desktop_proofs` proves `DesktopInductive` (`Spec => []IInv`), `TypeCorrect`,
`LatchIsShown` (`Spec => []LatchShown`) and `LeavingIsStopped`
(`Spec => []LeavingStops`) for every bound on messages and actions. The window reads
replies and events in order, so what it will show of the latch is decided by the
last message about it (`LeadsToLatch`, `LeadsToRelease`); `LatchIsOnItsWay` says that
this is the latch as it is, or that somebody still awaits the payload or the answer
that will tell. A release between a stop and its late answer would break it; it cannot
come there because a stop that is under way owns the buttons (`StopsAreAnswered`).
For `LeavingStops`, whoever has left has no source of motion (`ExitsStop`): no room,
no demo, no accepted frame, and a device that moves only while the stop waits its
turn. `ButtonsComeBack` is liveness and left to TLC.

## 7. The parts

| part | states | what it says, and what makes it hard |
|---|---|---|
| `MotionDelay` | 9.9k | `FramesPlayInTurn`: what is played never goes back in time and the newest frame is played in the end, with timers up to 2 units late, a full buffer, changed delays and clears |
| `MotionPath` | 59k | `FramesAreCounted`: a viewer refuses no newer frame and counts exactly the lost ones, modulo 6, over lost frames, stops, removals, a reopened room, hosts with and without numbers. What a viewer receives between a takeover of its room by a numbering host and its next reset is excepted: that host counts from zero, and its frames are refused for up to half the range (`path_restart`) |
| `MotionPacket` | 5.8k | `FrameSurvives`: position to within half a unit though rounded twice, the host's time and duration, from which the viewer's controller takes the length of a movement, through three encodings |
| `DemoMotion` | 1.3k | `StopsAndSteps`: no timer, no motion; by hand no step above the limit, across stops and changes of mode |
| `TokenBucket` | 28.9k | `RateIsBounded`: in every span of time the frames are paid for by one full bucket, one for each that a binding of the host brought within the span, and its length. In memory bindings bring no more buckets than rooms were created anew; over Redis each brings one, since the stored record keeps the bucket of its creation |
| `RateLimiter` | 53k | `LimiterIsFair`: at most twice the limit in any span as long as a window, refused only when used up, forgotten only when the table is full of live windows |
| `RedisRegistry` | 27k | `RoomOutlivesToken`: a record does not expire before the token that lets its host come back, with the commands of several handlers interleaved |
| `RoomDirectory` | 51k | `ListGoesForward`: answers that overtake each other never show another server's list nor an older one |
| `HostLists` | 29k | `HostSeesRoom`: once everything sent has arrived the host sees who waits and who is in, after lost connections too |
| `SettingsFile` | 62k | `SettingsAreKept`: file, saved settings and playback delay agree, whatever failed, overlapped or crashed |
| `DiagnosticLog` | 7.5k | `LogIsOrdered`: what is kept is the end of what was written; a rotation costs one generation |
| `OutputLog` | 29k | `WindowHasLog`, `ScrolledViewStays`: the log window ends with the store's rows and a reader keeps the place |
| `OutputRange` | 43k | `CommandsInRange`: no command outside the stroke or above the limit, whichever way the settings were reached |
| `Invites` | 32k | `InviteLeadsIn`: what six checks accept from a host they accept from the invited guest |
| `QrCode` | 3 | `QrShowsInvite`: a reader gets the invite back from the image, the code computed as drawn, masked, interleaved and corrected. Invites of 100 bytes (version 5, with padding) and of 134 (the largest of version 6, two interleaved blocks); from version 7 on it does not hold (section 9) |
| `Shutdown` | 4.5k | `QuitLeavesNothing`: the program ends with the device stopped and no operation under way; what a window asked for during the shutdown is excepted (section 9) |

Bounds. `MotionDelay` counts time in units of a playback interval; gaps of one,
two (interpolated) and more than two (not), delays of none, two and four and a
buffer of three overflowed by four frames reach every branch of `sample`.
`MotionPath` wraps after 6 of its 7 frames; with one lost connection up to two
frames are in flight, and the instance with two lost connections and one in
flight (314k states) gives the same result. `TokenBucket` has a burst of one frame
and a half, one creation and two bindings that bring a bucket. `RateLimiter` has three
clients for a table of two. `DiagnosticLog` writes 9 records into three generations of two, so
that rotations happen twice over, and ends twice. `SettingsFile` has three requests
and one crash. `RedisRegistry` has one server on two nodes, `Invites` names on
either side of their limit and the longest password.

Only `MotionDelay` has fairness: the clock goes on and an armed timer fires.

### Proofs

Each part with a proof has a theorem `...Inductive` and one for its property, for
every value of its constants. Why the properties are not inductive, and what the
invariants add:

| part | theorem of the property | argument |
|---|---|---|
| `Shutdown` | `QuitIsClean` | from its first step, and until a window asks for something, the shutdown has silenced every source of motion, what moved the device before is followed by an operation that still waits, and all operations are awaited |
| `SettingsFile` | `SavedIsKept` | the last successful answer under way, or else what the window shows, is the file; what the running operation writes is the request upon what the file holds; as long as nothing overlapped, a save was begun alone with the delay of the file |
| `OutputRange` | `CommandsStayInRange` | profile and protection in use are valid and a queued frame is within both; clamping and scaling are monotone, so a magnitude stays between those of the ends of the stroke (lemmas about division by the resolution) |
| `Invites` | `InviteIsEnough` | an invite that was applied went through the checks of its host, trimming twice is trimming once, and a public address passes for the guest what it passed for the host |
| `DemoMotion` | `DemoStopsAndSteps` | the last frame published is where the next step starts from, and is a stop while no timer runs |
| `DiagnosticLog` | `LogStaysOrdered` | the generations, counted from the active file, hold consecutive stretches of what was written; one that is empty below a full one is the trace of a rotation that was cut short, or of the one under way. For every `MaxFiles` and `FileSize`; the generation that holds a given record is the least one (`LeastOf`) whose successors all hold older ones |
| `OutputLog` | `WindowCatchesUp`, `ScrolledStays` | a point is a session and how many rows it had. The messages and events under way lead, one by one, from a point to where the store is: from the one whose log the window's copy holds or, as long as the snapshot is missing, from where the store was when the window subscribed; the snapshot is answered at a point on that way. The events before it are gone through again when it is joined. Those of earlier sessions and rows that are kept are ignored; a row that the store has dropped by then is put at the end of the copy again, but the rows after it follow it there up to the last one, and they are enough to push everything else out. After a failed request the copy is a tail of the store's session. The anchor of a user who scrolled away is a row of the copy, rows are consecutive, and a frame adds rows behind the last, so what is seen from the anchor on only grows at its end; the rows from the anchor on fill the view unless it is the first row, so earlier rows are shown only by showing more. The copy after several events is a recursive function; that it is the last of the logs the lemmas name is shown at the least event at which the two would differ (`LeastOf`) |
| `MotionDelay` | `PlaybackOnlyGoesForward` | frames are buffered in the order of their reception, and each is still to be played, or is the first and the one the samples have come to: then what comes next lies between it and its successor, and it has been handed on if it has none. That the first of several equal moments and the last earlier frame are found rests on a least and a greatest element of a set of naturals (`LeastOf`, `GreatestOf`) |
| `TokenBucket` | `RateStaysBounded` | the frames since any earlier one and the tokens that are left, refilled to now, are together paid for by a full bucket, those brought since then and the time that passed (`TokensArePaid`): a binding puts at most a full bucket in the place of what was left. In memory the record that a creation stored is taken up once (`CreationsAreUsedOnce`) |
| `RateLimiter` | `LimiterStaysFair` | an entry that is over and one that was dropped count alike, as an empty window that begins now; the requests since the window began are its count, those in a span of its length before it were at most the limit, and any span of that length is covered by the two. The table never has more entries than `MaxEntries` |
| `MotionPacket` | `FrameIsCarried` | a position is rounded once: reading a packet and writing it again gives the same integer, and a current packet keeps time and duration through each of its three encodings |
| `RoomDirectory` | `ListOnlyGoesForward` | only the latest request may set the list; it is for the selected server, and will be answered with a state no older than the one on show, because it was made after that was shown |
| `RedisRegistry` | `RoomsOutliveTokens` | each record expires after the token given for it, whichever command of which handler wrote it last; a command replaces a record by one that expires no earlier. `ASSUME TokenTtl < RoomTtl`: 6 hours (`relay-server.ts:35`) and 8 hours (`room-registry.ts:220`) unless the environment of the server says otherwise |
| `MotionPath` | `FramesCounted` | what the viewer accepted last, and then what is on its way to it, is a chain in which every frame is newer than the one before, all frames between two that follow each other are missing, and their numbers differ by one more than those that were lost after they were numbered, or by less if a host without numbers came between; what waits for the relay continues the chain, because the relay remembers the number of the last frame it forwarded. A run of missing frames holds at most `MaxLoss` lost ones - no frame behind the head of the queue is lost yet, and a takeover only lengthens the last run - and `PathAssumption` says that twice that and two is less than the range of the numbers, so a distance is never taken for one backwards, wherever the numbers wrap (lemmas about the remainder of sums and differences). Frames up to `renumberedAt` are excepted as in the property |
| `HostLists` | `RoomIsSeen`, `ViewersSeen` | the last list under way to the host is right, or a list is asked for, or the answer to a creation, which asks for one, is under way; a request that waits is shown or under way, with no creation behind it that would clear it. `RoomIsSeen` assumes `~EarlyRequests`, without which `host_requests` refutes it; `ViewersSeen`, its half about viewers, does not |

`InviteLeadsIn`, `ListGoesForward`, `RoomOutlivesToken`, `StopsAndSteps` and
`PlaybackGoesForward` are action properties: they follow from the invariant and the
actions that can matter. The constants'
assumptions say that bounds are natural numbers, that a frame costs something and no
more than a full bucket, that the default settings are among the settings, that the
guests are finitely many, and that the published address of a relay is one its guests
may use.

## 8. Findings

Each is a run TLC finds violated; `PROJECT.json` quotes the line the code
disagrees with.

* `relay_late` - the late disconnect of an old connection deletes the active
  entry of the host's new connection: its motion is dropped silently.
* `desktop_exit` - joining or hosting another room ends the present session
  without the room-exit stop; if the new room refuses, the device keeps the last
  command of the old one.
* `host_requests` - a viewer that asks between the creation of a room and the
  host's `room:create` waits unseen: the window empties the list of requests
  after it was filled.
* `path_restart` - a host that ends abnormally and comes back within its grace time
  numbers its frames from zero again; the viewers that stayed drop them as out of
  order although they are the newest there are.

## 9. Observations

Met while modelling, stated in the modules where a name is given, and not
checked by a run because nothing in the repository says clearly what should
happen instead, or because the number of runs is kept small (`QrShowsInvite` and
`WaitingIsHeld`, which disagree with a document).

* `StatusIsTrue` (`HardwareController`): a disconnect that drops an unplugged
  ready port and then throws on a stale port never reports "disconnected".
* `PausedOutputsNoMotion` (`HardwareController`): a frame queued before receive
  is paused is still written.
* `BlockedStaysOut` (`RelayServer`): a request that waits can be approved
  although its name has been blocked meanwhile.
* The late disconnect of `relay_late` may also replace the grace timer of the
  current host, and then nobody removes the room (`HostlessRoomGoes` with
  `LateDisconnects = TRUE`).
* `FrameAfterGapDelivered` (`MotionDelay`): a frame between two gaps of more than
  250 ms is never handed on when the frame after the second gap is buffered
  already and no sample meets its exact moment; a safe-stop frame can be lost so.
  With `BufferSpec`, `Delays = {0, 4}`, `Interval = 2`, `MaxGap = 2`,
  `MaxFrames = 4`, `MaxLate = 0`, `LastArrival = 6`, `MaxReceived = 3`,
  `Horizon = 9`.
* `StoredRoomIsListed` (`RedisRegistry`): two servers that delete and create a room
  at one time can leave it stored and unlisted. A record that expires stays in
  the index, and `/healthz` counts it.
* `RefreshAvailable` (`RoomDirectory`): a press of refresh whose answer comes
  after the silent timer is superseded and its loading state never ends, so the
  button stays disabled. `openLiveRoom` may join the new server while the list of
  the old one is still shown.
* `QuitLeavesNothing` without its exception: a window that is open during the
  shutdown is still served, and a connect asked for after the disconnect was
  queued leaves the device connected when the program ends.
* `QrShowsInvite` with `InviteLengths = {135}`, the shortest invite that takes a
  version 7 code: the image has no version information (`qr-code.ts:82-91`) and its
  alignment patterns are incomplete (`qr-code.ts:119`), so that a standard reader does
  not get the invite, although `README.md:252` of the repository says that the same
  code is shown as an image. With a public address invites are usually as long as that.
* `WaitingIsHeld` (`RelayClient`, with the constants of the run `client`): a room that is
  removed while a viewer waits for approval takes the request with it
  (`relay-server.ts:520`), and the viewer, who is told nothing, goes on waiting, although
  `docs/ARCHITECTURE.md:257` says that requests remain until the host decides.
* Invites above 271 bytes throw while the window is drawn, and texts above 1000
  characters cannot be copied. A relay at a public plain HTTP address makes
  invites that the guest's checks refuse (`InviteAssumption` excludes it).
* A waiting viewer that disconnects, or whose approval finds the room full, stays
  in the host's list, and deciding about it fails from then on.
* Over Redis each `room:create` takes up the stored record with its full bucket: a
  host that connects again has a new burst without creating a room (`RateIsBounded`
  counts it, `fills`).
* After logout a late answer of createRoom or joinRoom can show a room or keep one
  nobody sees; a createRoom whose list of viewers fails leaves a hosted room that
  is not shown; the demo of a host that was removed goes on.
* A settings load that overlaps a connect shows a range that the device was not
  given.
* The acknowledgement of a join that timed out leaves the socket bound until the
  user tries again.

## 10. What is proved, what is checked, what is not modelled

Proved for all constants: the theorems of sections 4 to 7, which state 33 of the
properties the runs check and the safety half of one more, in eight modules.
Model-checked on the instances of section 3: every property listed there.

Out of the prover's reach and left to TLC:

* liveness: `LifecycleCompletes`, `FramesLeave`, `HostlessRoomGoes`, `RejoinSettles`,
  `ButtonsComeBack`, `NewestFramePlayed` (the liveness half of `FramesPlayInTurn`;
  `PlaybackOnlyGoesForward` proves its other half, `PlaybackGoesForward`);
* what a recursive definition computes, where that needs induction over data:
  `QrShowsInvite`, computed by folds and recursive operators throughout.

### Not modelled

* Presentation: markup, styles, tabs, filters and the text of messages hold no
  state a property could be about.
* Launchers and deployment (`scripts/*.ps1`, `deploy/termux`, `demo`): scripts
  a person runs once, one at a time.
* Tests and packaging: read as a statement of what is intended.
* Log export, clipboard, single-instance lock, window options, menus; HTTP
  formatting, metrics and health of the relay; signatures of tokens; the text of
  a device's version answer.
* Torn writes of the diagnostic log: an append is all or nothing, so a record of which
  the end of the app or a full disk leaves a part (`diagnostic-log-store.ts:142`) does
  not occur. The order of records and generations does not depend on it.
* Rounding of floats, other than that of positions in packets and commands.
