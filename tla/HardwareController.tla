------------------------- MODULE HardwareController -------------------------
(***************************************************************************)
(* The desktop application's only path to a device: the class              *)
(* HardwareController (electron/services/hardware-controller.ts).          *)
(*                                                                         *)
(* JavaScript runs a handler, and then every promise continuation it made  *)
(* ready, before the event loop starts the next handler.  A step of this   *)
(* module is therefore one of two kinds: a handler (a public call, a timer *)
(* or a serial port event), enabled only when Quiescent, or the code after *)
(* an await whose promise has settled, enabled as soon as it has.          *)
(*                                                                         *)
(* Serial ports are external: a port reports isOpen only in state "open",  *)
(* and not while it is opening, closing or losing its device.              *)
(***************************************************************************)
EXTENDS Naturals, Sequences, FiniteSets

CONSTANTS
    Ports,       \* serial port objects (recycled once nothing refers to them)
    Patterns,    \* concurrent calls of runTestPattern
    LatchCalls,  \* concurrent calls of latchEmergencyStop that are writing
    Keys,        \* path and profile a connect call names
    Limits,      \* receive protection settings other than paused
    Paused,      \* the receive protection setting that pauses output
    None,        \* no port, no frame
    TestSteps,   \* HARDWARE_TEST_POSITIONS.length
    MaxQueue     \* bound on the lifecycle operations queued at a time

ASSUME NoneAssumption == None \notin Ports /\ None \notin Limits
ASSUME PausedAssumption == Paused \notin Limits /\ Paused # None
ASSUME OwnerAssumption ==
    /\ {"lifecycle", "flush"} \cap (Patterns \cup LatchCalls) = {}
    /\ Patterns \cap LatchCalls = {}
ASSUME BoundAssumption == TestSteps \in Nat \ {0} /\ MaxQueue \in Nat \ {0}

VARIABLES
    \* the controller's references to ports
    port, readyPort, failedPort, stalePorts,
    connected,          \* connectionStatus.connected
    \* output
    protection,
    latestFrame,        \* the protection the frame was clamped to, or None
    flushTimer, emergencyStopped,
    \* test patterns; patternLive[t]: operationGeneration is still t's own
    patternPc, patternStep, patternLive,
    \* writes in flight, one per owner
    write, writePort,
    \* lifecycle operations, the head of the queue being performed
    queue, transition, precedingFailed, pc, cur, todo, version,
    \* serial ports
    dev,                \* the state of the port object
    closing,            \* role of its pending close record, or "none"
    timedOut,           \* ports whose pending close has timed out
    lastCmd             \* the last command handed to the port

portVars  == <<port, readyPort, failedPort, stalePorts, connected>>
outVars   == <<protection, latestFrame, flushTimer, emergencyStopped>>
testVars  == <<patternPc, patternStep, patternLive>>
writeVars == <<write, writePort>>
lifeVars  == <<queue, transition, precedingFailed, pc, cur, todo, version>>
devVars   == <<dev, closing, timedOut, lastCmd>>
vars      == <<portVars, outVars, testVars, writeVars, lifeVars, devVars>>

Owners      == {"lifecycle", "flush"} \cup Patterns \cup LatchCalls
Protections == Limits \cup {Paused}
Operations  == [kind : {"connect"}, key : Keys, after : BOOLEAN]
               \cup [kind : {"disconnect", "room-exit"}]

Continuations == {"release", "retryFailed", "retryClose", "stale"}
Waits == {"stopping", "closingOwned", "awaitFailed", "closingFailed",
          "closingStale", "identify", "opening", "signals", "probe1",
          "listen1", "probe2", "listen2", "exitStopping"}

(***************************************************************************)
(* Helpers.                                                                *)
(***************************************************************************)
IsOpen(p) == p # None /\ dev[p] = "open"
PortReady == IsOpen(port) /\ readyPort = port

\* getLifecycleBlockReason: a transition, or the gate of a requested operation
Gated == \E i \in 1..Len(queue) : queue[i].kind \in {"disconnect", "room-exit"}
Blocked == transition # "none" \/ Gated

\* No promise continuation is ready, so the event loop may start a handler.
Quiescent ==
    /\ pc \notin Continuations
    /\ pc = "idle" => queue = <<>>
    /\ pc \in {"listen1", "listen2"} => ~version
    /\ \A o \in Owners : write[o] \in {"none", "active"}

\* Mutant: an interruption does not supersede the running test patterns.
CancelPatternsNever == UNCHANGED patternLive

\* operationGeneration += 1
CancelPatterns == patternLive' = [t \in Patterns |-> FALSE]

\* Mutants, here and below, are defined next to what they change.  Mutant: the
\* reset forgets the queued frame and its timer.
ClearOutputKeepingFrame ==
    UNCHANGED <<latestFrame, flushTimer>> /\ CancelPatterns

\* the reset every stop, loss and lifecycle interruption begins with
ClearOutput ==
    /\ latestFrame' = None
    /\ flushTimer' = FALSE
    /\ CancelPatterns

\* writePayload: the write starts, or is rejected when the port is not open
BeginWrite(o, kind) ==
    /\ write' = [write EXCEPT ![o] = IF IsOpen(port) THEN "active" ELSE "failed"]
    /\ writePort' = [writePort EXCEPT ![o] = port]
    /\ lastCmd' = IF IsOpen(port) THEN [lastCmd EXCEPT ![port] = kind] ELSE lastCmd

EndWrite(o) ==
    /\ write' = [write EXCEPT ![o] = "none"]
    /\ writePort' = [writePort EXCEPT ![o] = None]

\* failActiveWrites
FailedWrites(p) ==
    [o \in Owners |-> IF write[o] = "active" /\ writePort[o] = p
                      THEN "failed" ELSE write[o]]

\* writeStopPayload up to its await
WriteStop(o) ==
    /\ ClearOutput
    /\ IF IsOpen(port) THEN BeginWrite(o, "stop")
       ELSE UNCHANGED <<writeVars, lastCmd>>

\* A connect queued right after a disconnect awaits that disconnect's result.
AwaitedByNext ==
    /\ Len(queue) > 1
    /\ queue[2].kind = "connect"
    /\ queue[2].after = TRUE

\* The promise of the lifecycle operation settles: transition and gate go.
Finish(ok) ==
    /\ queue' = Tail(queue)
    /\ precedingFailed' = (~ok /\ AwaitedByNext)
    /\ transition' = "none"
    /\ pc' = "idle"
    /\ cur' = None
    /\ todo' = {}
    /\ version' = FALSE

Goto(label) ==
    /\ pc' = label
    /\ UNCHANGED <<queue, transition, precedingFailed, cur, todo, version>>

\* Mutant: the transition is tested the wrong way round.
UnexpectedReadyLossInverted(p) == readyPort = p /\ transition # "none"

\* failPort: whether losing p latches the emergency stop
UnexpectedReadyLoss(p) == readyPort = p /\ transition = "none"

\* failPort(p) for the current port p, once its state is d[p]
FailPort(p, d) ==
    /\ ClearOutput
    /\ write' = FailedWrites(p)
    /\ IF closing[p] # "none"
       THEN /\ dev' = d
            /\ UNCHANGED <<port, readyPort, failedPort, connected,
                           emergencyStopped, closing>>
       ELSE /\ port' = None
            /\ readyPort' = IF readyPort = p THEN None ELSE readyPort
            /\ connected' = FALSE
            /\ emergencyStopped' = (emergencyStopped \/ UnexpectedReadyLoss(p))
            /\ IF d[p] = "open"
               THEN /\ failedPort' = p
                    /\ dev' = [d EXCEPT ![p] = "closing"]
                    /\ closing' = [closing EXCEPT ![p] = "failed"]
               ELSE /\ failedPort' = IF failedPort = p THEN None ELSE failedPort
                    /\ dev' = d
                    /\ UNCHANGED closing
    /\ UNCHANGED <<stalePorts, protection, patternPc, patternStep, writePort,
                   timedOut, lastCmd>>

\* failPort as performConnect calls it: nothing if the port is no longer ours
FailCurrent(d) ==
    IF port = cur THEN FailPort(cur, d)
    ELSE /\ dev' = d
         /\ UNCHANGED <<portVars, outVars, testVars, writeVars, closing,
                        timedOut, lastCmd>>

\* closePort(p, role) on an open port, up to its await
BeginClose(p, role) ==
    /\ dev' = [dev EXCEPT ![p] = "closing"]
    /\ closing' = [closing EXCEPT ![p] = role]
    /\ UNCHANGED <<timedOut, lastCmd>>

(***************************************************************************)
(* Public calls.  A call that is refused changes nothing and is not a      *)
(* step.                                                                   *)
(***************************************************************************)
LastIs(kind) == queue # <<>> /\ queue[Len(queue)].kind = kind

\* enqueueLifecycle, within the bound
Enqueue(op) ==
    /\ Len(queue) < MaxQueue
    /\ queue' = Append(queue, op)
    /\ UNCHANGED <<transition, precedingFailed, pc, cur, todo, version>>

\* a port object nothing refers to any more stands for a new one
Unused(p) ==
    /\ dev[p] = "closed"
    /\ closing[p] = "none"
    /\ p \notin {port, readyPort, failedPort} \cup stalePorts
    /\ \A o \in Owners : writePort[o] # p

\* bound: a connect is made only while a port object is left for it
PortLeft ==
    Cardinality({i \in 1..Len(queue) : queue[i].kind = "connect"})
        < Cardinality({p \in Ports : Unused(p)})

\* connect: joins an equal connect that is the last request, else is queued
Connect(key) ==
    /\ Quiescent
    /\ PortLeft
    /\ ~(LastIs("connect") /\ queue[Len(queue)].key = key)
    /\ Enqueue([kind |-> "connect", key |-> key, after |-> LastIs("disconnect")])
    /\ UNCHANGED <<portVars, outVars, testVars, writeVars, devVars>>

\* disconnect and stopForRoomExit: gate first, interrupt output, then queue
Interrupting(kind) ==
    /\ Quiescent
    /\ ~LastIs(kind)
    /\ Enqueue([kind |-> kind])
    /\ ClearOutput
    /\ UNCHANGED <<portVars, protection, emergencyStopped, patternPc,
                   patternStep, writeVars, devVars>>

Disconnect == Interrupting("disconnect")
StopForRoomExit == Interrupting("room-exit")

\* Mutant: admission does not look at the latch.
MayMoveWhileLatched == ~Blocked /\ PortReady

MayMove == ~Blocked /\ PortReady /\ ~emergencyStopped

\* queueMotion: the frame is clamped to the protection and replaces the latest
AcceptMotion ==
    /\ Quiescent
    /\ MayMove
    /\ protection # Paused
    /\ CancelPatterns
    /\ latestFrame' = protection
    /\ flushTimer' = (flushTimer \/ write["flush"] = "none")
    /\ UNCHANGED <<portVars, protection, emergencyStopped, patternPc,
                   patternStep, writeVars, lifeVars, devVars>>

\* queueMotion while paused: the frame is dropped, and so is a queued one
DropPausedMotion ==
    /\ Quiescent
    /\ MayMove
    /\ protection = Paused
    /\ latestFrame' = None
    /\ UNCHANGED <<portVars, protection, flushTimer, emergencyStopped, testVars,
                   writeVars, lifeVars, devVars>>

SetProtection(s) ==
    /\ Quiescent
    /\ protection' = s
    /\ UNCHANGED <<portVars, latestFrame, flushTimer, emergencyStopped, testVars,
                   writeVars, lifeVars, devVars>>

\* latchEmergencyStop: latch first, then the stop payload
LatchEmergencyStop(l) ==
    /\ Quiescent
    /\ write[l] = "none"
    /\ emergencyStopped' = TRUE
    /\ WriteStop(l)
    /\ UNCHANGED <<portVars, protection, patternPc, patternStep, lifeVars,
                   dev, closing, timedOut>>

ReleaseEmergencyStop ==
    /\ Quiescent
    /\ emergencyStopped' = FALSE
    /\ UNCHANGED <<portVars, protection, latestFrame, flushTimer, testVars,
                   writeVars, lifeVars, devVars>>

\* one iteration of runTestPattern's loop up to the write, or its end
TestIteration(t, step) ==
    IF step <= TestSteps /\ protection # Paused
    THEN /\ BeginWrite(t, "test")
         /\ patternPc' = [patternPc EXCEPT ![t] = "write"]
         /\ patternStep' = [patternStep EXCEPT ![t] = step]
    ELSE /\ patternPc' = [patternPc EXCEPT ![t] = "idle"]
         /\ patternStep' = [patternStep EXCEPT ![t] = 0]
         /\ UNCHANGED <<writeVars, lastCmd>>

\* runTestPattern: queued motion is dropped even if the port is not ready
RunTestPattern(t) ==
    /\ Quiescent
    /\ patternPc[t] = "idle"
    /\ ~Blocked
    /\ ~emergencyStopped
    /\ latestFrame' = None
    /\ flushTimer' = FALSE
    /\ IF PortReady
       THEN /\ patternLive' = [u \in Patterns |-> u = t /\ protection # Paused]
            /\ TestIteration(t, 1)
       ELSE UNCHANGED <<testVars, writeVars, lastCmd>>
    /\ UNCHANGED <<portVars, protection, emergencyStopped, lifeVars, dev,
                   closing, timedOut>>

(***************************************************************************)
(* Output: the flush timer, the test pattern, and what becomes of writes.  *)
(***************************************************************************)
\* The flush timer fires: flushLatest up to its await.
FlushLatest ==
    /\ Quiescent
    /\ flushTimer
    /\ flushTimer' = FALSE
    /\ IF IsOpen(port) /\ latestFrame # None
       THEN latestFrame' = None /\ BeginWrite("flush", "motion")
       ELSE UNCHANGED <<latestFrame, writeVars, lastCmd>>
    /\ UNCHANGED <<portVars, protection, emergencyStopped, testVars, lifeVars,
                   dev, closing, timedOut>>

\* Mutant: the frame queued during the write is not scheduled.
FlushSettledWithoutReschedule ==
    /\ write["flush"] \in {"ok", "failed"}
    /\ EndWrite("flush")
    /\ UNCHANGED <<portVars, protection, latestFrame, flushTimer, emergencyStopped, testVars,
                   lifeVars, devVars>>

\* flushLatest after its await: a frame queued meanwhile is scheduled
FlushSettled ==
    /\ write["flush"] \in {"ok", "failed"}
    /\ EndWrite("flush")
    /\ flushTimer' = (flushTimer \/ latestFrame # None)
    /\ UNCHANGED <<portVars, protection, latestFrame, emergencyStopped, testVars,
                   lifeVars, devVars>>

\* writeStopPayload after its await, in latchEmergencyStop
LatchSettled(l) ==
    /\ write[l] \in {"ok", "failed"}
    /\ EndWrite(l)
    /\ UNCHANGED <<portVars, outVars, testVars, lifeVars, devVars>>

\* runTestPattern after a write: goes on to the delay unless superseded
PatternSettled(t) ==
    /\ write[t] \in {"ok", "failed"}
    /\ EndWrite(t)
    /\ LET goesOn == write[t] = "ok" /\ patternLive[t]
       IN  /\ patternPc' = [patternPc EXCEPT ![t] = IF goesOn THEN "delay" ELSE "idle"]
           /\ patternStep' = [patternStep EXCEPT ![t] = IF goesOn THEN @ ELSE 0]
           /\ patternLive' = [patternLive EXCEPT ![t] = goesOn]
    /\ UNCHANGED <<portVars, outVars, lifeVars, devVars>>

\* The delay between two test positions is over.
PatternDelayOver(t) ==
    /\ Quiescent
    /\ patternPc[t] = "delay"
    /\ LET next == IF patternLive[t] THEN patternStep[t] + 1 ELSE TestSteps + 1
       IN  /\ TestIteration(t, next)
           /\ patternLive' = [patternLive EXCEPT
                 ![t] = @ /\ next <= TestSteps /\ protection # Paused]
    /\ UNCHANGED <<portVars, outVars, lifeVars, dev, closing, timedOut>>

\* The port's write callback reports success.
WriteDone(o) ==
    /\ Quiescent
    /\ write[o] = "active"
    /\ write' = [write EXCEPT ![o] = "ok"]
    /\ UNCHANGED <<portVars, outVars, testVars, writePort, lifeVars, devVars>>

\* The port's write callback reports an error.
WriteError(o) ==
    /\ Quiescent
    /\ write[o] = "active"
    /\ IF port = writePort[o] THEN FailPort(port, dev)
       ELSE /\ write' = [write EXCEPT ![o] = "failed"]
            /\ UNCHANGED <<portVars, outVars, testVars, writePort, devVars>>
    /\ UNCHANGED lifeVars

\* A port whose handle has closed reports an error for every pending write.
WriteAborted(o) ==
    /\ writePort[o] # None
    /\ dev[writePort[o]] = "closed"
    /\ WriteError(o)

\* The write timer fires: it fails the port, not the write.
WriteTimeout(o) ==
    /\ Quiescent
    /\ write[o] = "active"
    /\ port = writePort[o]
    /\ FailPort(port, dev)
    /\ UNCHANGED lifeVars

(***************************************************************************)
(* Lifecycle operations.  enqueueLifecycle runs them one at a time.        *)
(***************************************************************************)
\* performDisconnect up to the await of its stop payload
StartDisconnect ==
    /\ transition' = "disconnect"
    /\ WriteStop("lifecycle")
    /\ pc' = IF IsOpen(port) THEN "stopping" ELSE "release"
    /\ UNCHANGED <<queue, precedingFailed, cur, todo, version>>

\* performRoomExitStop up to its await
StartRoomExit ==
    /\ WriteStop("lifecycle")
    /\ IF IsOpen(port)
       THEN /\ transition' = "room-exit"
            /\ pc' = "exitStopping"
            /\ UNCHANGED <<queue, precedingFailed, cur, todo, version>>
       ELSE Finish(TRUE)

\* The head of the queue starts; a connect whose disconnect failed gives up.
StartOperation ==
    /\ pc = "idle" /\ queue # <<>>
    /\ \/ /\ queue[1].kind = "connect" /\ precedingFailed
          /\ Finish(FALSE)
          /\ UNCHANGED <<outVars, testVars, writeVars, lastCmd>>
       \/ /\ \/ queue[1].kind = "connect" /\ ~precedingFailed /\ StartDisconnect
             \/ queue[1].kind = "disconnect" /\ StartDisconnect
             \/ queue[1].kind = "room-exit" /\ StartRoomExit
          /\ UNCHANGED <<protection, emergencyStopped, patternPc, patternStep>>
    /\ UNCHANGED <<portVars, dev, closing, timedOut>>

\* A lifecycle stop payload was written, or was not.
StopSettled ==
    /\ pc \in {"stopping", "exitStopping"}
    /\ write["lifecycle"] \in {"ok", "failed"}
    /\ EndWrite("lifecycle")
    /\ IF pc = "stopping" THEN Goto("release") ELSE Finish(TRUE)
    /\ UNCHANGED <<portVars, outVars, testVars, devVars>>

\* performDisconnect after its stop: give the port up, or refuse
ReleasePort ==
    /\ pc = "release"
    /\ \/ /\ IsOpen(port)
          /\ port' = None
          /\ write' = FailedWrites(port)
          /\ BeginClose(port, "owned")
          /\ pc' = "closingOwned"
          /\ cur' = port
          /\ UNCHANGED <<queue, transition, precedingFailed, todo, version,
                         readyPort, failedPort, stalePorts, connected, writePort>>
       \/ /\ port # None /\ closing[port] # "none"
          /\ Finish(FALSE)
          /\ UNCHANGED <<portVars, writeVars, devVars>>
       \/ /\ ~IsOpen(port)
          /\ port # None => closing[port] = "none"
          /\ port' = None
          /\ readyPort' = IF port \in {readyPort, None} THEN None ELSE readyPort
          /\ Goto("retryFailed")
          /\ UNCHANGED <<failedPort, stalePorts, connected, writeVars, devVars>>
    /\ UNCHANGED <<outVars, testVars>>

\* retryFailedPortCleanup: await a cleanup that failPort has running
RetryFailed ==
    /\ pc = "retryFailed"
    /\ Goto(IF \E p \in Ports : closing[p] = "failed" /\ p \notin timedOut
            THEN "awaitFailed" ELSE "retryClose")
    /\ UNCHANGED <<portVars, outVars, testVars, writeVars, devVars>>

\* then close a failed port that is still open; next come the stale ports
RetryClose ==
    /\ pc = "retryClose"
    /\ \/ /\ IsOpen(failedPort)
          /\ BeginClose(failedPort, "failed")
          /\ pc' = "closingFailed"
          /\ cur' = failedPort
          /\ UNCHANGED <<queue, transition, precedingFailed, todo, version, failedPort>>
       \/ /\ failedPort # None /\ closing[failedPort] # "none"
          /\ Finish(FALSE)
          /\ UNCHANGED <<failedPort, devVars>>
       \/ /\ ~IsOpen(failedPort)
          /\ failedPort # None => closing[failedPort] = "none"
          /\ failedPort' = None
          /\ pc' = "stale"
          /\ todo' = stalePorts
          /\ UNCHANGED <<queue, transition, precedingFailed, cur, version, devVars>>
    /\ UNCHANGED <<port, readyPort, stalePorts, connected, outVars, testVars, writeVars>>

\* cleanupStalePorts: one stale port of the list it was called with
CleanupStalePort(p) ==
    /\ pc = "stale" /\ p \in todo
    /\ \/ /\ p \notin stalePorts
          /\ todo' = todo \ {p}
          /\ UNCHANGED <<pc, cur, queue, transition, precedingFailed, version,
                         stalePorts, devVars>>
       \/ /\ p \in stalePorts
          /\ closing[p] = "stale" /\ p \notin timedOut
          /\ pc' = "closingStale" /\ cur' = p
          /\ UNCHANGED <<queue, transition, precedingFailed, todo, version,
                         stalePorts, devVars>>
       \/ /\ p \in stalePorts
          /\ closing[p] # "none" /\ ~(closing[p] = "stale" /\ p \notin timedOut)
          /\ Finish(FALSE)
          /\ UNCHANGED <<stalePorts, devVars>>
       \/ /\ p \in stalePorts
          /\ IsOpen(p)
          /\ BeginClose(p, "stale")
          /\ pc' = "closingStale" /\ cur' = p
          /\ UNCHANGED <<queue, transition, precedingFailed, todo, version, stalePorts>>
       \/ /\ p \in stalePorts
          /\ ~IsOpen(p) /\ closing[p] = "none"
          /\ stalePorts' = stalePorts \ {p}
          /\ todo' = todo \ {p}
          /\ UNCHANGED <<pc, cur, queue, transition, precedingFailed, version, devVars>>
    /\ UNCHANGED <<port, readyPort, failedPort, connected, outVars, testVars, writeVars>>

\* performDisconnect is over: disconnect resolves, connect goes on
Disconnected ==
    /\ pc = "stale" /\ todo = {}
    /\ connected' = FALSE
    /\ IF queue[1].kind = "disconnect" THEN Finish(TRUE)
       ELSE /\ transition' = "none"
            /\ pc' = "identify"
            /\ UNCHANGED <<queue, precedingFailed, cur, todo, version>>
    /\ UNCHANGED <<port, readyPort, failedPort, stalePorts, outVars, testVars,
                   writeVars, devVars>>

\* reportPortIdentity answered or timed out: create the port and open it
CreatePort(p) ==
    /\ Quiescent
    /\ pc = "identify"
    /\ Unused(p)
    /\ port' = p
    /\ dev' = [dev EXCEPT ![p] = "opening"]
    /\ lastCmd' = [lastCmd EXCEPT ![p] = "none"]
    /\ pc' = "opening" /\ cur' = p
    /\ UNCHANGED <<readyPort, failedPort, stalePorts, connected, outVars,
                   testVars, writeVars, queue, transition, precedingFailed,
                   todo, version, closing, timedOut>>

Awaiting(p) == pc = "opening" /\ cur = p

\* openPort resolves: on to the control signals
OpenDone(p) ==
    /\ Quiescent
    /\ dev[p] = "opening" /\ Awaiting(p)
    /\ dev' = [dev EXCEPT ![p] = "open"]
    /\ Goto("signals")
    /\ UNCHANGED <<portVars, outVars, testVars, writeVars, closing, timedOut, lastCmd>>

\* openPort rejects: by the port's error
OpenError(p) ==
    /\ Quiescent
    /\ dev[p] = "opening" /\ Awaiting(p)
    /\ FailCurrent([dev EXCEPT ![p] = "closed"])
    /\ Finish(FALSE)

\* openPort rejects by its timer, and the port goes on opening
OpenTimeout ==
    /\ Quiescent
    /\ pc = "opening"
    /\ FailCurrent(dev)
    /\ Finish(FALSE)

\* Mutant: a port that opens after its timeout is ignored.
LateOpenIgnored(p) ==
    /\ Quiescent
    /\ dev[p] = "opening" /\ ~Awaiting(p)
    /\ dev' = [dev EXCEPT ![p] = "open"]
    /\ UNCHANGED <<portVars, outVars, testVars, writeVars, lifeVars, closing,
                   timedOut, lastCmd>>

\* closeLateOpenedPort: the port opens after all, and becomes a stale port
LateOpen(p) ==
    /\ Quiescent
    /\ dev[p] = "opening" /\ ~Awaiting(p)
    /\ stalePorts' = stalePorts \cup {p}
    /\ BeginClose(p, "stale")
    /\ UNCHANGED <<port, readyPort, failedPort, connected, outVars, testVars,
                   writeVars, lifeVars>>

LateOpenError(p) ==
    /\ Quiescent
    /\ dev[p] = "opening" /\ ~Awaiting(p)
    /\ dev' = [dev EXCEPT ![p] = "closed"]
    /\ UNCHANGED <<portVars, outVars, testVars, writeVars, lifeVars, closing,
                   timedOut, lastCmd>>

Holding == port = cur /\ IsOpen(port)

\* probeTCodeCapabilities: the probe is written, if there still is a port
Probe(label) ==
    /\ BeginWrite("lifecycle", "probe")
    /\ Goto(label)
    /\ UNCHANGED <<portVars, outVars, testVars, dev, closing, timedOut>>

\* configureControlSignals resolves; without a port there is no version
SignalsDone ==
    /\ Quiescent
    /\ pc = "signals"
    /\ IF IsOpen(port) THEN Probe("probe1")
       ELSE FailCurrent(dev) /\ Finish(FALSE)

\* configureControlSignals rejects, by an error or by its timer
SignalsFailed ==
    /\ Quiescent
    /\ pc = "signals"
    /\ FailCurrent(dev)
    /\ Finish(FALSE)

\* the end of performConnect: ready, lost, or not speaking T-Code
ConcludeProbe ==
    \/ /\ Holding /\ version
       /\ readyPort' = cur
       /\ connected' = TRUE
       /\ Finish(TRUE)
       /\ UNCHANGED <<port, failedPort, stalePorts, outVars, testVars,
                      writeVars, devVars>>
    \/ /\ Holding /\ ~version
       /\ FailPort(cur, dev)
       /\ Finish(FALSE)
    \/ /\ ~Holding
       /\ Finish(FALSE)
       /\ UNCHANGED <<portVars, outVars, testVars, writeVars, devVars>>

\* A probe write settled: listen for the version, or give up.
ProbeSettled ==
    /\ pc \in {"probe1", "probe2"}
    /\ write["lifecycle"] \in {"ok", "failed"}
    /\ EndWrite("lifecycle")
    /\ \/ /\ write["lifecycle"] = "ok"
          /\ Goto(IF pc = "probe1" THEN "listen1" ELSE "listen2")
          /\ UNCHANGED <<portVars, outVars, testVars, devVars>>
       \/ /\ write["lifecycle"] = "failed"
          /\ ~Holding
          /\ Finish(FALSE)
          /\ UNCHANGED <<portVars, outVars, testVars, devVars>>

\* The device answers with a T-Code version.
VersionArrives ==
    /\ Quiescent
    /\ pc \in {"probe1", "listen1", "probe2", "listen2"}
    /\ dev[cur] = "open"
    /\ ~version
    /\ version' = TRUE
    /\ UNCHANGED <<queue, transition, precedingFailed, pc, cur, todo, portVars,
                   outVars, testVars, writeVars, devVars>>

VersionHeard ==
    /\ pc \in {"listen1", "listen2"}
    /\ version
    /\ ConcludeProbe

\* A probe window ends in silence: once more, then not ready.
ProbeWindowOver ==
    /\ Quiescent
    /\ \/ pc = "listen1" /\ Holding /\ Probe("probe2")
       \/ pc = "listen1" /\ ~Holding /\ ConcludeProbe
       \/ pc = "listen2" /\ ConcludeProbe

(***************************************************************************)
(* Closing.  A pending close settles once, by the port's callback; its     *)
(* timer may have rejected the promise before that.                        *)
(***************************************************************************)
\* Mutant: the cleanup that failPort started never wakes who awaits it.
ResumeOwnOnly(p, ok) ==
    \/ pc = "closingOwned" /\ cur = p /\ (IF ok THEN Goto("retryFailed") ELSE Finish(FALSE))
    \/ pc = "closingFailed" /\ cur = p /\ (IF ok THEN Goto("retryClose") ELSE Finish(FALSE))
    \/ pc = "closingStale" /\ cur = p /\ (IF ok THEN Goto("stale") ELSE Finish(FALSE))
    \/ /\ ~(pc \in {"closingOwned", "closingFailed", "closingStale"} /\ cur = p)
       /\ UNCHANGED lifeVars

\* the await on the close of p goes on in the lifecycle operation, if it is there
Resume(p, ok) ==
    \/ pc = "closingOwned" /\ cur = p /\ (IF ok THEN Goto("retryFailed") ELSE Finish(FALSE))
    \/ pc = "awaitFailed" /\ closing[p] = "failed" /\ Goto("retryClose")
    \/ pc = "closingFailed" /\ cur = p /\ (IF ok THEN Goto("retryClose") ELSE Finish(FALSE))
    \/ pc = "closingStale" /\ cur = p /\ (IF ok THEN Goto("stale") ELSE Finish(FALSE))
    \/ /\ ~(pc \in {"closingOwned", "closingFailed", "closingStale"} /\ cur = p)
       /\ ~(pc = "awaitFailed" /\ closing[p] = "failed")
       /\ UNCHANGED lifeVars

\* the port's answer to a pending close: closed, or still open after an error
CloseAnswer(p, state) ==
    /\ dev' = [dev EXCEPT ![p] = state]
    /\ closing' = [closing EXCEPT ![p] = "none"]
    /\ timedOut' = timedOut \ {p}
    /\ UNCHANGED lastCmd

\* finalizeClosedPort for the current port
ReleaseCurrent(p) ==
    /\ port' = None
    /\ connected' = FALSE
    /\ ClearOutput
    /\ write' = FailedWrites(p)
    /\ UNCHANGED <<protection, emergencyStopped, patternPc, patternStep, writePort>>

\* Closed in time: the awaiting code drops its references to the port.
ClosedInTime(p) ==
    /\ Quiescent
    /\ closing[p] # "none" /\ p \notin timedOut
    /\ CloseAnswer(p, "closed")
    /\ readyPort' = IF readyPort = p THEN None ELSE readyPort
    /\ failedPort' = IF failedPort = p THEN None ELSE failedPort
    /\ stalePorts' = stalePorts \ {p}
    /\ connected' = (connected /\ closing[p] # "owned")
    /\ Resume(p, TRUE)
    /\ UNCHANGED <<port, outVars, testVars, writeVars>>

\* The close fails in time: an owned port that is still open is taken back.
CloseErrorInTime(p) ==
    /\ Quiescent
    /\ closing[p] # "none" /\ p \notin timedOut
    /\ CloseAnswer(p, "open")
    /\ port' = IF closing[p] = "owned" /\ port = None THEN p ELSE port
    /\ Resume(p, FALSE)
    /\ UNCHANGED <<readyPort, failedPort, stalePorts, connected, outVars,
                   testVars, writeVars>>

\* The close timer fires: an owned port is taken back, its close still pending.
CloseTimeout(p) ==
    /\ Quiescent
    /\ closing[p] # "none" /\ p \notin timedOut
    /\ timedOut' = timedOut \cup {p}
    /\ port' = IF closing[p] = "owned" /\ port = None THEN p ELSE port
    /\ Resume(p, FALSE)
    /\ UNCHANGED <<readyPort, failedPort, stalePorts, connected, outVars,
                   testVars, writeVars, dev, closing, lastCmd>>

\* finalizeClosedPort, after the timer
ClosedLate(p) ==
    /\ Quiescent
    /\ closing[p] # "none" /\ p \in timedOut
    /\ CloseAnswer(p, "closed")
    /\ readyPort' = IF readyPort = p THEN None ELSE readyPort
    /\ failedPort' = IF failedPort = p THEN None ELSE failedPort
    /\ stalePorts' = stalePorts \ {p}
    /\ IF port = p THEN ReleaseCurrent(p)
       ELSE UNCHANGED <<port, connected, outVars, testVars, writeVars>>
    /\ UNCHANGED lifeVars

\* reconcileLateClose: the port is still open; an owned one is taken back
CloseErrorLate(p) ==
    /\ Quiescent
    /\ closing[p] # "none" /\ p \in timedOut
    /\ CloseAnswer(p, "open")
    /\ \/ /\ closing[p] = "owned" /\ port \in {None, p}
          /\ port' = p
          /\ connected' = TRUE
          /\ UNCHANGED stalePorts
       \/ /\ closing[p] = "owned" /\ port \notin {None, p}
          /\ stalePorts' = stalePorts \cup {p}
          /\ UNCHANGED <<port, connected>>
       \/ /\ closing[p] # "owned"
          /\ UNCHANGED <<port, connected, stalePorts>>
    /\ UNCHANGED <<readyPort, failedPort, outVars, testVars, writeVars, lifeVars>>

(***************************************************************************)
(* Port events nobody asked for.                                           *)
(***************************************************************************)
\* handlePortError
PortError(p) ==
    /\ Quiescent
    /\ port = p /\ dev[p] = "open"
    /\ FailPort(p, dev)
    /\ UNCHANGED lifeVars

\* The device goes away: the port stops being open, its close event follows.
Unplug(p) ==
    /\ Quiescent
    /\ dev[p] = "open"
    /\ dev' = [dev EXCEPT ![p] = "lost"]
    /\ UNCHANGED <<portVars, outVars, testVars, writeVars, lifeVars, closing,
                   timedOut, lastCmd>>

\* handlePortClose, without a pending close
PortClosed(p) ==
    /\ Quiescent
    /\ dev[p] = "lost"
    /\ IF port = p THEN FailPort(p, [dev EXCEPT ![p] = "closed"])
       ELSE /\ dev' = [dev EXCEPT ![p] = "closed"]
            /\ UNCHANGED <<portVars, outVars, testVars, writeVars, closing,
                           timedOut, lastCmd>>
    /\ UNCHANGED lifeVars

(***************************************************************************)
(* The specification.                                                      *)
(***************************************************************************)
Init ==
    /\ port = None /\ readyPort = None /\ failedPort = None /\ stalePorts = {}
    /\ connected = FALSE
    /\ protection \in Limits
    /\ latestFrame = None /\ flushTimer = FALSE /\ emergencyStopped = FALSE
    /\ patternPc = [t \in Patterns |-> "idle"]
    /\ patternStep = [t \in Patterns |-> 0]
    /\ patternLive = [t \in Patterns |-> FALSE]
    /\ write = [o \in Owners |-> "none"]
    /\ writePort = [o \in Owners |-> None]
    /\ queue = <<>> /\ transition = "none" /\ precedingFailed = FALSE
    /\ pc = "idle" /\ cur = None /\ todo = {} /\ version = FALSE
    /\ dev = [p \in Ports |-> "closed"]
    /\ closing = [p \in Ports |-> "none"]
    /\ timedOut = {}
    /\ lastCmd = [p \in Ports |-> "none"]

Calls ==
    \/ \E key \in Keys : Connect(key)
    \/ Disconnect
    \/ StopForRoomExit
    \/ AcceptMotion
    \/ DropPausedMotion
    \/ \E s \in Protections : SetProtection(s)
    \/ \E l \in LatchCalls : LatchEmergencyStop(l)
    \/ ReleaseEmergencyStop
    \/ \E t \in Patterns : RunTestPattern(t)

Output ==
    \/ FlushLatest
    \/ FlushSettled
    \/ \E l \in LatchCalls : LatchSettled(l)
    \/ \E t \in Patterns : PatternSettled(t) \/ PatternDelayOver(t)
    \/ \E o \in Owners : WriteDone(o) \/ WriteError(o) \/ WriteTimeout(o)

Lifecycle ==
    \/ StartOperation \/ StopSettled \/ ReleasePort \/ RetryFailed \/ RetryClose
    \/ \E p \in Ports : CleanupStalePort(p)
    \/ Disconnected
    \/ \E p \in Ports : CreatePort(p) \/ OpenDone(p) \/ OpenError(p)
    \/ OpenTimeout
    \/ \E p \in Ports : LateOpen(p) \/ LateOpenError(p)
    \/ SignalsDone \/ SignalsFailed
    \/ ProbeSettled \/ VersionArrives \/ VersionHeard \/ ProbeWindowOver

PortEvents ==
    \E p \in Ports :
        \/ ClosedInTime(p) \/ CloseErrorInTime(p) \/ CloseTimeout(p)
        \/ ClosedLate(p) \/ CloseErrorLate(p)
        \/ PortError(p) \/ Unplug(p) \/ PortClosed(p)

Next == Calls \/ Output \/ Lifecycle \/ PortEvents

Spec == Init /\ [][Next]_vars

(***************************************************************************)
(* Fairness.  A ready promise continuation runs.  A timer that stays armed *)
(* fires, whatever handlers run before it, which is strong fairness here   *)
(* because those handlers suspend Quiescent.  A port whose handle is gone  *)
(* reports its close and the errors of its pending writes.  Nothing else   *)
(* is promised by a port: no write, open or close has to be answered.      *)
(***************************************************************************)
Continuation ==
    \/ StartOperation \/ StopSettled \/ ReleasePort \/ RetryFailed \/ RetryClose
    \/ \E p \in Ports : CleanupStalePort(p)
    \/ Disconnected \/ ProbeSettled \/ VersionHeard
    \/ FlushSettled
    \/ \E l \in LatchCalls : LatchSettled(l)
    \/ \E t \in Patterns : PatternSettled(t)

LifecycleTimer ==
    \/ \E p \in Ports : CreatePort(p)
    \/ OpenTimeout \/ SignalsFailed \/ ProbeWindowOver

Fairness ==
    /\ WF_vars(Continuation)
    /\ SF_vars(FlushLatest)
    /\ SF_vars(LifecycleTimer)
    /\ \A o \in Owners : SF_vars(WriteTimeout(o) \/ WriteAborted(o))
    /\ \A p \in Ports : SF_vars(CloseTimeout(p) \/ PortClosed(p))

FairSpec == Spec /\ Fairness

(***************************************************************************)
(* Properties.                                                             *)
(***************************************************************************)
PortsTyped ==
    /\ port \in Ports \cup {None}
    /\ readyPort \in Ports \cup {None}
    /\ failedPort \in Ports \cup {None}
    /\ stalePorts \subseteq Ports
    /\ connected \in BOOLEAN
OutputTyped ==
    /\ protection \in Protections
    /\ latestFrame \in Limits \cup {None}
    /\ flushTimer \in BOOLEAN
    /\ emergencyStopped \in BOOLEAN
PatternsTyped ==
    /\ patternPc \in [Patterns -> {"idle", "write", "delay"}]
    /\ patternStep \in [Patterns -> 0..TestSteps]
    /\ patternLive \in [Patterns -> BOOLEAN]
WritesTyped ==
    /\ write \in [Owners -> {"none", "active", "ok", "failed"}]
    /\ writePort \in [Owners -> Ports \cup {None}]
LifecycleTyped ==
    /\ queue \in Seq(Operations)
    /\ transition \in {"none", "disconnect", "room-exit"}
    /\ precedingFailed \in BOOLEAN
    /\ pc \in {"idle"} \cup Continuations \cup Waits
    /\ cur \in Ports \cup {None}
    /\ todo \subseteq Ports
    /\ version \in BOOLEAN
DeviceStates == {"closed", "opening", "open", "closing", "lost"}
DevicesTyped ==
    /\ dev \in [Ports -> DeviceStates]
    /\ closing \in [Ports -> {"none", "owned", "failed", "stale"}]
    /\ timedOut \subseteq Ports
    /\ lastCmd \in [Ports -> {"none", "probe", "test", "stop", "motion"}]

\* Every variable has its type; in particular a frame in latestFrame was never
\* accepted under a paused protection (queueMotion).
TypeOK ==
    /\ PortsTyped /\ OutputTyped /\ PatternsTyped
    /\ WritesTyped /\ LifecycleTyped /\ DevicesTyped

\* No device is left moving while the emergency stop is latched: whatever was
\* in flight, the last command its port was handed is not a movement
\* (latchEmergencyStop, failPort and the cleanup of a port taken back).
LatchedDeviceStopped ==
    emergencyStopped /\ IsOpen(port) => lastCmd[port] \notin {"motion", "test"}

\* A motion or test write begins only on the ready port, with no latch and no
\* lifecycle operation requested or running.  flushLatest and the loop of
\* runTestPattern check none of this themselves: they rely on every stop,
\* loss and request having dropped the frame or superseded the pattern.
MovesOnlyWhenAllowed ==
    [][\A o \in {"flush"} \cup Patterns :
          write[o] = "none" /\ write'[o] = "active" => MayMove]_vars

\* The promise the rest of the application relies on: whatever becomes of ports,
\* writes, timers and queued operations, the controller is an output gate.  What
\* was accepted before a stop, a loss or a lifecycle request moves no device
\* afterwards, and a device is admitted again only after it was told to stop.
Gate == INSTANCE OutputGate WITH
    latched   <- emergencyStopped,
    admitting <- PortReady /\ ~Blocked,
    pending   <- latestFrame # None \/ \E t \in Patterns : patternLive[t],
    moving    <- IsOpen(port) /\ lastCmd[port] \in {"motion", "test"}

ImplementsGate == Gate!Spec

\* A port whose close was asked for, by disconnect or by connect, was handed
\* the stop payload last, even if the write failed or the close is retried.
StoppedBeforeClose ==
    \A p \in Ports : closing[p] = "owned" => lastCmd[p] = "stop"

\* While a room exit runs on an open port, and until its port is given up or
\* its operation ends, nothing overtakes the stop it wrote.
RoomExitHoldsStop ==
    transition = "room-exit" /\ IsOpen(port) => lastCmd[port] = "stop"

\* An open port is never forgotten: a reference through which a later
\* operation can close it survives every timeout, late answer and loss.
NoPortLeak ==
    \A p \in Ports :
        Quiescent /\ dev[p] = "open" => p \in {port, failedPort} \cup stalePorts

\* A new port is not opened before the previous one is closed: besides ports
\* that opened after their timeout, at most one is held at a time.
Held(p) == p \in {port, failedPort} \/ closing[p] \in {"owned", "failed"}
OneDeviceAtATime ==
    \A p, q \in Ports \ stalePorts : Held(p) /\ Held(q) => p = q

\* A ready port that is lost while nobody is disconnecting or leaving latches
\* the emergency stop, so that the next device does not move by itself.
UnexpectedLossLatches ==
    [][readyPort # None /\ readyPort' = None /\ pc = "idle"
          /\ closing[readyPort] = "none" => emergencyStopped']_vars

\* Between lifecycle operations a ready port is a reported one: no path that
\* takes a port back after a failed close leaves it silently controllable.
ReadyIsReported == Quiescent /\ pc = "idle" /\ readyPort # None => connected

\* Every port object the controller opened is accounted for, after late opens
\* and late closes too: none is lost sight of, none doubles another, and the one
\* that takes commands is reported as connected.
PortsAccountedFor == NoPortLeak /\ OneDeviceAtATime /\ ReadyIsReported

\* The disconnect design: "connected" says whether the controller accepts work
\* for an open port.  Between lifecycle operations there should be such a port;
\* in the code there need not be.
StatusIsTrue == Quiescent /\ pc = "idle" /\ connected => readyPort # None

\* Every lifecycle operation ends, whatever the port fails to answer.
LifecycleCompletes == pc # "idle" ~> pc = "idle"

\* A frame that was accepted is written or dropped.
FramesLeave == latestFrame # None ~> latestFrame = None

\* README: receive pause outputs no new motion frame to the hardware.  No
\* motion write should begin while the protection is paused; one of a frame
\* that was accepted before does.
PausedOutputsNoMotion ==
    [][write["flush"] = "none" /\ write'["flush"] = "active"
          => protection # Paused]_vars

(***************************************************************************)
(* The inductive invariant behind the safety properties.                   *)
(***************************************************************************)
\* what the current lifecycle operation does while transition is set
Disconnecting == {"stopping", "release", "closingOwned", "retryFailed",
                  "awaitFailed", "retryClose", "closingFailed", "stale",
                  "closingStale"}
\* after the port was given up, and after the new one was created
Released == (Disconnecting \ {"stopping", "release"}) \cup {"identify"}
Connecting == {"opening", "signals", "probe1", "listen1", "probe2", "listen2"}

\* While output is latched or blocked, no frame is queued and no pattern goes on.
NothingPending == latestFrame = None /\ \A t \in Patterns : ~patternLive[t]
LatchAndBlockClearOutput == emergencyStopped \/ Blocked => NothingPending

\* What is pending was accepted for the port that is current and ready.
PendingIsForReadyPort ==
    ~NothingPending => port # None /\ readyPort = port

OperationState ==
    /\ pc # "idle" => queue # <<>>
    /\ pc \in Disconnecting => transition = "disconnect"
    /\ transition = "room-exit" <=> pc = "exitStopping"
    /\ pc \in Released => port = None
    /\ pc \in Connecting => cur # None

ActiveWriteHasPort == \A o \in Owners : write[o] = "active" => writePort[o] # None

\* Once a lifecycle stop is written, nothing overtakes it.
StopIsLast ==
    pc \in {"stopping", "release", "exitStopping"} /\ IsOpen(port)
        => lastCmd[port] = "stop"

\* A close record is pending exactly while the port closes; who holds the port
\* in the meantime depends on the role.
CloseRecords ==
    \A p \in Ports :
        /\ closing[p] # "none" <=> dev[p] = "closing"
        /\ p \in timedOut => closing[p] # "none"
        /\ closing[p] = "owned" =>
              /\ lastCmd[p] = "stop"
              /\ p \notin stalePorts /\ failedPort # p
              /\ IF p \in timedOut THEN port = p
                 ELSE pc = "closingOwned" /\ cur = p /\ port = None
        /\ closing[p] \in {"failed", "stale"} => port # p

\* The current port is neither failed nor stale; a port still opening is the
\* current one only while performConnect awaits it, and has had no command.
CurrentPort ==
    /\ port \notin stalePorts
    /\ port = failedPort => port = None
    /\ \A p \in Ports : dev[p] = "opening" =>
          /\ lastCmd[p] = "none"
          /\ port = p => pc = "opening" /\ cur = p

\* Together, what every step of the controller preserves; the theorems about
\* safety rest on it.
IInv ==
    /\ TypeOK
    /\ LatchAndBlockClearOutput
    /\ PendingIsForReadyPort
    /\ OperationState
    /\ ActiveWriteHasPort
    /\ StopIsLast
    /\ CloseRecords
    /\ CurrentPort
    /\ LatchedDeviceStopped

(***************************************************************************)
(* What is known besides of the references to ports, for PortsAccountedFor *)
(* and for the output gate.                                                *)
(***************************************************************************)
\* A ready port is the current one or being closed as such, and is reported.
ReadyReference ==
    /\ readyPort # None => connected
    /\ port # None => readyPort \in {port, None}
    /\ pc = "closingOwned" => readyPort \in {cur, None}
    /\ pc \in (Released \ {"closingOwned"}) \cup Connecting => readyPort = None

\* There is a failed port only while there is no current one, and a new one is
\* created only when it is gone.
FailedReference ==
    port # None \/ pc \in {"closingOwned", "stale", "closingStale", "identify"}
        => failedPort = None

\* Open ports, and those that a failed close would leave open, are referred to.
PortReferences ==
    /\ \A p \in Ports :
          /\ dev[p] = "open" => p \in {port, failedPort} \cup stalePorts
          /\ closing[p] = "failed" => p = failedPort
          /\ closing[p] = "stale" => p \in stalePorts
          /\ dev[p] = "opening" =>
                /\ p # failedPort
                /\ \A o \in Owners : write[o] = "active" => writePort[o] # p
    /\ pc = "opening" /\ dev[cur] = "opening" => port = cur

\* No movement was accepted for a port that closes, and the port that is being
\* connected was not told to move.
GateIsShut ==
    /\ port # None /\ dev[port] = "closing" => NothingPending
    /\ pc \in Connecting => lastCmd[cur] \notin {"motion", "test"}

\* Together with IInv, what every step preserves.
PortsInv ==
    /\ pc = "idle" => transition = "none"
    /\ ReadyReference
    /\ FailedReference
    /\ PortReferences
    /\ GateIsShut
=============================================================================
