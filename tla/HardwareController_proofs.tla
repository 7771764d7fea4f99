---------------------- MODULE HardwareController_proofs ----------------------
(***************************************************************************)
(* The invariant IInv of HardwareController is inductive, whatever the     *)
(* ports, test patterns, limits and bounds are.                            *)
(***************************************************************************)
EXTENDS HardwareController, TLAPS

LEMMA TailType ==
    ASSUME LifecycleTyped, queue # <<>>
    PROVE  /\ Tail(queue) \in Seq(Operations)
           /\ Len(Tail(queue)) = Len(queue) - 1
           /\ \A i \in 1..Len(Tail(queue)) : Tail(queue)[i] = queue[i + 1]
  BY DEF LifecycleTyped

\* Each part of the type invariant is about the variables of one group.
LEMMA UnchangedLemma ==
    ASSUME TypeOK
    PROVE  /\ UNCHANGED portVars => PortsTyped'
           /\ UNCHANGED outVars => OutputTyped'
           /\ UNCHANGED testVars => PatternsTyped'
           /\ UNCHANGED writeVars => WritesTyped'
           /\ UNCHANGED lifeVars => LifecycleTyped' /\ (Blocked' <=> Blocked)
           /\ UNCHANGED devVars => DevicesTyped'
  <1>1. UNCHANGED portVars => PortsTyped'
    BY DEF TypeOK, portVars, PortsTyped
  <1>2. UNCHANGED outVars => OutputTyped'
    BY DEF TypeOK, outVars, OutputTyped
  <1>3. UNCHANGED testVars => PatternsTyped'
    BY DEF TypeOK, testVars, PatternsTyped
  <1>4. UNCHANGED writeVars => WritesTyped'
    BY DEF TypeOK, writeVars, WritesTyped
  <1>5. UNCHANGED lifeVars => LifecycleTyped' /\ (Blocked' <=> Blocked)
    BY DEF TypeOK, lifeVars, LifecycleTyped, Blocked, Gated
  <1>6. UNCHANGED devVars => DevicesTyped'
    BY DEF TypeOK, devVars, DevicesTyped
  <1> QED BY <1>1, <1>2, <1>3, <1>4, <1>5, <1>6

(***************************************************************************)
(* What the building blocks of the actions keep.                           *)
(***************************************************************************)
LEMMA FinishLemma ==
    ASSUME LifecycleTyped, queue # <<>>, NEW ok \in BOOLEAN, Finish(ok)
    PROVE  LifecycleTyped' /\ (Blocked' => Gated)
  <1>1. queue' = Tail(queue) /\ transition' = "none" /\ precedingFailed' \in BOOLEAN
    BY DEF Finish, AwaitedByNext, LifecycleTyped
  <1>2. ASSUME Blocked' PROVE Gated
    <2>1. PICK i \in 1..Len(queue') : queue'[i].kind \in {"disconnect", "room-exit"}
      BY <1>1, <1>2 DEF Blocked, Gated
    <2>2. i + 1 \in 1..Len(queue) /\ queue'[i] = queue[i + 1]
      BY <1>1, <2>1, TailType DEF LifecycleTyped
    <2> QED BY <2>1, <2>2 DEF Gated
  <1> QED BY <1>1, <1>2, TailType DEF LifecycleTyped, Finish

LEMMA GotoLemma ==
    ASSUME LifecycleTyped, NEW label \in Continuations \cup Waits, Goto(label)
    PROVE  LifecycleTyped' /\ (Blocked' <=> Blocked)
  BY DEF Goto, LifecycleTyped, Blocked, Gated

LEMMA FailPortLemma ==
    ASSUME TypeOK, NEW p \in Ports, NEW d \in [Ports -> DeviceStates], FailPort(p, d)
    PROVE  PortsTyped' /\ OutputTyped' /\ PatternsTyped' /\ WritesTyped' /\ DevicesTyped'
  <1>1. ClearOutput /\ write' = FailedWrites(p)
        /\ UNCHANGED <<stalePorts, protection, patternPc, patternStep, writePort,
                       timedOut, lastCmd>>
    BY DEF FailPort
  <1>2. PatternsTyped' /\ WritesTyped'
    BY <1>1 DEF TypeOK, PatternsTyped, WritesTyped, FailedWrites, ClearOutput, CancelPatterns
  <1>3. OutputTyped'
    BY <1>1 DEF TypeOK, OutputTyped, ClearOutput, FailPort, UnexpectedReadyLoss
  <1>4. PortsTyped'
    BY <1>1 DEF TypeOK, PortsTyped, FailPort
  <1>5. DevicesTyped'
    <2>1. dev' = d \/ dev' = [d EXCEPT ![p] = "closing"]
      BY DEF FailPort
    <2>2. closing' = closing \/ closing' = [closing EXCEPT ![p] = "failed"]
      BY DEF FailPort
    <2> QED BY <1>1, <2>1, <2>2 DEF TypeOK, DevicesTyped, DeviceStates
  <1> QED BY <1>2, <1>3, <1>4, <1>5

LEMMA BeginWriteLemma ==
    ASSUME TypeOK, NEW o \in Owners, NEW kind \in {"probe", "test", "stop", "motion"},
           BeginWrite(o, kind)
    PROVE  WritesTyped' /\ lastCmd' \in [Ports -> {"none", "probe", "test", "stop", "motion"}]
           /\ write'[o] # "none"
  BY DEF TypeOK, WritesTyped, PortsTyped, DevicesTyped, BeginWrite, IsOpen

LEMMA EndWriteLemma ==
    ASSUME TypeOK, NEW o \in Owners, EndWrite(o)
    PROVE  WritesTyped'
  BY DEF TypeOK, WritesTyped, EndWrite

LEMMA ClearOutputLemma ==
    ASSUME TypeOK, ClearOutput
    PROVE  /\ latestFrame' \in Limits \cup {None} /\ flushTimer' \in BOOLEAN
           /\ patternLive' \in [Patterns -> BOOLEAN]
           /\ NothingPending'
  BY DEF ClearOutput, CancelPatterns, NothingPending

LEMMA FailCurrentLemma ==
    ASSUME TypeOK, cur \in Ports, NEW d \in [Ports -> DeviceStates], FailCurrent(d)
    PROVE  PortsTyped' /\ OutputTyped' /\ PatternsTyped' /\ WritesTyped' /\ DevicesTyped'
  <1>1. CASE port = cur
    BY <1>1, FailPortLemma DEF FailCurrent
  <1>2. CASE port # cur
    <2>1. /\ dev' = d
          /\ UNCHANGED <<portVars, outVars, testVars, writeVars, closing, timedOut, lastCmd>>
      BY <1>2 DEF FailCurrent
    <2>2. PortsTyped' /\ OutputTyped' /\ PatternsTyped' /\ WritesTyped'
      BY <2>1, UnchangedLemma
    <2> QED BY <2>1, <2>2 DEF TypeOK, DevicesTyped
  <1> QED BY <1>1, <1>2

LEMMA WriteStopLemma ==
    ASSUME TypeOK, NEW o \in Owners, WriteStop(o)
    PROVE  /\ WritesTyped'
           /\ lastCmd' \in [Ports -> {"none", "probe", "test", "stop", "motion"}]
  <1>1. CASE IsOpen(port)
    BY <1>1, BeginWriteLemma DEF WriteStop
  <1>2. CASE ~IsOpen(port)
    BY <1>2, UnchangedLemma DEF WriteStop, TypeOK, DevicesTyped
  <1> QED BY <1>1, <1>2

LEMMA ProbeLemma ==
    ASSUME TypeOK, NEW label \in Waits, Probe(label)
    PROVE  TypeOK' /\ (Blocked' <=> Blocked)
  <1>1. "lifecycle" \in Owners
    BY DEF Owners
  <1>2. BeginWrite("lifecycle", "probe") /\ Goto(label)
        /\ UNCHANGED <<portVars, outVars, testVars, dev, closing, timedOut>>
    BY DEF Probe
  <1>3. WritesTyped' /\ LifecycleTyped' /\ (Blocked' <=> Blocked)
        /\ lastCmd' \in [Ports -> {"none", "probe", "test", "stop", "motion"}]
    BY <1>1, <1>2, BeginWriteLemma, GotoLemma DEF TypeOK
  <1>4. PortsTyped' /\ OutputTyped' /\ PatternsTyped'
    BY <1>2, UnchangedLemma
  <1>5. DevicesTyped'
    BY <1>2, <1>3 DEF TypeOK, DevicesTyped
  <1> QED BY <1>3, <1>4, <1>5 DEF TypeOK

LEMMA ConcludeProbeLemma ==
    ASSUME TypeOK, queue # <<>>, cur \in Ports, ConcludeProbe
    PROVE  TypeOK' /\ (Blocked' => Gated)
  <1>1. LifecycleTyped' /\ (Blocked' => Gated)
    BY FinishLemma DEF ConcludeProbe, TypeOK
  <1>2. CASE FailPort(cur, dev)
    BY <1>1, <1>2, FailPortLemma DEF TypeOK, DevicesTyped
  <1>3. CASE UNCHANGED <<outVars, testVars, writeVars, devVars>>
    <2>1. PortsTyped'
      BY DEF ConcludeProbe, TypeOK, PortsTyped, FailPort, portVars
    <2> QED BY <1>1, <1>3, <2>1, UnchangedLemma DEF TypeOK
  <1> QED BY <1>2, <1>3 DEF ConcludeProbe


LEMMA ResumeLemma ==
    ASSUME IInv, NEW p \in Ports, NEW ok \in BOOLEAN, Resume(p, ok)
    PROVE  /\ LifecycleTyped' /\ (Blocked' => Blocked)
           /\ \/ pc' = "idle" /\ transition' = "none"
              \/ UNCHANGED lifeVars
              \/ /\ pc' \in {"retryFailed", "retryClose", "stale"}
                 /\ pc \in Disconnecting \cap Released
                 /\ UNCHANGED <<queue, transition, cur>>
           /\ pc = "closingOwned" => UNCHANGED lifeVars \/ cur = p
           /\ pc = "closingOwned" /\ cur = p /\ ~ok => pc' = "idle"
  <1>1. ASSUME UNCHANGED lifeVars
        PROVE  LifecycleTyped' /\ (Blocked' => Blocked)
    BY <1>1, UnchangedLemma DEF IInv
  <1>2. ASSUME NEW label \in {"retryFailed", "retryClose", "stale"}, Goto(label)
        PROVE  LifecycleTyped' /\ (Blocked' => Blocked)
    BY <1>2, GotoLemma DEF IInv, TypeOK, Continuations
  <1>3. ASSUME Finish(FALSE), pc # "idle"
        PROVE  LifecycleTyped' /\ (Blocked' => Blocked)
    <2>1. queue # <<>>
      BY <1>3 DEF IInv, OperationState
    <2> QED BY <1>3, <2>1, FinishLemma DEF IInv, TypeOK, Blocked
  <1>4. LifecycleTyped' /\ (Blocked' => Blocked)
    BY <1>1, <1>2, <1>3 DEF Resume
  <1> QED BY <1>4 DEF Resume, Goto, Finish, Disconnecting, Released, lifeVars

(***************************************************************************)
(* Type correctness, action by action.                                     *)
(***************************************************************************)
LEMMA CallsType ==
    ASSUME IInv, Calls
    PROVE  TypeOK'
  <1> USE DEF IInv, TypeOK
  <1>1. ASSUME NEW key \in Keys, Connect(key) PROVE TypeOK'
    <2>1. [kind |-> "connect", key |-> key, after |-> LastIs("disconnect")] \in Operations
      BY DEF Operations, LastIs
    <2> QED BY <1>1, <2>1 DEF Connect, Enqueue, LifecycleTyped, portVars, outVars,
              testVars, writeVars, devVars, PortsTyped, OutputTyped, PatternsTyped,
              WritesTyped, DevicesTyped
  <1>2. ASSUME NEW kind \in {"disconnect", "room-exit"}, Interrupting(kind) PROVE TypeOK'
    <2>1. [kind |-> kind] \in Operations
      BY DEF Operations
    <2> QED BY <1>2, <2>1, ClearOutputLemma DEF Interrupting, Enqueue, LifecycleTyped,
              portVars, writeVars, devVars, PortsTyped, OutputTyped, PatternsTyped,
              WritesTyped, DevicesTyped
  <1>3. CASE AcceptMotion
    BY <1>3 DEF AcceptMotion, CancelPatterns, Protections, portVars, writeVars, lifeVars,
       devVars, PortsTyped, OutputTyped, PatternsTyped, WritesTyped, LifecycleTyped,
       DevicesTyped
  <1>4. CASE DropPausedMotion
    BY <1>4 DEF DropPausedMotion, portVars, testVars, writeVars, lifeVars, devVars,
       PortsTyped, OutputTyped, PatternsTyped, WritesTyped, LifecycleTyped, DevicesTyped
  <1>5. ASSUME NEW s \in Protections, SetProtection(s) PROVE TypeOK'
    BY <1>5 DEF SetProtection, portVars, testVars, writeVars, lifeVars, devVars,
       PortsTyped, OutputTyped, PatternsTyped, WritesTyped, LifecycleTyped, DevicesTyped
  <1>6. ASSUME NEW l \in LatchCalls, LatchEmergencyStop(l) PROVE TypeOK'
    <2>1. WritesTyped' /\ lastCmd' \in [Ports -> {"none", "probe", "test", "stop", "motion"}]
      BY <1>6, BeginWriteLemma DEF LatchEmergencyStop, WriteStop, Owners, writeVars,
         WritesTyped, DevicesTyped
    <2> QED BY <1>6, <2>1, ClearOutputLemma DEF LatchEmergencyStop, WriteStop, portVars,
              lifeVars, PortsTyped, OutputTyped, PatternsTyped, LifecycleTyped, DevicesTyped
  <1>7. CASE ReleaseEmergencyStop
    <2>1. UNCHANGED portVars /\ UNCHANGED testVars /\ UNCHANGED writeVars
          /\ UNCHANGED lifeVars /\ UNCHANGED devVars
      BY <1>7 DEF ReleaseEmergencyStop
    <2>2. OutputTyped'
      BY <1>7 DEF ReleaseEmergencyStop, OutputTyped
    <2> QED BY <2>1, <2>2, UnchangedLemma
  <1>8. ASSUME NEW t \in Patterns, RunTestPattern(t) PROVE TypeOK'
    <2>1. PatternsTyped'
      <3>1. CASE PortReady
        <4>1. 1 \in 0..TestSteps /\ 0 \in 0..TestSteps
          BY BoundAssumption
        <4>2. /\ patternPc' \in [Patterns -> {"idle", "write", "delay"}]
              /\ patternStep' \in [Patterns -> 0..TestSteps]
          BY <1>8, <3>1, <4>1 DEF RunTestPattern, TestIteration, PatternsTyped
        <4>3. patternLive' \in [Patterns -> BOOLEAN]
          BY <1>8, <3>1 DEF RunTestPattern
        <4> QED BY <4>2, <4>3 DEF PatternsTyped
      <3>2. CASE ~PortReady
        BY <1>8, <3>2 DEF RunTestPattern, PatternsTyped, testVars
      <3> QED BY <3>1, <3>2
    <2>2. WritesTyped' /\ lastCmd' \in [Ports -> {"none", "probe", "test", "stop", "motion"}]
      BY <1>8, BeginWriteLemma DEF RunTestPattern, TestIteration, Owners, writeVars,
         WritesTyped, DevicesTyped
    <2> QED BY <1>8, <2>1, <2>2 DEF RunTestPattern, portVars, lifeVars, PortsTyped,
              OutputTyped, LifecycleTyped, DevicesTyped
  <1> QED BY <1>1, <1>2, <1>3, <1>4, <1>5, <1>6, <1>7, <1>8
          DEF Calls, Disconnect, StopForRoomExit

LEMMA OutputType ==
    ASSUME IInv, Output
    PROVE  TypeOK'
  <1> USE DEF IInv, TypeOK
  <1>1. CASE FlushLatest
    <2>0. "flush" \in Owners
      BY DEF Owners
    <2>1. WritesTyped' /\ lastCmd' \in [Ports -> {"none", "probe", "test", "stop", "motion"}]
      <3>1. CASE BeginWrite("flush", "motion")
        BY <2>0, <3>1, BeginWriteLemma
      <3>2. CASE UNCHANGED <<writeVars, lastCmd>>
        BY <3>2 DEF writeVars, WritesTyped, DevicesTyped
      <3> QED BY <1>1, <3>1, <3>2 DEF FlushLatest
    <2>2. OutputTyped'
      BY <1>1 DEF FlushLatest, OutputTyped
    <2>3. DevicesTyped'
      BY <1>1, <2>1 DEF FlushLatest, DevicesTyped
    <2>4. PortsTyped' /\ PatternsTyped' /\ LifecycleTyped'
      BY <1>1, UnchangedLemma DEF FlushLatest
    <2> QED BY <2>1, <2>2, <2>3, <2>4
  <1>2. CASE FlushSettled
    BY <1>2, EndWriteLemma DEF FlushSettled, Owners, portVars, testVars, lifeVars, devVars,
       PortsTyped, OutputTyped, PatternsTyped, LifecycleTyped, DevicesTyped
  <1>3. ASSUME NEW l \in LatchCalls, LatchSettled(l) PROVE TypeOK'
    <2>1. l \in Owners /\ EndWrite(l)
      BY <1>3 DEF Owners, LatchSettled
    <2>2. WritesTyped'
      BY <2>1, EndWriteLemma
    <2> QED BY <1>3, <2>2 DEF LatchSettled, portVars, outVars, testVars, lifeVars,
       devVars, PortsTyped, OutputTyped, PatternsTyped, LifecycleTyped, DevicesTyped
  <1>4. ASSUME NEW t \in Patterns, PatternSettled(t) PROVE TypeOK'
    <2>1. PatternsTyped'
      BY <1>4, BoundAssumption DEF PatternSettled, PatternsTyped
    <2>2. t \in Owners /\ EndWrite(t)
      BY <1>4 DEF Owners, PatternSettled
    <2>3. WritesTyped'
      BY <2>2, EndWriteLemma
    <2> QED BY <1>4, <2>1, <2>3 DEF PatternSettled, portVars, outVars,
              lifeVars, devVars, PortsTyped, OutputTyped, LifecycleTyped, DevicesTyped
  <1>5. ASSUME NEW t \in Patterns, PatternDelayOver(t) PROVE TypeOK'
    <2>1. PatternsTyped'
      BY <1>5, BoundAssumption DEF PatternDelayOver, TestIteration, PatternsTyped
    <2>0. t \in Owners
      BY <1>5 DEF Owners
    <2>2. WritesTyped' /\ lastCmd' \in [Ports -> {"none", "probe", "test", "stop", "motion"}]
      BY <1>5, <2>0, BeginWriteLemma DEF PatternDelayOver, TestIteration, Owners, writeVars,
         WritesTyped, DevicesTyped
    <2> QED BY <1>5, <2>1, <2>2 DEF PatternDelayOver, portVars, outVars, lifeVars, PortsTyped,
              OutputTyped, LifecycleTyped, DevicesTyped
  <1>6. ASSUME NEW o \in Owners, WriteDone(o) PROVE TypeOK'
    BY <1>6 DEF WriteDone, portVars, outVars, testVars, lifeVars, devVars, PortsTyped,
       OutputTyped, PatternsTyped, WritesTyped, LifecycleTyped, DevicesTyped
  <1>7. ASSUME NEW o \in Owners, WriteError(o) PROVE TypeOK'
    <2>1. CASE port = writePort[o]
      <3>1. port \in Ports /\ FailPort(port, dev) /\ UNCHANGED lifeVars
        BY <1>7, <2>1 DEF WriteError, ActiveWriteHasPort, PortsTyped
      <3> QED BY <3>1, FailPortLemma DEF DevicesTyped, LifecycleTyped, lifeVars
    <2>2. CASE port # writePort[o]
      BY <1>7, <2>2 DEF WriteError, portVars, outVars, testVars, lifeVars, devVars,
         PortsTyped, OutputTyped, PatternsTyped, WritesTyped, LifecycleTyped, DevicesTyped
    <2> QED BY <2>1, <2>2
  <1>8. ASSUME NEW o \in Owners, WriteTimeout(o) PROVE TypeOK'
    <2>1. port \in Ports /\ FailPort(port, dev) /\ UNCHANGED lifeVars
      BY <1>8 DEF WriteTimeout, ActiveWriteHasPort, PortsTyped
    <2> QED BY <2>1, FailPortLemma DEF DevicesTyped, LifecycleTyped, lifeVars
  <1> QED BY <1>1, <1>2, <1>3, <1>4, <1>5, <1>6, <1>7, <1>8 DEF Output

LEMMA LifecycleType ==
    ASSUME IInv, Lifecycle
    PROVE  TypeOK'
  <1> USE DEF IInv
  <1>q. pc # "idle" => queue # <<>>
    BY DEF OperationState
  <1>o. "lifecycle" \in Owners
    BY DEF Owners
  <1>1. CASE StartOperation
    <2>1. queue # <<>>
      BY <1>1 DEF StartOperation
    <2>2. CASE Finish(FALSE) /\ UNCHANGED <<outVars, testVars, writeVars, lastCmd>>
      BY <1>1, <2>1, <2>2, FinishLemma, UnchangedLemma
         DEF StartOperation, TypeOK, DevicesTyped
    <2>3. ASSUME WriteStop("lifecycle"), LifecycleTyped',
                 UNCHANGED <<protection, emergencyStopped, patternPc, patternStep>>
          PROVE  TypeOK'
      <3>1. ClearOutput
        BY <2>3 DEF WriteStop
      <3>2. OutputTyped' /\ PatternsTyped'
        BY <2>3, <3>1, ClearOutputLemma DEF TypeOK, OutputTyped, PatternsTyped
      <3>3. PortsTyped'
        BY <1>1, UnchangedLemma DEF StartOperation
      <3>4. WritesTyped' /\ DevicesTyped'
        BY <1>o, <1>1, <2>3, WriteStopLemma DEF StartOperation, TypeOK, DevicesTyped
      <3> QED BY <2>3, <3>2, <3>3, <3>4 DEF TypeOK
    <2>4. CASE StartDisconnect
      <3>1. LifecycleTyped'
        BY <2>4 DEF StartDisconnect, TypeOK, LifecycleTyped, Continuations, Waits
      <3> QED BY <1>1, <2>2, <2>3, <2>4, <3>1 DEF StartOperation, StartDisconnect
    <2>5. CASE StartRoomExit
      <3>1. CASE IsOpen(port)
        <4>1. LifecycleTyped'
          BY <2>5, <3>1 DEF StartRoomExit, TypeOK, LifecycleTyped, Waits
        <4> QED BY <1>1, <2>2, <2>3, <2>5, <4>1 DEF StartOperation, StartRoomExit
      <3>2. CASE ~IsOpen(port)
        <4>1. LifecycleTyped'
          BY <2>1, <2>5, <3>2, FinishLemma DEF StartRoomExit, TypeOK
        <4> QED BY <1>1, <2>2, <2>3, <2>5, <4>1 DEF StartOperation, StartRoomExit
      <3> QED BY <3>1, <3>2
    <2> QED BY <1>1, <2>2, <2>4, <2>5 DEF StartOperation
  <1>2. CASE StopSettled
    <2>1. LifecycleTyped'
      BY <1>2, <1>q, FinishLemma, GotoLemma DEF StopSettled, TypeOK, Continuations
    <2> QED BY <1>2, <1>o, <2>1, EndWriteLemma, UnchangedLemma DEF StopSettled, TypeOK
  <1>3. CASE ReleasePort
    <2>1. LifecycleTyped'
      <3>1. CASE Finish(FALSE)
        BY <1>3, <3>1, <1>q, FinishLemma DEF ReleasePort, TypeOK
      <3>2. CASE Goto("retryFailed")
        BY <3>2, GotoLemma DEF TypeOK, Continuations
      <3>3. CASE pc' = "closingOwned" /\ cur' = port /\ UNCHANGED <<queue, transition,
                 precedingFailed, todo, version>>
        BY <3>3 DEF TypeOK, PortsTyped, LifecycleTyped, Waits
      <3> QED BY <1>3, <3>1, <3>2, <3>3 DEF ReleasePort
    <2>2. PortsTyped'
      BY <1>3 DEF ReleasePort, TypeOK, PortsTyped, portVars
    <2>3. WritesTyped'
      BY <1>3 DEF ReleasePort, TypeOK, WritesTyped, FailedWrites, writeVars
    <2>4. DevicesTyped'
      BY <1>3 DEF ReleasePort, BeginClose, TypeOK, DevicesTyped, DeviceStates, devVars
    <2> QED BY <1>3, <2>1, <2>2, <2>3, <2>4, UnchangedLemma DEF ReleasePort, TypeOK
  <1>4. CASE RetryFailed
    BY <1>4, GotoLemma, UnchangedLemma DEF RetryFailed, TypeOK, Continuations, Waits
  <1>5. CASE RetryClose
    <2>1. LifecycleTyped'
      <3>1. CASE Finish(FALSE)
        BY <1>5, <3>1, <1>q, FinishLemma DEF RetryClose, TypeOK
      <3>2. CASE ~Finish(FALSE)
        BY <1>5, <3>2 DEF RetryClose, TypeOK, PortsTyped, LifecycleTyped, Continuations, Waits
      <3> QED BY <3>1, <3>2
    <2>2. PortsTyped' /\ DevicesTyped'
      BY <1>5 DEF RetryClose, BeginClose, TypeOK, PortsTyped, DevicesTyped, DeviceStates, devVars
    <2> QED BY <1>5, <2>1, <2>2, UnchangedLemma DEF RetryClose, TypeOK
  <1>6. ASSUME NEW p \in Ports, CleanupStalePort(p) PROVE TypeOK'
    <2>1. LifecycleTyped'
      <3>1. CASE Finish(FALSE)
        BY <1>6, <3>1, <1>q, FinishLemma DEF CleanupStalePort, TypeOK
      <3>2. CASE ~Finish(FALSE)
        BY <1>6, <3>2 DEF CleanupStalePort, TypeOK, LifecycleTyped, Waits
      <3> QED BY <3>1, <3>2
    <2>2. PortsTyped' /\ DevicesTyped'
      BY <1>6 DEF CleanupStalePort, BeginClose, TypeOK, PortsTyped, DevicesTyped,
         DeviceStates, devVars
    <2> QED BY <1>6, <2>1, <2>2, UnchangedLemma DEF CleanupStalePort, TypeOK
  <1>7. CASE Disconnected
    <2>1. LifecycleTyped'
      <3>1. CASE Finish(TRUE)
        BY <1>7, <3>1, <1>q, FinishLemma DEF Disconnected, TypeOK
      <3>2. CASE ~Finish(TRUE)
        BY <1>7, <3>2 DEF Disconnected, TypeOK, LifecycleTyped, Waits
      <3> QED BY <3>1, <3>2
    <2>2. PortsTyped'
      BY <1>7 DEF Disconnected, TypeOK, PortsTyped
    <2> QED BY <1>7, <2>1, <2>2, UnchangedLemma DEF Disconnected, TypeOK
  <1>8. ASSUME NEW p \in Ports, CreatePort(p) PROVE TypeOK'
    <2>1. PortsTyped' /\ LifecycleTyped' /\ DevicesTyped'
      BY <1>8 DEF CreatePort, TypeOK, PortsTyped, LifecycleTyped, Waits, DevicesTyped, DeviceStates
    <2> QED BY <1>8, <2>1, UnchangedLemma DEF CreatePort, TypeOK
  <1>9. ASSUME NEW p \in Ports, OpenDone(p) PROVE TypeOK'
    <2>1. LifecycleTyped'
      BY <1>9, GotoLemma DEF OpenDone, TypeOK, Waits
    <2>2. DevicesTyped'
      BY <1>9 DEF OpenDone, TypeOK, DevicesTyped, DeviceStates
    <2> QED BY <1>9, <2>1, <2>2, UnchangedLemma DEF OpenDone, TypeOK
  <1>10. ASSUME NEW p \in Ports, OpenError(p) PROVE TypeOK'
    <2>1. cur \in Ports /\ [dev EXCEPT ![p] = "closed"] \in [Ports -> DeviceStates]
          /\ queue # <<>>
      BY <1>10, <1>q DEF OpenError, Awaiting, TypeOK, DevicesTyped, DeviceStates
    <2> QED BY <1>10, <2>1, FailCurrentLemma, FinishLemma DEF OpenError, TypeOK
  <1>11. CASE OpenTimeout \/ SignalsFailed
    <2>1. cur \in Ports /\ queue # <<>> /\ dev \in [Ports -> DeviceStates]
      BY <1>11, <1>q DEF OpenTimeout, SignalsFailed, OperationState, Connecting, TypeOK,
         LifecycleTyped, DevicesTyped
    <2> QED BY <1>11, <2>1, FailCurrentLemma, FinishLemma
            DEF OpenTimeout, SignalsFailed, TypeOK
  <1>12. ASSUME NEW p \in Ports, LateOpen(p) \/ LateOpenError(p) PROVE TypeOK'
    <2>1. PortsTyped' /\ DevicesTyped'
      BY <1>12 DEF LateOpen, LateOpenError, BeginClose, TypeOK, PortsTyped, DevicesTyped,
         DeviceStates, portVars
    <2> QED BY <1>12, <2>1, UnchangedLemma DEF LateOpen, LateOpenError, TypeOK
  <1>13. CASE SignalsDone
    <2>1. cur \in Ports /\ queue # <<>> /\ dev \in [Ports -> DeviceStates]
      BY <1>13, <1>q DEF SignalsDone, OperationState, Connecting, TypeOK, LifecycleTyped,
         DevicesTyped
    <2>2. CASE Probe("probe1")
      BY <2>2, ProbeLemma DEF Waits
    <2>3. CASE FailCurrent(dev) /\ Finish(FALSE)
      BY <2>1, <2>3, FailCurrentLemma, FinishLemma DEF TypeOK
    <2> QED BY <1>13, <2>2, <2>3 DEF SignalsDone
  <1>14. CASE ProbeSettled
    <2>1. LifecycleTyped'
      BY <1>14, <1>q, FinishLemma, GotoLemma DEF ProbeSettled, TypeOK, Waits
    <2> QED BY <1>14, <1>o, <2>1, EndWriteLemma, UnchangedLemma DEF ProbeSettled, TypeOK
  <1>15. CASE VersionArrives
    <2>1. LifecycleTyped'
      BY <1>15 DEF VersionArrives, TypeOK, LifecycleTyped
    <2> QED BY <1>15, <2>1, UnchangedLemma DEF VersionArrives, TypeOK
  <1>16. CASE VersionHeard \/ ProbeWindowOver
    <2>1. cur \in Ports /\ queue # <<>>
      BY <1>16, <1>q DEF VersionHeard, ProbeWindowOver, OperationState, Connecting, TypeOK,
         LifecycleTyped
    <2>2. CASE ConcludeProbe
      BY <2>1, <2>2, ConcludeProbeLemma
    <2>3. CASE Probe("probe2")
      BY <2>3, ProbeLemma DEF Waits
    <2> QED BY <1>16, <2>2, <2>3 DEF VersionHeard, ProbeWindowOver
  <1> QED BY <1>1, <1>2, <1>3, <1>4, <1>5, <1>6, <1>7, <1>8, <1>9, <1>10, <1>11, <1>12,
             <1>13, <1>14, <1>15, <1>16 DEF Lifecycle

LEMMA PortEventsType ==
    ASSUME IInv, PortEvents
    PROVE  TypeOK'
  <1> SUFFICES ASSUME NEW p \in Ports,
                      \/ ClosedInTime(p) \/ CloseErrorInTime(p) \/ CloseTimeout(p)
                      \/ ClosedLate(p) \/ CloseErrorLate(p)
                      \/ PortError(p) \/ Unplug(p) \/ PortClosed(p)
               PROVE  TypeOK'
    BY DEF PortEvents
  <1> USE DEF IInv
  <1>1. CASE ClosedInTime(p)
    <2>1. LifecycleTyped'
      BY <1>1, ResumeLemma DEF ClosedInTime
    <2>2. PortsTyped' /\ DevicesTyped'
      BY <1>1 DEF ClosedInTime, CloseAnswer, TypeOK, PortsTyped, DevicesTyped, DeviceStates
    <2> QED BY <1>1, <2>1, <2>2, UnchangedLemma DEF ClosedInTime, TypeOK
  <1>2. CASE CloseErrorInTime(p)
    <2>1. LifecycleTyped'
      BY <1>2, ResumeLemma DEF CloseErrorInTime
    <2>2. PortsTyped' /\ DevicesTyped'
      BY <1>2 DEF CloseErrorInTime, CloseAnswer, TypeOK, PortsTyped, DevicesTyped, DeviceStates
    <2> QED BY <1>2, <2>1, <2>2, UnchangedLemma DEF CloseErrorInTime, TypeOK
  <1>3. CASE CloseTimeout(p)
    <2>1. LifecycleTyped'
      BY <1>3, ResumeLemma DEF CloseTimeout
    <2>2. PortsTyped' /\ DevicesTyped'
      BY <1>3 DEF CloseTimeout, TypeOK, PortsTyped, DevicesTyped
    <2> QED BY <1>3, <2>1, <2>2, UnchangedLemma DEF CloseTimeout, TypeOK
  <1>4. CASE ClosedLate(p)
    <2>1. PortsTyped' /\ DevicesTyped'
      BY <1>4 DEF ClosedLate, CloseAnswer, ReleaseCurrent, TypeOK, PortsTyped, DevicesTyped,
         DeviceStates
    <2>2. CASE port = p
      <3>1. /\ ClearOutput /\ write' = FailedWrites(p)
            /\ UNCHANGED <<protection, emergencyStopped, patternPc, patternStep, writePort>>
        BY <1>4, <2>2 DEF ClosedLate, ReleaseCurrent
      <3>2. OutputTyped' /\ PatternsTyped' /\ WritesTyped'
        BY <3>1, ClearOutputLemma DEF TypeOK, OutputTyped, PatternsTyped, WritesTyped,
           FailedWrites
      <3> QED BY <1>4, <2>1, <3>2, UnchangedLemma DEF ClosedLate, TypeOK
    <2>3. CASE port # p
      BY <1>4, <2>1, <2>3, UnchangedLemma DEF ClosedLate, TypeOK
    <2> QED BY <2>2, <2>3
  <1>5. CASE CloseErrorLate(p)
    <2>1. PortsTyped' /\ DevicesTyped'
      BY <1>5 DEF CloseErrorLate, CloseAnswer, TypeOK, PortsTyped, DevicesTyped, DeviceStates
    <2> QED BY <1>5, <2>1, UnchangedLemma DEF CloseErrorLate, TypeOK
  <1>6. ASSUME NEW d \in [Ports -> DeviceStates], FailPort(p, d), UNCHANGED lifeVars
        PROVE  TypeOK'
    BY <1>6, FailPortLemma, UnchangedLemma DEF TypeOK
  <1>7. dev \in [Ports -> DeviceStates] /\ [dev EXCEPT ![p] = "closed"] \in [Ports -> DeviceStates]
    BY DEF TypeOK, DevicesTyped, DeviceStates
  <1>8. CASE PortError(p)
    BY <1>6, <1>7, <1>8 DEF PortError
  <1>9. CASE Unplug(p)
    <2>1. DevicesTyped'
      BY <1>9 DEF Unplug, TypeOK, DevicesTyped, DeviceStates
    <2> QED BY <1>9, <2>1, UnchangedLemma DEF Unplug, TypeOK
  <1>10. CASE PortClosed(p)
    <2>1. CASE port = p
      BY <1>6, <1>7, <1>10, <2>1 DEF PortClosed
    <2>2. CASE port # p
      <3>1. DevicesTyped'
        BY <1>10, <2>2, <1>7 DEF PortClosed, TypeOK, DevicesTyped
      <3> QED BY <1>10, <2>2, <3>1, UnchangedLemma DEF PortClosed, TypeOK
    <2> QED BY <2>1, <2>2
  <1> QED BY <1>1, <1>2, <1>3, <1>4, <1>5, <1>8, <1>9, <1>10

(***************************************************************************)
(* The other parts of the invariant: what steps that are alike keep.       *)
(***************************************************************************)
\* Each part is kept by a step that leaves the variables it is about alone.
LEMMA FrameLemma ==
    ASSUME IInv
    PROVE  /\ UNCHANGED <<port, lifeVars>> => OperationState'
           /\ UNCHANGED writeVars => ActiveWriteHasPort'
           /\ UNCHANGED <<port, dev, lastCmd, pc>> => StopIsLast'
           /\ UNCHANGED <<port, failedPort, stalePorts, pc, cur, devVars>>
                => CloseRecords' /\ CurrentPort'
           /\ UNCHANGED <<port, dev, lastCmd, emergencyStopped>> => LatchedDeviceStopped'
  <1>1. UNCHANGED <<port, lifeVars>> => OperationState'
    BY DEF IInv, OperationState, lifeVars
  <1>2. UNCHANGED writeVars => ActiveWriteHasPort'
    BY DEF IInv, ActiveWriteHasPort, writeVars
  <1>3. UNCHANGED <<port, dev, lastCmd, pc>> => StopIsLast'
    BY DEF IInv, StopIsLast, IsOpen
  <1>4. UNCHANGED <<port, failedPort, stalePorts, pc, cur, devVars>> => CloseRecords'
    BY DEF IInv, CloseRecords, devVars
  <1>5. UNCHANGED <<port, failedPort, stalePorts, pc, cur, devVars>> => CurrentPort'
    BY DEF IInv, CurrentPort, devVars
  <1>6. UNCHANGED <<port, dev, lastCmd, emergencyStopped>> => LatchedDeviceStopped'
    BY DEF IInv, LatchedDeviceStopped, IsOpen
  <1> QED BY <1>1, <1>2, <1>3, <1>4, <1>5, <1>6

\* A command to an open current port, and a lifecycle operation that moves on
\* from anywhere but an open or the close of an owned port, disturb neither the
\* close records nor what holds of the current port.
LEMMA MoveLemma ==
    ASSUME IInv, UNCHANGED <<port, failedPort, stalePorts, dev, closing, timedOut>>,
           \/ UNCHANGED lastCmd
           \/ IsOpen(port) /\ \E kind \in {"probe", "test", "stop", "motion"} :
                                  lastCmd' = [lastCmd EXCEPT ![port] = kind],
           UNCHANGED <<pc, cur>> \/ pc \notin {"closingOwned", "opening"}
    PROVE  CloseRecords' /\ CurrentPort'
  <1>1. \A p \in Ports : dev[p] # "open" => lastCmd'[p] = lastCmd[p]
    BY DEF IsOpen, IInv, TypeOK, PortsTyped, DevicesTyped
  <1>2. CloseRecords'
    BY <1>1 DEF IInv, CloseRecords
  <1>3. CurrentPort'
    BY <1>1 DEF IInv, CurrentPort
  <1> QED BY <1>2, <1>3

\* Output stays dropped while output is blocked, whatever a step that blocks no
\* more than before does to the rest of the lifecycle.
LEMMA BlockLemma ==
    ASSUME IInv, Blocked' => Blocked,
           UNCHANGED <<latestFrame, patternLive, emergencyStopped>>
    PROVE  LatchAndBlockClearOutput'
  BY DEF IInv, LatchAndBlockClearOutput, NothingPending

\* A write begins on an open port only.
LEMMA BeginWriteInv ==
    ASSUME IInv, NEW o \in Owners, NEW kind \in {"probe", "test", "stop", "motion"},
           BeginWrite(o, kind)
    PROVE  /\ ActiveWriteHasPort'
           /\ \/ UNCHANGED lastCmd
              \/ IsOpen(port) /\ lastCmd' = [lastCmd EXCEPT ![port] = kind]
           /\ IsOpen(port) => lastCmd'[port] = kind
  BY DEF IInv, TypeOK, WritesTyped, PortsTyped, DevicesTyped, ActiveWriteHasPort, BeginWrite,
     IsOpen

\* The parts of the invariant that follow the death of the current port.
LEMMA FailPortInv ==
    ASSUME IInv, NEW p \in Ports, port = p, NEW d,
           d = dev \/ (d = [dev EXCEPT ![p] = "closed"] /\ dev[p] # "closing"),
           FailPort(p, d)
    PROVE  /\ NothingPending' /\ ActiveWriteHasPort' /\ StopIsLast'
           /\ CloseRecords' /\ CurrentPort' /\ LatchedDeviceStopped'
           /\ port' \in {port, None}
  <1> USE DEF IInv
  <1>1. /\ p # None /\ dev \in [Ports -> DeviceStates]
        /\ closing \in [Ports -> {"none", "owned", "failed", "stale"}]
    BY NoneAssumption DEF TypeOK, DevicesTyped
  <1>2. ClearOutput /\ write' = FailedWrites(p)
        /\ UNCHANGED <<stalePorts, writePort, timedOut, lastCmd>>
    BY DEF FailPort
  <1>3. NothingPending'
    BY <1>2, ClearOutputLemma
  <1>4. ActiveWriteHasPort'
    BY <1>2 DEF FailedWrites, ActiveWriteHasPort
  <1>5. CASE closing[p] # "none"
    <2>1. dev[p] = "closing" /\ d = dev
      BY <1>1, <1>5 DEF CloseRecords
    <2>2. UNCHANGED <<port, readyPort, failedPort, emergencyStopped, dev, closing>>
      BY <1>5, <2>1 DEF FailPort
    <2>3. \A q \in Ports : closing[q] = "owned" => q \in timedOut
      BY <1>1 DEF CloseRecords
    <2>4. CloseRecords'
      BY <1>2, <2>2, <2>3 DEF CloseRecords
    <2>5. CurrentPort'
      BY <1>2, <2>1, <2>2 DEF CurrentPort
    <2>6. StopIsLast' /\ LatchedDeviceStopped'
      BY <2>1, <2>2 DEF StopIsLast, LatchedDeviceStopped, IsOpen
    <2> QED BY <1>3, <1>4, <2>2, <2>4, <2>5, <2>6
  <1>6. CASE closing[p] = "none"
    <2>1. port' = None
      BY <1>6 DEF FailPort
    <2>2. \A q \in Ports : closing[q] # "owned"
      BY <1>1, <1>6 DEF CloseRecords
    <2>3. dev[p] # "closing" /\ (p \in timedOut => FALSE)
      BY <1>6 DEF CloseRecords
    <2>4. CASE d[p] = "open"
      <3>1. /\ dev' = [d EXCEPT ![p] = "closing"] /\ closing' = [closing EXCEPT ![p] = "failed"]
            /\ failedPort' = p
        BY <1>6, <2>4 DEF FailPort
      <3>2. \A q \in Ports \ {p} : dev'[q] = dev[q] /\ closing'[q] = closing[q]
        BY <1>1, <3>1
      <3>3. dev'[p] = "closing" /\ closing'[p] = "failed"
        BY <1>1, <3>1
      <3>4. CloseRecords'
        BY <1>1, <1>2, <2>1, <2>2, <2>3, <3>1, <3>2, <3>3, NoneAssumption DEF CloseRecords
      <3>5. CurrentPort'
        BY <1>1, <1>2, <2>1, <3>1, <3>2, <3>3, NoneAssumption
           DEF CurrentPort, TypeOK, PortsTyped
      <3>6. StopIsLast' /\ LatchedDeviceStopped'
        BY <2>1 DEF StopIsLast, LatchedDeviceStopped, IsOpen
      <3> QED BY <1>3, <1>4, <2>1, <3>4, <3>5, <3>6
    <2>5. CASE d[p] # "open"
      <3>1. dev' = d /\ closing' = closing
            /\ failedPort' = IF failedPort = p THEN None ELSE failedPort
        BY <1>6, <2>5 DEF FailPort
      <3>2. \A q \in Ports : dev'[q] = dev[q] \/ (q = p /\ dev'[q] = "closed")
        BY <1>1, <3>1
      <3>3. CloseRecords'
        BY <1>1, <1>2, <1>6, <2>1, <2>2, <2>3, <3>1, <3>2, NoneAssumption DEF CloseRecords
      <3>4. CurrentPort'
        BY <1>1, <1>2, <2>1, <3>1, <3>2, NoneAssumption DEF CurrentPort, TypeOK, PortsTyped
      <3>5. StopIsLast' /\ LatchedDeviceStopped'
        BY <2>1 DEF StopIsLast, LatchedDeviceStopped, IsOpen
      <3> QED BY <1>3, <1>4, <2>1, <3>3, <3>4, <3>5
    <2> QED BY <2>4, <2>5
  <1> QED BY <1>1, <1>5, <1>6

\* The end of a lifecycle operation.
LEMMA FinishInv ==
    ASSUME IInv, queue # <<>>, NEW ok \in BOOLEAN, Finish(ok)
    PROVE  OperationState' /\ StopIsLast' /\ (Blocked' => Blocked)
  <1>1. Blocked' => Blocked
    BY FinishLemma DEF IInv, TypeOK, Blocked
  <1>2. OperationState' /\ StopIsLast'
    BY DEF Finish, OperationState, StopIsLast, Disconnecting, Released, Connecting
  <1> QED BY <1>1, <1>2

\* performConnect fails while it holds, or no longer holds, its port.
LEMMA FailCurrentInv ==
    ASSUME IInv, pc \in Connecting, NEW d,
           d = dev \/ (/\ d = [dev EXCEPT ![cur] = "closed"]
                       /\ dev[cur] = "opening" /\ pc = "opening"),
           FailCurrent(d), Finish(FALSE), TypeOK'
    PROVE  IInv'
  <1> USE DEF IInv
  <1>1. cur \in Ports /\ pc # "idle" /\ pc # "closingOwned" /\ queue # <<>> /\ pc' = "idle"
    BY DEF OperationState, Connecting, TypeOK, LifecycleTyped, Finish
  <1>2. OperationState' /\ StopIsLast' /\ (Blocked' => Blocked)
    BY <1>1, FinishInv
  <1>3. CASE port = cur
    <2>1. NothingPending' /\ ActiveWriteHasPort' /\ CloseRecords' /\ CurrentPort'
          /\ LatchedDeviceStopped'
      BY <1>1, <1>3, FailPortInv DEF FailCurrent
    <2> QED BY <1>2, <2>1 DEF LatchAndBlockClearOutput, PendingIsForReadyPort
  <1>4. CASE port # cur
    <2>1. /\ dev' = d /\ UNCHANGED portVars /\ UNCHANGED outVars /\ UNCHANGED testVars
          /\ UNCHANGED writeVars /\ UNCHANGED <<closing, timedOut, lastCmd>>
      BY <1>4 DEF FailCurrent
    <2>2. LatchAndBlockClearOutput' /\ PendingIsForReadyPort' /\ ActiveWriteHasPort'
      BY <1>2, <2>1, BlockLemma, FrameLemma DEF outVars, testVars, portVars,
         PendingIsForReadyPort, NothingPending
    <2>3. \A q \in Ports : dev'[q] = dev[q] \/ (q = cur /\ dev[q] = "opening" /\ dev'[q] = "closed")
      BY <1>1, <2>1 DEF TypeOK, DevicesTyped
    <2>4. CloseRecords'
      BY <1>1, <2>1, <2>3 DEF CloseRecords, portVars
    <2>5. CurrentPort'
      BY <1>1, <1>4, <2>1, <2>3 DEF CurrentPort, portVars
    <2>6. LatchedDeviceStopped'
      BY <2>1, <2>3, <1>1 DEF LatchedDeviceStopped, IsOpen, portVars, outVars, TypeOK, PortsTyped
    <2> QED BY <1>2, <2>2, <2>4, <2>5, <2>6
  <1> QED BY <1>3, <1>4

LEMMA ProbeInv ==
    ASSUME IInv, pc \in {"signals", "listen1"}, NEW label \in {"probe1", "probe2"},
           Probe(label), TypeOK'
    PROVE  IInv'
  <1> USE DEF IInv
  <1>1. "lifecycle" \in Owners
    BY DEF Owners
  <1>2. /\ BeginWrite("lifecycle", "probe") /\ Goto(label) /\ UNCHANGED portVars
        /\ UNCHANGED outVars /\ UNCHANGED testVars /\ UNCHANGED <<dev, closing, timedOut>>
    BY DEF Probe
  <1>3. OperationState' /\ StopIsLast' /\ (Blocked' => Blocked)
    BY <1>2 DEF Goto, OperationState, StopIsLast, Disconnecting, Released, Connecting, Blocked,
       Gated
  <1>4. ActiveWriteHasPort'
        /\ (UNCHANGED lastCmd \/ (IsOpen(port) /\ lastCmd' = [lastCmd EXCEPT ![port] = "probe"]))
    BY <1>1, <1>2, BeginWriteInv
  <1>5. CloseRecords' /\ CurrentPort'
    BY <1>2, <1>4, MoveLemma DEF portVars
  <1>6. LatchAndBlockClearOutput' /\ PendingIsForReadyPort'
    BY <1>2, <1>3, BlockLemma DEF outVars, testVars, portVars, PendingIsForReadyPort,
       NothingPending
  <1>7. LatchedDeviceStopped'
    <2>1. port' = port /\ dev' = dev /\ emergencyStopped' = emergencyStopped
      BY <1>2 DEF portVars, outVars
    <2>2. IsOpen(port) => lastCmd'[port] \in {lastCmd[port], "probe"}
      BY <1>4 DEF IsOpen, TypeOK, PortsTyped, DevicesTyped
    <2> QED BY <2>1, <2>2 DEF LatchedDeviceStopped, IsOpen
  <1> QED BY <1>3, <1>4, <1>5, <1>6, <1>7

LEMMA ConcludeProbeInv ==
    ASSUME IInv, pc \in {"listen1", "listen2"}, ConcludeProbe, TypeOK'
    PROVE  IInv'
  <1> USE DEF IInv
  <1>1. cur \in Ports /\ queue # <<>> /\ pc \in Connecting
    BY DEF OperationState, Connecting, TypeOK, LifecycleTyped
  <1>2. OperationState' /\ StopIsLast' /\ (Blocked' => Blocked)
    BY <1>1, FinishInv DEF ConcludeProbe
  <1>3. CASE FailPort(cur, dev) /\ port = cur /\ Finish(FALSE)
    BY <1>1, <1>3, FailCurrentInv DEF FailCurrent
  <1>4. CASE /\ UNCHANGED outVars /\ UNCHANGED testVars /\ UNCHANGED writeVars
             /\ UNCHANGED devVars /\ UNCHANGED <<port, failedPort, stalePorts>>
             /\ readyPort' = readyPort \/ readyPort' = port
    <2>1. CloseRecords' /\ CurrentPort'
      BY <1>4, MoveLemma DEF devVars
    <2>2. LatchAndBlockClearOutput' /\ PendingIsForReadyPort'
      BY <1>2, <1>4, BlockLemma DEF outVars, testVars, PendingIsForReadyPort, NothingPending
    <2> QED BY <1>2, <1>4, <2>1, <2>2, FrameLemma DEF devVars, outVars
  <1> QED BY <1>3, <1>4 DEF ConcludeProbe, Holding, portVars

(***************************************************************************)
(* Every step keeps the invariant.                                         *)
(***************************************************************************)
LEMMA CallsInv ==
    ASSUME IInv, Calls
    PROVE  IInv'
  <1> USE DEF IInv
  <1>t. TypeOK'
    BY CallsType
  <1>1. ASSUME NEW key \in Keys, Connect(key) PROVE IInv'
    <2>1. /\ queue' = Append(queue, [kind |-> "connect", key |-> key,
                                    after |-> LastIs("disconnect")])
          /\ UNCHANGED <<transition, pc, cur>> /\ queue \in Seq(Operations)
          /\ UNCHANGED portVars /\ UNCHANGED outVars /\ UNCHANGED testVars
          /\ UNCHANGED writeVars /\ UNCHANGED devVars
      BY <1>1 DEF Connect, Enqueue, TypeOK, LifecycleTyped
    <2>2. Gated' => Gated
      BY <2>1 DEF Gated
    <2>3. LatchAndBlockClearOutput' /\ PendingIsForReadyPort'
      BY <2>1, <2>2, BlockLemma DEF Blocked, outVars, testVars, portVars,
         PendingIsForReadyPort, NothingPending
    <2>4. OperationState'
      BY <2>1 DEF OperationState, portVars
    <2> QED BY <1>t, <2>1, <2>3, <2>4, FrameLemma DEF portVars, outVars, devVars
  <1>2. ASSUME NEW kind \in {"disconnect", "room-exit"}, Interrupting(kind) PROVE IInv'
    <2>1. /\ queue' = Append(queue, [kind |-> kind]) /\ queue \in Seq(Operations)
          /\ UNCHANGED <<transition, pc, cur, emergencyStopped>> /\ ClearOutput
          /\ UNCHANGED portVars /\ UNCHANGED writeVars /\ UNCHANGED devVars
      BY <1>2 DEF Interrupting, Enqueue, TypeOK, LifecycleTyped
    <2>2. OperationState'
      BY <2>1 DEF OperationState, portVars
    <2>3. LatchAndBlockClearOutput' /\ PendingIsForReadyPort'
      BY <2>1, ClearOutputLemma DEF LatchAndBlockClearOutput, PendingIsForReadyPort
    <2> QED BY <1>t, <2>1, <2>2, <2>3, FrameLemma DEF portVars, devVars
  <1>3. CASE AcceptMotion
    <2>1. /\ UNCHANGED portVars /\ UNCHANGED writeVars /\ UNCHANGED lifeVars
          /\ UNCHANGED devVars /\ UNCHANGED emergencyStopped /\ MayMove
      BY <1>3 DEF AcceptMotion
    <2>2. LatchAndBlockClearOutput' /\ PendingIsForReadyPort'
      BY <2>1, UnchangedLemma DEF MayMove, PortReady, IsOpen, portVars,
         LatchAndBlockClearOutput, PendingIsForReadyPort
    <2> QED BY <1>t, <2>1, <2>2, FrameLemma DEF portVars, devVars, lifeVars
  <1>4. CASE DropPausedMotion
    <2>1. /\ UNCHANGED portVars /\ UNCHANGED writeVars /\ UNCHANGED lifeVars
          /\ UNCHANGED devVars /\ UNCHANGED emergencyStopped /\ MayMove
          /\ latestFrame' = None /\ UNCHANGED patternLive
      BY <1>4 DEF DropPausedMotion, testVars
    <2>2. LatchAndBlockClearOutput' /\ PendingIsForReadyPort'
      BY <2>1, UnchangedLemma DEF MayMove, PortReady, IsOpen, portVars,
         LatchAndBlockClearOutput, PendingIsForReadyPort
    <2> QED BY <1>t, <2>1, <2>2, FrameLemma DEF portVars, devVars, lifeVars
  <1>5. CASE ReleaseEmergencyStop \/ \E s \in Protections : SetProtection(s)
    <2>1. /\ UNCHANGED portVars /\ UNCHANGED writeVars /\ UNCHANGED lifeVars
          /\ UNCHANGED devVars /\ UNCHANGED <<latestFrame, patternLive>>
          /\ emergencyStopped' = FALSE \/ UNCHANGED emergencyStopped
      BY <1>5 DEF ReleaseEmergencyStop, SetProtection, testVars
    <2>2. LatchAndBlockClearOutput' /\ PendingIsForReadyPort'
      BY <2>1, UnchangedLemma DEF portVars, LatchAndBlockClearOutput, PendingIsForReadyPort,
         NothingPending
    <2>3. LatchedDeviceStopped'
      BY <2>1 DEF LatchedDeviceStopped, IsOpen, portVars, devVars
    <2> QED BY <1>t, <2>1, <2>2, <2>3, FrameLemma DEF portVars, devVars, lifeVars
  <1>6. ASSUME NEW l \in LatchCalls, LatchEmergencyStop(l) PROVE IInv'
    <2>1. /\ l \in Owners /\ WriteStop(l) /\ ClearOutput /\ UNCHANGED portVars
          /\ UNCHANGED lifeVars /\ UNCHANGED <<dev, closing, timedOut>>
      BY <1>6 DEF LatchEmergencyStop, Owners, WriteStop
    <2>2. /\ ActiveWriteHasPort'
          /\ \/ UNCHANGED lastCmd
             \/ IsOpen(port) /\ lastCmd' = [lastCmd EXCEPT ![port] = "stop"]
          /\ IsOpen(port) => lastCmd'[port] = "stop"
      BY <2>1, BeginWriteInv, FrameLemma DEF WriteStop
    <2>3. CloseRecords' /\ CurrentPort'
      BY <2>1, <2>2, MoveLemma DEF portVars, lifeVars
    <2>4. StopIsLast' /\ LatchedDeviceStopped'
      BY <2>1, <2>2 DEF StopIsLast, LatchedDeviceStopped, IsOpen, portVars
    <2>5. LatchAndBlockClearOutput' /\ PendingIsForReadyPort'
      BY <2>1, ClearOutputLemma DEF LatchAndBlockClearOutput, PendingIsForReadyPort
    <2> QED BY <1>t, <2>1, <2>2, <2>3, <2>4, <2>5, FrameLemma DEF portVars
  <1>7. ASSUME NEW t \in Patterns, RunTestPattern(t) PROVE IInv'
    <2>1. /\ t \in Owners /\ ~Blocked /\ ~emergencyStopped /\ UNCHANGED emergencyStopped
          /\ UNCHANGED portVars /\ UNCHANGED lifeVars /\ UNCHANGED <<dev, closing, timedOut>>
          /\ latestFrame' = None
      BY <1>7 DEF RunTestPattern, Owners
    <2>2. /\ ActiveWriteHasPort'
          /\ \/ UNCHANGED lastCmd
             \/ IsOpen(port) /\ lastCmd' = [lastCmd EXCEPT ![port] = "test"]
      BY <1>7, <2>1, BeginWriteInv, FrameLemma DEF RunTestPattern, TestIteration
    <2>3. CloseRecords' /\ CurrentPort'
      BY <2>1, <2>2, MoveLemma DEF portVars, lifeVars
    <2>4. StopIsLast' /\ LatchedDeviceStopped'
      BY <2>1, <2>2 DEF StopIsLast, LatchedDeviceStopped, OperationState, Blocked, Disconnecting,
         lifeVars
    <2>5. ~Blocked'
      BY <2>1, UnchangedLemma
    <2>6. PendingIsForReadyPort'
      <3>1. CASE PortReady
        BY <2>1, <3>1 DEF PortReady, IsOpen, PendingIsForReadyPort, portVars
      <3>2. CASE ~PortReady
        BY <1>7, <2>1, <3>2 DEF RunTestPattern, PendingIsForReadyPort, NothingPending,
           portVars, testVars
      <3> QED BY <3>1, <3>2
    <2> QED BY <1>t, <2>1, <2>2, <2>3, <2>4, <2>5, <2>6, FrameLemma
            DEF portVars, LatchAndBlockClearOutput
  <1> QED BY <1>1, <1>2, <1>3, <1>4, <1>5, <1>6, <1>7
          DEF Calls, Disconnect, StopForRoomExit

LEMMA OutputInv ==
    ASSUME IInv, Output
    PROVE  IInv'
  <1> USE DEF IInv
  <1>t. TypeOK'
    BY OutputType
  <1>0. ASSUME UNCHANGED portVars, UNCHANGED lifeVars, UNCHANGED <<dev, closing, timedOut>>,
               UNCHANGED emergencyStopped, ActiveWriteHasPort', NothingPending => NothingPending',
               \/ UNCHANGED lastCmd
               \/ /\ IsOpen(port) /\ ~NothingPending
                  /\ \E kind \in {"motion", "test"} : lastCmd' = [lastCmd EXCEPT ![port] = kind]
        PROVE  IInv'
    <2>1. CloseRecords' /\ CurrentPort'
      BY <1>0, MoveLemma DEF portVars, lifeVars
    <2>2. LatchAndBlockClearOutput' /\ PendingIsForReadyPort'
      BY <1>0, UnchangedLemma DEF LatchAndBlockClearOutput, PendingIsForReadyPort, portVars
    <2>3. StopIsLast' /\ LatchedDeviceStopped'
      <3>1. CASE UNCHANGED lastCmd
        BY <1>0, <3>1, FrameLemma DEF portVars, lifeVars
      <3>2. CASE ~NothingPending
        BY <1>0, <3>2 DEF StopIsLast, LatchedDeviceStopped, OperationState, Blocked,
           Disconnecting, lifeVars, LatchAndBlockClearOutput
      <3> QED BY <1>0, <3>1, <3>2
    <2>4. OperationState'
      BY <1>0, FrameLemma DEF portVars
    <2> QED BY <1>0, <1>t, <2>1, <2>2, <2>3, <2>4
  <1>1. CASE FlushLatest
    <2>1. "flush" \in Owners
      BY DEF Owners
    <2>2. CASE IsOpen(port) /\ latestFrame # None
      <3>1. BeginWrite("flush", "motion") /\ latestFrame' = None /\ UNCHANGED patternLive
            /\ UNCHANGED portVars /\ UNCHANGED lifeVars /\ UNCHANGED <<dev, closing, timedOut>>
            /\ UNCHANGED emergencyStopped
        BY <1>1, <2>2 DEF FlushLatest, testVars
      <3> QED BY <1>0, <2>1, <2>2, <3>1, BeginWriteInv DEF NothingPending
    <2>3. CASE ~(IsOpen(port) /\ latestFrame # None)
      BY <1>0, <1>1, <2>3, FrameLemma DEF FlushLatest, testVars, NothingPending
    <2> QED BY <2>2, <2>3
  <1>2. CASE FlushSettled
    BY <1>0, <1>2 DEF FlushSettled, EndWrite, testVars, devVars, NothingPending,
       ActiveWriteHasPort, TypeOK, WritesTyped
  <1>3. ASSUME NEW l \in LatchCalls, LatchSettled(l) PROVE IInv'
    BY <1>0, <1>3 DEF LatchSettled, EndWrite, outVars, testVars, devVars, NothingPending,
       ActiveWriteHasPort, TypeOK, WritesTyped
  <1>4. ASSUME NEW t \in Patterns, PatternSettled(t) PROVE IInv'
    <2>1. ActiveWriteHasPort'
      BY <1>4 DEF PatternSettled, EndWrite, ActiveWriteHasPort, TypeOK, WritesTyped
    <2>2. NothingPending => NothingPending'
      BY <1>4 DEF PatternSettled, NothingPending, outVars, TypeOK, PatternsTyped
    <2> QED BY <1>0, <1>4, <2>1, <2>2 DEF PatternSettled, outVars, devVars
  <1>5. ASSUME NEW t \in Patterns, PatternDelayOver(t) PROVE IInv'
    <2>1. t \in Owners
      BY DEF Owners
    <2>2. NothingPending => NothingPending'
      BY <1>5 DEF PatternDelayOver, NothingPending, outVars, TypeOK, PatternsTyped
    <2>3. CASE patternLive[t]
      <3>1. BeginWrite(t, "test") \/ UNCHANGED <<writeVars, lastCmd>>
        BY <1>5 DEF PatternDelayOver, TestIteration
      <3>2. ~NothingPending
        BY <2>3 DEF NothingPending
      <3> QED BY <1>0, <1>5, <2>1, <2>2, <3>1, <3>2, BeginWriteInv, FrameLemma
              DEF PatternDelayOver, outVars
    <2>4. CASE ~patternLive[t]
      <3>1. ~(TestSteps + 1 <= TestSteps)
        BY BoundAssumption
      <3>2. UNCHANGED <<writeVars, lastCmd>>
        BY <1>5, <2>4, <3>1 DEF PatternDelayOver, TestIteration
      <3> QED BY <1>0, <1>5, <2>2, <3>2, FrameLemma DEF PatternDelayOver, outVars
    <2> QED BY <2>3, <2>4
  <1>6. ASSUME NEW o \in Owners, WriteDone(o) PROVE IInv'
    BY <1>0, <1>6 DEF WriteDone, outVars, testVars, devVars, NothingPending,
       ActiveWriteHasPort, TypeOK, WritesTyped
  <1>7. ASSUME port \in Ports, FailPort(port, dev), UNCHANGED lifeVars, port # None
        PROVE  IInv'
    <2>1. /\ NothingPending' /\ ActiveWriteHasPort' /\ StopIsLast'
          /\ CloseRecords' /\ CurrentPort' /\ LatchedDeviceStopped' /\ port' \in {port, None}
      BY <1>7, FailPortInv
    <2>2. OperationState'
      BY <1>7, <2>1 DEF OperationState, lifeVars
    <2> QED BY <1>t, <2>1, <2>2 DEF LatchAndBlockClearOutput, PendingIsForReadyPort
  <1>8. ASSUME NEW o \in Owners, WriteError(o) \/ WriteTimeout(o) PROVE IInv'
    <2>1. CASE FailPort(port, dev) /\ port = writePort[o]
      BY <1>7, <1>8, <2>1 DEF WriteError, WriteTimeout, ActiveWriteHasPort, TypeOK, PortsTyped
    <2>2. CASE port # writePort[o]
      <3>1. /\ write' = [write EXCEPT ![o] = "failed"] /\ UNCHANGED lifeVars
            /\ UNCHANGED <<portVars, outVars, testVars, writePort, devVars>>
        BY <1>8, <2>2 DEF WriteError, WriteTimeout
      <3> QED BY <1>0, <3>1 DEF outVars, testVars, devVars, NothingPending,
              ActiveWriteHasPort, TypeOK, WritesTyped
    <2> QED BY <1>8, <2>1, <2>2 DEF WriteError, WriteTimeout
  <1> QED BY <1>1, <1>2, <1>3, <1>4, <1>5, <1>6, <1>8 DEF Output

LEMMA LifecycleInv ==
    ASSUME IInv, Lifecycle
    PROVE  IInv'
  <1> USE DEF IInv
  <1>t. TypeOK'
    BY LifecycleType
  <1>q. pc # "idle" => queue # <<>>
    BY DEF OperationState
  <1>o. "lifecycle" \in Owners
    BY DEF Owners
  \* a step that only moves the operation on, away from an open or an owned close
  <1>0. ASSUME pc \notin {"closingOwned", "opening"}, UNCHANGED <<port, dev, closing, timedOut>>,
               failedPort' \in {failedPort, None}, stalePorts' \subseteq stalePorts,
               UNCHANGED lastCmd, UNCHANGED outVars, UNCHANGED testVars,
               ActiveWriteHasPort', OperationState', StopIsLast', Blocked' => Blocked,
               readyPort' = readyPort \/ readyPort # port
        PROVE  IInv'
    <2>1. LatchAndBlockClearOutput' /\ PendingIsForReadyPort'
      BY <1>0, BlockLemma DEF outVars, testVars, PendingIsForReadyPort, NothingPending
    <2>2. CloseRecords'
      BY <1>0, NoneAssumption DEF CloseRecords
    <2>3. CurrentPort'
      BY <1>0 DEF CurrentPort
    <2>4. LatchedDeviceStopped'
      BY <1>0, FrameLemma DEF outVars
    <2> QED BY <1>0, <1>t, <2>1, <2>2, <2>3, <2>4
  \* the start of a close of a port the operation holds
  <1>c. ASSUME NEW p \in Ports, NEW role \in {"failed", "stale"}, BeginClose(p, role),
               dev[p] = "open", port # p, pc \notin {"closingOwned", "opening"},
               UNCHANGED <<port, readyPort, failedPort, stalePorts>>,
               UNCHANGED outVars, UNCHANGED testVars, UNCHANGED writeVars,
               OperationState', StopIsLast', Blocked' => Blocked
        PROVE  IInv'
    <2>1. /\ UNCHANGED <<timedOut, lastCmd>> /\ closing[p] = "none"
          /\ dev' = [dev EXCEPT ![p] = "closing"] /\ closing' = [closing EXCEPT ![p] = role]
      BY <1>c DEF BeginClose, CloseRecords
    <2>2. LatchAndBlockClearOutput' /\ PendingIsForReadyPort'
      BY <1>c, BlockLemma DEF outVars, testVars, PendingIsForReadyPort, NothingPending
    <2>3. CloseRecords'
      BY <1>c, <2>1 DEF CloseRecords, TypeOK, DevicesTyped
    <2>4. CurrentPort'
      BY <1>c, <2>1 DEF CurrentPort, TypeOK, DevicesTyped
    <2>5. LatchedDeviceStopped'
      BY <1>c, <2>1 DEF LatchedDeviceStopped, IsOpen, outVars, TypeOK, PortsTyped, DevicesTyped
    <2> QED BY <1>c, <1>t, <2>2, <2>3, <2>4, <2>5, FrameLemma
  <1>1. CASE StartOperation
    <2>1. /\ queue # <<>> /\ pc = "idle" /\ UNCHANGED portVars
          /\ UNCHANGED <<dev, closing, timedOut>>
      BY <1>1 DEF StartOperation
    <2>2. CASE Finish(FALSE) /\ UNCHANGED <<outVars, testVars, writeVars, lastCmd>>
      BY <1>0, <2>1, <2>2, FinishInv, FrameLemma DEF portVars
    <2>3. ASSUME WriteStop("lifecycle"), OperationState',
                 pc' \in {"stopping", "exitStopping"} => IsOpen(port),
                 pc' = "release" => ~IsOpen(port)
          PROVE  IInv'
      <3>1. /\ ActiveWriteHasPort' /\ NothingPending'
            /\ \/ UNCHANGED lastCmd
               \/ IsOpen(port) /\ lastCmd' = [lastCmd EXCEPT ![port] = "stop"]
            /\ IsOpen(port) => lastCmd'[port] = "stop"
        BY <1>o, <2>3, BeginWriteInv, FrameLemma, ClearOutputLemma DEF WriteStop
      <3>2. CloseRecords' /\ CurrentPort'
        BY <2>1, <3>1, MoveLemma DEF portVars
      <3>3. IsOpen(port)' <=> IsOpen(port)
        BY <2>1 DEF IsOpen, portVars
      <3>4. StopIsLast' /\ LatchedDeviceStopped'
        BY <2>1, <3>1, <3>3 DEF StopIsLast, LatchedDeviceStopped, portVars
      <3> QED BY <1>t, <2>3, <3>1, <3>2, <3>4 DEF LatchAndBlockClearOutput, PendingIsForReadyPort
    <2>4. CASE StartDisconnect
      <3>1. OperationState'
        BY <2>1, <2>4 DEF StartDisconnect, OperationState, Disconnecting, Released, Connecting
      <3> QED BY <2>3, <2>4, <3>1 DEF StartDisconnect
    <2>5. CASE StartRoomExit
      <3>1. OperationState'
        BY <2>1, <2>5, FinishInv DEF StartRoomExit, OperationState, Disconnecting, Released,
           Connecting
      <3> QED BY <2>3, <2>5, <3>1 DEF StartRoomExit, Finish
    <2> QED BY <1>1, <2>2, <2>4, <2>5 DEF StartOperation
  <1>2. CASE StopSettled
    <2>1. /\ ActiveWriteHasPort' /\ UNCHANGED portVars /\ UNCHANGED outVars
          /\ UNCHANGED testVars /\ UNCHANGED devVars
      BY <1>2 DEF StopSettled, EndWrite, ActiveWriteHasPort, TypeOK, WritesTyped
    <2>2. OperationState' /\ StopIsLast' /\ (Blocked' => Blocked)
      <3>1. CASE pc = "stopping"
        BY <1>2, <2>1, <3>1 DEF StopSettled, Goto, OperationState, StopIsLast, IsOpen, Blocked,
           Gated, Disconnecting, Released, Connecting, portVars, devVars
      <3>2. CASE pc # "stopping"
        BY <1>2, <1>q, <3>2, FinishInv DEF StopSettled
      <3> QED BY <3>1, <3>2
    <2> QED BY <1>0, <1>2, <2>1, <2>2 DEF StopSettled, portVars, devVars
  <1>3. CASE ReleasePort
    <2>1. /\ pc = "release" /\ transition = "disconnect" /\ NothingPending
          /\ UNCHANGED outVars /\ UNCHANGED testVars /\ queue # <<>>
      BY <1>3, <1>q DEF ReleasePort, OperationState, Disconnecting, LatchAndBlockClearOutput,
         Blocked
    <2>2. LatchAndBlockClearOutput' /\ PendingIsForReadyPort'
      BY <2>1 DEF LatchAndBlockClearOutput, PendingIsForReadyPort, NothingPending, outVars,
         testVars
    <2>3. ASSUME IsOpen(port), port' = None, write' = FailedWrites(port),
                 BeginClose(port, "owned"), pc' = "closingOwned", cur' = port,
                 UNCHANGED <<queue, transition, stalePorts, failedPort, writePort>>
          PROVE  IInv'
      <3>1. /\ UNCHANGED <<timedOut, lastCmd>> /\ port \in Ports /\ closing[port] = "none"
            /\ dev' = [dev EXCEPT ![port] = "closing"]
            /\ closing' = [closing EXCEPT ![port] = "owned"]
        BY <2>3 DEF BeginClose, CloseRecords, IsOpen, TypeOK, PortsTyped
      <3>2. OperationState'
        BY <2>1, <2>3 DEF OperationState, Disconnecting, Released, Connecting
      <3>3. ActiveWriteHasPort'
        BY <2>3 DEF ActiveWriteHasPort, FailedWrites
      <3>4. lastCmd[port] = "stop" /\ port \notin stalePorts /\ failedPort # port
        BY <2>1, <2>3 DEF StopIsLast, CurrentPort, IsOpen
      <3>5. CloseRecords'
        BY <2>1, <2>3, <3>1, <3>4, NoneAssumption DEF CloseRecords, TypeOK, DevicesTyped, IsOpen
      <3>6. CurrentPort'
        BY <2>1, <2>3, <3>1, NoneAssumption DEF CurrentPort, TypeOK, PortsTyped, DevicesTyped
      <3>7. StopIsLast' /\ LatchedDeviceStopped'
        BY <2>3 DEF StopIsLast, LatchedDeviceStopped, IsOpen
      <3> QED BY <1>t, <2>2, <3>2, <3>3, <3>5, <3>6, <3>7
    <2>4. CASE Finish(FALSE) /\ UNCHANGED <<portVars, writeVars, devVars>>
      BY <1>0, <2>1, <2>4, FinishInv, FrameLemma DEF portVars, devVars
    <2>5. ASSUME ~IsOpen(port), port # None => closing[port] = "none", port' = None,
                 Goto("retryFailed"), UNCHANGED <<failedPort, stalePorts, writeVars, devVars>>
          PROVE  IInv'
      <3>1. OperationState' /\ StopIsLast' /\ LatchedDeviceStopped'
        BY <2>1, <2>5 DEF Goto, OperationState, Disconnecting, Released, Connecting, StopIsLast,
           LatchedDeviceStopped, IsOpen
      <3>2. CloseRecords'
        BY <2>1, <2>5, NoneAssumption DEF Goto, CloseRecords, devVars
      <3>3. CurrentPort'
        BY <2>1, <2>5, NoneAssumption DEF Goto, CurrentPort, devVars, TypeOK, PortsTyped
      <3> QED BY <1>t, <2>2, <2>5, <3>1, <3>2, <3>3, FrameLemma
    <2> QED BY <1>3, <2>3, <2>4, <2>5 DEF ReleasePort
  <1>4. CASE RetryFailed
    <2>1. OperationState' /\ StopIsLast' /\ (Blocked' => Blocked)
      BY <1>4 DEF RetryFailed, Goto, OperationState, StopIsLast, Blocked, Gated, Disconnecting,
         Released, Connecting, portVars
    <2> QED BY <1>0, <1>4, <2>1, FrameLemma DEF RetryFailed, portVars, devVars
  <1>5. CASE RetryClose
    <2>1. /\ pc = "retryClose" /\ queue # <<>> /\ port = None /\ transition = "disconnect"
          /\ UNCHANGED <<port, readyPort, stalePorts>> /\ UNCHANGED outVars
          /\ UNCHANGED testVars /\ UNCHANGED writeVars
      BY <1>5, <1>q DEF RetryClose, OperationState, Released, Disconnecting
    <2>2. CASE Finish(FALSE) /\ UNCHANGED failedPort /\ UNCHANGED devVars
      BY <1>0, <2>1, <2>2, FinishInv, FrameLemma DEF devVars
    <2>3. ASSUME pc' \in {"closingFailed", "stale"}, UNCHANGED <<queue, transition>>
          PROVE  OperationState' /\ StopIsLast' /\ (Blocked' => Blocked)
      BY <2>1, <2>3 DEF OperationState, StopIsLast, Blocked, Gated, Disconnecting, Released,
         Connecting
    <2>4. CASE IsOpen(failedPort) /\ BeginClose(failedPort, "failed") /\ pc' = "closingFailed"
               /\ UNCHANGED <<queue, transition, failedPort>>
      BY <1>c, <2>1, <2>3, <2>4 DEF IsOpen, TypeOK, PortsTyped
    <2>5. CASE failedPort' = None /\ pc' = "stale" /\ UNCHANGED <<queue, transition>>
               /\ UNCHANGED devVars
      BY <1>0, <2>1, <2>3, <2>5, FrameLemma DEF devVars
    <2> QED BY <1>5, <2>2, <2>4, <2>5 DEF RetryClose
  <1>6. ASSUME NEW p \in Ports, CleanupStalePort(p) PROVE IInv'
    <2>1. /\ pc = "stale" /\ queue # <<>> /\ port = None /\ transition = "disconnect"
          /\ UNCHANGED <<port, readyPort, failedPort>> /\ UNCHANGED outVars
          /\ UNCHANGED testVars /\ UNCHANGED writeVars
      BY <1>6, <1>q DEF CleanupStalePort, OperationState, Released, Disconnecting
    <2>2. CASE Finish(FALSE) /\ UNCHANGED stalePorts /\ UNCHANGED devVars
      BY <1>0, <2>1, <2>2, FinishInv, FrameLemma DEF devVars
    <2>3. ASSUME pc' \in {"closingStale", "stale"}, UNCHANGED <<queue, transition>>
          PROVE  OperationState' /\ StopIsLast' /\ (Blocked' => Blocked)
      BY <2>1, <2>3 DEF OperationState, StopIsLast, Blocked, Gated, Disconnecting, Released,
         Connecting
    <2>4. CASE IsOpen(p) /\ BeginClose(p, "stale") /\ pc' = "closingStale"
               /\ UNCHANGED <<queue, transition, stalePorts>>
      BY <1>c, <2>1, <2>3, <2>4, NoneAssumption DEF IsOpen
    <2>5. CASE stalePorts' \subseteq stalePorts /\ pc' \in {"closingStale", "stale"}
               /\ UNCHANGED <<queue, transition>> /\ UNCHANGED devVars
      BY <1>0, <2>1, <2>3, <2>5, FrameLemma DEF devVars
    <2> QED BY <1>6, <2>2, <2>4, <2>5 DEF CleanupStalePort
  <1>7. CASE Disconnected
    <2>1. /\ pc = "stale" /\ queue # <<>> /\ port = None /\ transition = "disconnect"
          /\ UNCHANGED <<port, readyPort, failedPort, stalePorts>> /\ UNCHANGED outVars
          /\ UNCHANGED testVars /\ UNCHANGED writeVars /\ UNCHANGED devVars
      BY <1>7, <1>q DEF Disconnected, OperationState, Released, Disconnecting
    <2>2. OperationState' /\ StopIsLast' /\ (Blocked' => Blocked)
      <3>1. CASE Finish(TRUE)
        BY <2>1, <3>1, FinishInv
      <3>2. CASE ~Finish(TRUE)
        BY <1>7, <2>1, <3>2 DEF Disconnected, OperationState, StopIsLast, Blocked, Gated,
           Disconnecting, Released, Connecting
      <3> QED BY <3>1, <3>2
    <2> QED BY <1>0, <2>1, <2>2, FrameLemma DEF devVars
  <1>8. ASSUME NEW p \in Ports, CreatePort(p) PROVE IInv'
    <2>1. /\ pc = "identify" /\ port = None /\ port' = p /\ pc' = "opening" /\ cur' = p
          /\ dev' = [dev EXCEPT ![p] = "opening"] /\ lastCmd' = [lastCmd EXCEPT ![p] = "none"]
          /\ dev[p] = "closed" /\ closing[p] = "none" /\ p # failedPort /\ p \notin stalePorts
          /\ UNCHANGED <<queue, transition, closing, timedOut, failedPort, stalePorts>>
          /\ UNCHANGED outVars /\ UNCHANGED testVars /\ UNCHANGED writeVars
      BY <1>8 DEF CreatePort, Unused, OperationState, Released
    <2>2. NothingPending /\ NothingPending'
      BY <2>1 DEF PendingIsForReadyPort, NothingPending, outVars, testVars
    <2>3. OperationState' /\ StopIsLast'
      BY <2>1, <1>q, NoneAssumption DEF OperationState, StopIsLast, Disconnecting, Released,
         Connecting
    <2>4. \A q \in Ports \ {p} : dev'[q] = dev[q] /\ lastCmd'[q] = lastCmd[q]
      BY <2>1 DEF TypeOK, DevicesTyped
    <2>5. dev'[p] = "opening" /\ lastCmd'[p] = "none" /\ p # None
      BY <2>1, NoneAssumption DEF TypeOK, DevicesTyped
    <2>6. CloseRecords'
      BY <2>1, <2>4, <2>5, NoneAssumption DEF CloseRecords
    <2>7. CurrentPort'
      BY <2>1, <2>4, <2>5, NoneAssumption DEF CurrentPort
    <2>8. LatchedDeviceStopped'
      BY <2>1, <2>5 DEF LatchedDeviceStopped, IsOpen
    <2> QED BY <1>t, <2>1, <2>2, <2>3, <2>6, <2>7, <2>8, FrameLemma
            DEF LatchAndBlockClearOutput, PendingIsForReadyPort
  <1>9. ASSUME NEW p \in Ports, OpenDone(p) PROVE IInv'
    <2>1. /\ pc = "opening" /\ cur = p /\ dev[p] = "opening" /\ Goto("signals")
          /\ dev' = [dev EXCEPT ![p] = "open"] /\ UNCHANGED portVars /\ UNCHANGED outVars
          /\ UNCHANGED testVars /\ UNCHANGED writeVars /\ UNCHANGED <<closing, timedOut, lastCmd>>
      BY <1>9 DEF OpenDone, Awaiting
    <2>2. OperationState' /\ StopIsLast' /\ (Blocked' => Blocked)
      BY <2>1, <1>q DEF Goto, OperationState, StopIsLast, Blocked, Gated, Disconnecting,
         Released, Connecting
    <2>3. dev'[p] = "open" /\ lastCmd[p] = "none" /\ \A q \in Ports \ {p} : dev'[q] = dev[q]
      BY <2>1 DEF CurrentPort, TypeOK, DevicesTyped
    <2>4. LatchAndBlockClearOutput' /\ PendingIsForReadyPort'
      BY <2>1, <2>2, BlockLemma DEF outVars, testVars, portVars, PendingIsForReadyPort,
         NothingPending
    <2>5. CloseRecords'
      BY <2>1, <2>3 DEF CloseRecords, portVars
    <2>6. CurrentPort'
      BY <2>1, <2>3 DEF CurrentPort, portVars
    <2>7. LatchedDeviceStopped'
      BY <2>1, <2>3 DEF LatchedDeviceStopped, IsOpen, portVars, outVars, TypeOK, PortsTyped
    <2> QED BY <1>t, <2>1, <2>2, <2>4, <2>5, <2>6, <2>7, FrameLemma
  <1>10. ASSUME NEW p \in Ports, OpenError(p) PROVE IInv'
    <2>1. pc \in Connecting /\ pc = "opening" /\ cur = p /\ dev[p] = "opening"
          /\ FailCurrent([dev EXCEPT ![p] = "closed"]) /\ Finish(FALSE)
      BY <1>10 DEF OpenError, Awaiting, Connecting
    <2> QED BY <1>t, <2>1, FailCurrentInv
  <1>11. CASE OpenTimeout \/ SignalsFailed
    <2>1. pc \in Connecting /\ FailCurrent(dev) /\ Finish(FALSE)
      BY <1>11 DEF OpenTimeout, SignalsFailed, Connecting
    <2> QED BY <1>t, <2>1, FailCurrentInv
  <1>12. ASSUME NEW p \in Ports, LateOpen(p) \/ LateOpenError(p) PROVE IInv'
    <2>1. /\ dev[p] = "opening" /\ closing[p] = "none" /\ port # p
          /\ UNCHANGED <<port, readyPort, failedPort>> /\ UNCHANGED outVars
          /\ UNCHANGED testVars /\ UNCHANGED writeVars /\ UNCHANGED lifeVars
          /\ UNCHANGED <<timedOut, lastCmd>>
      BY <1>12 DEF LateOpen, LateOpenError, BeginClose, Awaiting, CurrentPort, CloseRecords,
         portVars
    <2>2. \/ /\ dev' = [dev EXCEPT ![p] = "closed"] /\ UNCHANGED <<closing, stalePorts>>
          \/ /\ dev' = [dev EXCEPT ![p] = "closing"] /\ closing' = [closing EXCEPT ![p] = "stale"]
             /\ stalePorts' = stalePorts \cup {p}
      BY <1>12 DEF LateOpen, LateOpenError, BeginClose, portVars
    <2>3. \A q \in Ports \ {p} : dev'[q] = dev[q] /\ closing'[q] = closing[q]
      BY <2>2 DEF TypeOK, DevicesTyped
    <2>4. \/ dev'[p] = "closed" /\ closing'[p] = "none"
          \/ dev'[p] = "closing" /\ closing'[p] = "stale"
      BY <2>1, <2>2 DEF TypeOK, DevicesTyped
    <2>5. CloseRecords'
      BY <2>1, <2>2, <2>3, <2>4 DEF CloseRecords, lifeVars
    <2>6. CurrentPort'
      BY <2>1, <2>2, <2>3, <2>4 DEF CurrentPort, lifeVars
    <2>7. StopIsLast' /\ LatchedDeviceStopped'
      BY <2>1, <2>3, <2>4 DEF StopIsLast, LatchedDeviceStopped, IsOpen, lifeVars, outVars,
         TypeOK, PortsTyped
    <2>8. LatchAndBlockClearOutput' /\ PendingIsForReadyPort'
      BY <2>1, UnchangedLemma, BlockLemma DEF outVars, testVars, PendingIsForReadyPort,
         NothingPending
    <2> QED BY <1>t, <2>1, <2>5, <2>6, <2>7, <2>8, FrameLemma
  <1>13. CASE SignalsDone
    <2>1. CASE Probe("probe1")
      BY <1>t, <1>13, <2>1, ProbeInv DEF SignalsDone
    <2>2. CASE FailCurrent(dev) /\ Finish(FALSE)
      BY <1>t, <1>13, <2>2, FailCurrentInv DEF SignalsDone, Connecting
    <2> QED BY <1>13, <2>1, <2>2 DEF SignalsDone
  <1>14. CASE ProbeSettled
    <2>1. /\ ActiveWriteHasPort' /\ UNCHANGED portVars /\ UNCHANGED outVars
          /\ UNCHANGED testVars /\ UNCHANGED devVars
      BY <1>14 DEF ProbeSettled, EndWrite, ActiveWriteHasPort, TypeOK, WritesTyped
    <2>2. OperationState' /\ StopIsLast' /\ (Blocked' => Blocked)
      <3>1. CASE Finish(FALSE)
        BY <1>14, <1>q, <3>1, FinishInv DEF ProbeSettled
      <3>2. CASE ~Finish(FALSE)
        BY <1>14, <3>2 DEF ProbeSettled, Goto, OperationState, StopIsLast, Blocked, Gated,
           Disconnecting, Released, Connecting
      <3> QED BY <3>1, <3>2
    <2> QED BY <1>0, <1>14, <2>1, <2>2 DEF ProbeSettled, portVars, devVars
  <1>15. CASE VersionArrives
    <2>1. OperationState' /\ StopIsLast' /\ (Blocked' => Blocked)
      BY <1>15 DEF VersionArrives, OperationState, StopIsLast, Blocked, Gated, Disconnecting,
         Released, Connecting, portVars
    <2> QED BY <1>0, <1>15, <2>1, FrameLemma DEF VersionArrives, portVars, devVars
  <1>16. CASE VersionHeard \/ ProbeWindowOver
    <2>1. CASE ConcludeProbe /\ pc \in {"listen1", "listen2"}
      BY <1>t, <2>1, ConcludeProbeInv
    <2>2. CASE Probe("probe2") /\ pc = "listen1"
      BY <1>t, <2>2, ProbeInv
    <2> QED BY <1>16, <2>1, <2>2 DEF VersionHeard, ProbeWindowOver
  <1> QED BY <1>1, <1>2, <1>3, <1>4, <1>5, <1>6, <1>7, <1>8, <1>9, <1>10, <1>11, <1>12,
             <1>13, <1>14, <1>15, <1>16 DEF Lifecycle

LEMMA PortEventsInv ==
    ASSUME IInv, PortEvents
    PROVE  IInv'
  <1>t. TypeOK'
    BY PortEventsType
  <1> SUFFICES ASSUME NEW p \in Ports,
                      \/ ClosedInTime(p) \/ CloseErrorInTime(p) \/ CloseTimeout(p)
                      \/ ClosedLate(p) \/ CloseErrorLate(p)
                      \/ PortError(p) \/ Unplug(p) \/ PortClosed(p)
               PROVE  IInv'
    BY DEF PortEvents
  <1> USE DEF IInv
  <1>p. p # None
    BY NoneAssumption
  <1>d. ASSUME NEW state, CloseAnswer(p, state)
        PROVE  /\ dev'[p] = state /\ closing'[p] = "none" /\ p \notin timedOut'
               /\ \A q \in Ports \ {p} : /\ dev'[q] = dev[q] /\ closing'[q] = closing[q]
                                         /\ q \in timedOut' <=> q \in timedOut
               /\ UNCHANGED lastCmd
    BY <1>d DEF CloseAnswer, TypeOK, DevicesTyped
  \* the lifecycle after an answer, for a port the operation does not get back
  <1>r. ASSUME NEW ok \in BOOLEAN, Resume(p, ok), UNCHANGED port
        PROVE  OperationState' /\ (pc' \in {"stopping", "release", "exitStopping"} => pc' = pc)
    <2>1. CASE UNCHANGED lifeVars
      BY <1>r, <2>1, FrameLemma DEF lifeVars
    <2>2. CASE pc' = "idle" /\ transition' = "none"
      BY <2>2 DEF OperationState, Disconnecting, Released, Connecting
    <2>3. CASE /\ pc' \in {"retryFailed", "retryClose", "stale"}
               /\ pc \in Disconnecting \cap Released /\ UNCHANGED <<queue, transition, cur>>
      BY <1>r, <2>3 DEF OperationState, Disconnecting, Released, Connecting
    <2> QED BY <1>r, <2>1, <2>2, <2>3, ResumeLemma
  <1>1. CASE ClosedInTime(p)
    <2>1. /\ closing[p] # "none" /\ p \notin timedOut /\ CloseAnswer(p, "closed")
          /\ Resume(p, TRUE) /\ UNCHANGED port /\ UNCHANGED outVars /\ UNCHANGED testVars
          /\ UNCHANGED writeVars /\ readyPort' = IF readyPort = p THEN None ELSE readyPort
          /\ failedPort' \in {failedPort, None} /\ stalePorts' = stalePorts \ {p}
      BY <1>1 DEF ClosedInTime
    <2>2. port # p /\ dev[p] = "closing"
      BY <2>1, <1>p DEF CloseRecords, TypeOK, DevicesTyped
    <2>3. LatchAndBlockClearOutput' /\ PendingIsForReadyPort'
      BY <2>1, <2>2, ResumeLemma, BlockLemma DEF outVars, testVars, PendingIsForReadyPort,
         NothingPending
    <2>4. CloseRecords'
      <3>1. \A q \in Ports \ {p} : closing[q] = "owned" /\ q \notin timedOut =>
              pc' = "closingOwned" /\ cur' = q
        BY <2>1, ResumeLemma DEF CloseRecords, lifeVars
      <3> QED BY <1>d, <2>1, <2>2, <3>1, <1>p, NoneAssumption DEF CloseRecords
    <2>5. CurrentPort'
      <3>1. pc = "opening" => pc' = pc /\ cur' = cur
        BY <2>1, ResumeLemma DEF Resume, lifeVars
      <3> QED BY <1>d, <2>1, <2>2, <3>1 DEF CurrentPort
    <2>6. StopIsLast' /\ LatchedDeviceStopped'
      BY <1>d, <1>r, <2>1, <2>2 DEF StopIsLast, LatchedDeviceStopped, IsOpen, outVars,
         TypeOK, PortsTyped
    <2> QED BY <1>t, <1>r, <2>1, <2>3, <2>4, <2>5, <2>6, FrameLemma
  <1>2. CASE CloseErrorInTime(p)
    <2>1. /\ closing[p] # "none" /\ p \notin timedOut /\ CloseAnswer(p, "open")
          /\ Resume(p, FALSE) /\ UNCHANGED outVars /\ UNCHANGED testVars
          /\ UNCHANGED writeVars /\ UNCHANGED <<readyPort, failedPort, stalePorts>>
      BY <1>2 DEF CloseErrorInTime
    <2>2. CASE closing[p] = "owned"
      <3>1. /\ lastCmd[p] = "stop" /\ p \notin stalePorts /\ failedPort # p
            /\ pc = "closingOwned" /\ cur = p /\ port = None
        BY <2>1, <2>2 DEF CloseRecords
      <3>2. port' = p /\ pc' = "idle" /\ transition' = "none"
        BY <1>2, <2>1, <2>2, <3>1, ResumeLemma DEF CloseErrorInTime, Resume, Finish
      <3>3. NothingPending'
        BY <2>1, <3>1 DEF OperationState, Disconnecting, LatchAndBlockClearOutput, Blocked,
           NothingPending, outVars, testVars
      <3>4. OperationState'
        BY <3>2 DEF OperationState, Disconnecting, Released, Connecting
      <3>5. CloseRecords'
        BY <1>d, <2>1, <3>1, <3>2, NoneAssumption DEF CloseRecords
      <3>6. CurrentPort'
        BY <1>d, <2>1, <3>1, <3>2, NoneAssumption DEF CurrentPort
      <3>7. StopIsLast' /\ LatchedDeviceStopped'
        BY <1>d, <2>1, <3>1, <3>2 DEF StopIsLast, LatchedDeviceStopped
      <3> QED BY <1>t, <2>1, <3>3, <3>4, <3>5, <3>6, <3>7, FrameLemma
              DEF LatchAndBlockClearOutput, PendingIsForReadyPort
    <2>3. CASE closing[p] # "owned"
      <3>1. port' = port /\ port # p /\ dev[p] = "closing"
        BY <1>2, <2>1, <2>3 DEF CloseErrorInTime, CloseRecords, TypeOK, DevicesTyped
      <3>2. LatchAndBlockClearOutput' /\ PendingIsForReadyPort'
        BY <2>1, <3>1, ResumeLemma, BlockLemma DEF outVars, testVars, PendingIsForReadyPort,
           NothingPending
      <3>3. \A q \in Ports \ {p} : closing[q] = "owned" /\ q \notin timedOut =>
              pc' = "closingOwned" /\ cur' = q
        BY <2>1, ResumeLemma DEF CloseRecords, lifeVars
      <3>4. CloseRecords'
        BY <1>d, <2>1, <3>1, <3>3 DEF CloseRecords
      <3>5. pc = "opening" => pc' = pc /\ cur' = cur
        BY <2>1, ResumeLemma DEF Resume, lifeVars
      <3>6. CurrentPort'
        BY <1>d, <2>1, <3>1, <3>5 DEF CurrentPort
      <3>7. StopIsLast' /\ LatchedDeviceStopped'
        BY <1>d, <1>r, <2>1, <3>1 DEF StopIsLast, LatchedDeviceStopped, IsOpen, outVars,
           TypeOK, PortsTyped
      <3> QED BY <1>t, <1>r, <2>1, <3>1, <3>2, <3>4, <3>6, <3>7, FrameLemma
    <2> QED BY <2>2, <2>3
  <1>3. CASE CloseTimeout(p)
    <2>1. /\ closing[p] # "none" /\ p \notin timedOut /\ timedOut' = timedOut \cup {p}
          /\ Resume(p, FALSE) /\ UNCHANGED outVars /\ UNCHANGED testVars
          /\ UNCHANGED writeVars /\ UNCHANGED <<readyPort, failedPort, stalePorts>>
          /\ UNCHANGED <<dev, closing, lastCmd>> /\ dev[p] = "closing"
      BY <1>3 DEF CloseTimeout, CloseRecords
    <2>2. CASE closing[p] = "owned"
      <3>1. /\ lastCmd[p] = "stop" /\ p \notin stalePorts /\ failedPort # p
            /\ pc = "closingOwned" /\ cur = p /\ port = None
        BY <2>1, <2>2 DEF CloseRecords
      <3>2. port' = p /\ pc' = "idle" /\ transition' = "none"
        BY <1>3, <2>1, <2>2, <3>1, ResumeLemma DEF CloseTimeout, Resume, Finish
      <3>3. NothingPending'
        BY <2>1, <3>1 DEF OperationState, Disconnecting, LatchAndBlockClearOutput, Blocked,
           NothingPending, outVars, testVars
      <3>4. OperationState'
        BY <3>2 DEF OperationState, Disconnecting, Released, Connecting
      <3>5. CloseRecords'
        BY <2>1, <2>2, <3>1, <3>2, NoneAssumption DEF CloseRecords
      <3>6. CurrentPort'
        BY <2>1, <3>1, <3>2, NoneAssumption DEF CurrentPort
      <3>7. StopIsLast' /\ LatchedDeviceStopped'
        BY <2>1, <3>2 DEF StopIsLast, LatchedDeviceStopped, IsOpen
      <3> QED BY <1>t, <2>1, <3>3, <3>4, <3>5, <3>6, <3>7, FrameLemma
              DEF LatchAndBlockClearOutput, PendingIsForReadyPort
    <2>3. CASE closing[p] # "owned"
      <3>1. port' = port
        BY <1>3, <2>3 DEF CloseTimeout
      <3>2. LatchAndBlockClearOutput' /\ PendingIsForReadyPort'
        BY <2>1, <3>1, ResumeLemma, BlockLemma DEF outVars, testVars, PendingIsForReadyPort,
           NothingPending
      <3>3. \A q \in Ports \ {p} : closing[q] = "owned" /\ q \notin timedOut =>
              pc' = "closingOwned" /\ cur' = q
        BY <2>1, ResumeLemma DEF CloseRecords, lifeVars
      <3>4. CloseRecords'
        BY <2>1, <2>3, <3>1, <3>3 DEF CloseRecords
      <3>5. pc = "opening" => pc' = pc /\ cur' = cur
        BY <2>1, ResumeLemma DEF Resume, lifeVars
      <3>6. CurrentPort'
        BY <2>1, <3>1, <3>5 DEF CurrentPort
      <3>7. StopIsLast' /\ LatchedDeviceStopped'
        BY <1>r, <2>1, <3>1, FrameLemma DEF StopIsLast, IsOpen, outVars
      <3> QED BY <1>t, <1>r, <2>1, <3>1, <3>2, <3>4, <3>6, <3>7, FrameLemma
    <2> QED BY <2>2, <2>3
  <1>4. CASE ClosedLate(p)
    <2>1. /\ closing[p] # "none" /\ p \in timedOut /\ CloseAnswer(p, "closed")
          /\ readyPort' = IF readyPort = p THEN None ELSE readyPort
          /\ failedPort' \in {failedPort, None} /\ stalePorts' = stalePorts \ {p}
          /\ UNCHANGED lifeVars /\ dev[p] = "closing"
      BY <1>4 DEF ClosedLate, CloseRecords
    <2>2. CASE port = p
      <3>1. /\ port' = None /\ ClearOutput /\ write' = FailedWrites(p)
            /\ UNCHANGED <<emergencyStopped, writePort>>
        BY <1>4, <2>2 DEF ClosedLate, ReleaseCurrent
      <3>2. NothingPending' /\ ActiveWriteHasPort'
        BY <3>1, ClearOutputLemma DEF ActiveWriteHasPort, FailedWrites
      <3>3. OperationState'
        BY <2>1, <3>1 DEF OperationState, lifeVars
      <3>4. CloseRecords'
        BY <1>d, <2>1, <2>2, <3>1, <1>p, NoneAssumption DEF CloseRecords
      <3>5. CurrentPort'
        BY <1>d, <2>1, <3>1, NoneAssumption DEF CurrentPort, TypeOK, PortsTyped
      <3>6. StopIsLast' /\ LatchedDeviceStopped'
        BY <3>1 DEF StopIsLast, LatchedDeviceStopped, IsOpen
      <3> QED BY <1>t, <3>2, <3>3, <3>4, <3>5, <3>6
              DEF LatchAndBlockClearOutput, PendingIsForReadyPort
    <2>3. CASE port # p
      <3>1. UNCHANGED port /\ UNCHANGED outVars /\ UNCHANGED testVars /\ UNCHANGED writeVars
        BY <1>4, <2>3 DEF ClosedLate
      <3>2. LatchAndBlockClearOutput' /\ PendingIsForReadyPort'
        BY <2>1, <2>3, <3>1, UnchangedLemma, BlockLemma DEF outVars, testVars,
           PendingIsForReadyPort, NothingPending
      <3>3. CloseRecords'
        BY <1>d, <2>1, <2>3, <3>1, <1>p, NoneAssumption DEF CloseRecords, lifeVars
      <3>4. CurrentPort'
        BY <1>d, <2>1, <2>3, <3>1 DEF CurrentPort, lifeVars
      <3>5. StopIsLast' /\ LatchedDeviceStopped'
        BY <1>d, <2>1, <2>3, <3>1 DEF StopIsLast, LatchedDeviceStopped, IsOpen, outVars,
           lifeVars, TypeOK, PortsTyped
      <3> QED BY <1>t, <2>1, <3>1, <3>2, <3>3, <3>4, <3>5, FrameLemma
    <2> QED BY <2>2, <2>3
  <1>5. CASE CloseErrorLate(p)
    <2>1. /\ closing[p] # "none" /\ p \in timedOut /\ CloseAnswer(p, "open")
          /\ UNCHANGED <<readyPort, failedPort>> /\ UNCHANGED outVars /\ UNCHANGED testVars
          /\ UNCHANGED writeVars /\ UNCHANGED lifeVars /\ dev[p] = "closing"
      BY <1>5 DEF CloseErrorLate, CloseRecords
    <2>2. closing[p] = "owned" => port = p /\ lastCmd[p] = "stop"
      BY <2>1 DEF CloseRecords
    <2>3. UNCHANGED <<port, stalePorts>>
      BY <1>5, <2>2 DEF CloseErrorLate
    <2>4. closing[p] # "owned" => port # p
      BY <2>1 DEF CloseRecords, TypeOK, DevicesTyped
    <2>5. LatchAndBlockClearOutput' /\ PendingIsForReadyPort'
      BY <2>1, <2>3, UnchangedLemma, BlockLemma DEF outVars, testVars, PendingIsForReadyPort,
         NothingPending
    <2>6. CloseRecords'
      BY <1>d, <2>1, <2>3, <2>4, <1>p, NoneAssumption DEF CloseRecords, lifeVars
    <2>7. CurrentPort'
      BY <1>d, <2>1, <2>3 DEF CurrentPort, lifeVars
    <2>8. StopIsLast' /\ LatchedDeviceStopped'
      BY <1>d, <2>1, <2>2, <2>3, <2>4 DEF StopIsLast, LatchedDeviceStopped, IsOpen, outVars,
         lifeVars, TypeOK, PortsTyped
    <2> QED BY <1>t, <2>1, <2>3, <2>5, <2>6, <2>7, <2>8, FrameLemma
  <1>6. ASSUME port = p, NEW d, FailPort(p, d), UNCHANGED lifeVars,
               d = dev \/ (d = [dev EXCEPT ![p] = "closed"] /\ dev[p] # "closing")
        PROVE  IInv'
    <2>1. /\ NothingPending' /\ ActiveWriteHasPort' /\ StopIsLast'
          /\ CloseRecords' /\ CurrentPort' /\ LatchedDeviceStopped' /\ port' \in {port, None}
      BY <1>6, FailPortInv
    <2>2. OperationState'
      BY <1>6, <2>1, <1>p DEF OperationState, lifeVars
    <2> QED BY <1>t, <2>1, <2>2 DEF LatchAndBlockClearOutput, PendingIsForReadyPort
  <1>7. CASE PortError(p)
    BY <1>6, <1>7 DEF PortError
  <1>8. CASE Unplug(p) \/ (PortClosed(p) /\ port # p)
    <2>1. /\ dev[p] \in {"open", "lost"}
          /\ \E state \in {"lost", "closed"} : dev' = [dev EXCEPT ![p] = state]
          /\ UNCHANGED <<closing, timedOut, lastCmd>> /\ UNCHANGED portVars /\ UNCHANGED outVars
          /\ UNCHANGED testVars /\ UNCHANGED writeVars /\ UNCHANGED lifeVars
      BY <1>8 DEF Unplug, PortClosed
    <2>2. dev'[p] \in {"lost", "closed"} /\ \A q \in Ports \ {p} : dev'[q] = dev[q]
      BY <2>1 DEF TypeOK, DevicesTyped
    <2>3. LatchAndBlockClearOutput' /\ PendingIsForReadyPort'
      BY <2>1, UnchangedLemma, BlockLemma DEF outVars, testVars, portVars,
         PendingIsForReadyPort, NothingPending
    <2>4. CloseRecords'
      BY <2>1, <2>2 DEF CloseRecords, portVars, lifeVars
    <2>5. CurrentPort'
      BY <2>1, <2>2 DEF CurrentPort, portVars, lifeVars
    <2>6. StopIsLast' /\ LatchedDeviceStopped'
      BY <2>1, <2>2 DEF StopIsLast, LatchedDeviceStopped, IsOpen, outVars, portVars, lifeVars,
         TypeOK, PortsTyped
    <2> QED BY <1>t, <2>1, <2>3, <2>4, <2>5, <2>6, FrameLemma DEF portVars
  <1>9. CASE PortClosed(p) /\ port = p
    BY <1>6, <1>9 DEF PortClosed
  <1> QED BY <1>1, <1>2, <1>3, <1>4, <1>5, <1>7, <1>8, <1>9

LEMMA InitInv ==
    ASSUME Init
    PROVE  IInv
  <1>1. TypeOK
    <2>1. PortsTyped /\ OutputTyped
      BY DEF Init, PortsTyped, OutputTyped, Protections
    <2>2. PatternsTyped
      BY BoundAssumption DEF Init, PatternsTyped
    <2>3. WritesTyped
      BY DEF Init, WritesTyped
    <2>4. LifecycleTyped
      <3>1. queue \in Seq(Operations)
        BY DEF Init
      <3> QED BY <3>1 DEF Init, LifecycleTyped
    <2>5. DevicesTyped
      BY DEF Init, DevicesTyped, DeviceStates
    <2> QED BY <2>1, <2>2, <2>3, <2>4, <2>5 DEF TypeOK
  <1>2. NothingPending /\ ~IsOpen(port)
    BY DEF Init, NothingPending, IsOpen
  <1>3. OperationState
    BY DEF Init, OperationState, Disconnecting, Released, Connecting
  <1>4. ActiveWriteHasPort /\ CloseRecords
    BY DEF Init, ActiveWriteHasPort, CloseRecords
  <1>5. CurrentPort
    BY DEF Init, CurrentPort
  <1> QED BY <1>1, <1>2, <1>3, <1>4, <1>5 DEF IInv, LatchAndBlockClearOutput,
          PendingIsForReadyPort, StopIsLast, LatchedDeviceStopped

LEMMA StutterInv ==
    ASSUME IInv, UNCHANGED vars
    PROVE  IInv'
  <1>1. TypeOK'
    BY UnchangedLemma DEF IInv, TypeOK, vars
  <1>2. LatchAndBlockClearOutput' /\ PendingIsForReadyPort'
    BY UnchangedLemma, BlockLemma DEF IInv, vars, portVars, outVars, testVars,
       PendingIsForReadyPort, NothingPending
  <1> QED BY <1>1, <1>2, FrameLemma DEF IInv, vars, portVars, outVars, lifeVars, devVars

(***************************************************************************)
(* The theorems.                                                           *)
(***************************************************************************)
\* The invariant is inductive.
THEOREM Inductive == Spec => []IInv
  <1>1. Init => IInv
    BY InitInv
  <1>2. IInv /\ [Next]_vars => IInv'
    BY CallsInv, OutputInv, LifecycleInv, PortEventsInv, StutterInv DEF Next
  <1> QED BY <1>1, <1>2, PTL DEF Spec

\* Every variable has its type (TypeOK), whatever the port does and whenever it
\* does it; a frame clamped under the paused setting is never queued.
THEOREM TypeCorrect == Spec => []TypeOK
  <1>1. IInv => TypeOK
    BY DEF IInv
  <1> QED BY <1>1, Inductive, PTL

\* While the emergency stop is latched, the last command that the open port of
\* the controller was handed is not a movement: latchEmergencyStop, failPort
\* and the return of a port whose close failed never leave a device moving.
THEOREM LatchStopsDevice == Spec => []LatchedDeviceStopped
  <1>1. IInv => LatchedDeviceStopped
    BY DEF IInv
  <1> QED BY <1>1, Inductive, PTL

\* performDisconnect closes no port it owns before handing it a stop payload,
\* and no other command reaches the port until the close is answered.
THEOREM StopBeforeClose == Spec => []StoppedBeforeClose
  <1>1. IInv => StoppedBeforeClose
    BY DEF IInv, CloseRecords, StoppedBeforeClose
  <1> QED BY <1>1, Inductive, PTL

\* During stopForRoomExit the stop is the last command of an open port.
THEOREM RoomExitStops == Spec => []RoomExitHoldsStop
  <1>1. IInv => RoomExitHoldsStop
    BY DEF IInv, OperationState, StopIsLast, RoomExitHoldsStop
  <1> QED BY <1>1, Inductive, PTL

\* A motion or test write begins only on a pending frame or a pattern that goes
\* on, or with the first step of runTestPattern.
LEMMA MoveBegins ==
    ASSUME IInv, Next, NEW o \in {"flush"} \cup Patterns,
           write[o] = "none", write'[o] = "active"
    PROVE  MayMove
  <1>w. /\ o \in Owners /\ o # "lifecycle" /\ o \notin LatchCalls
        /\ write \in [Owners -> {"none", "active", "ok", "failed"}]
    BY OwnerAssumption DEF Owners, IInv, TypeOK, WritesTyped
  <1>n. \A t \in Patterns : t # "flush"
    BY OwnerAssumption
  <1>o. "lifecycle" \in Owners /\ "flush" \in Owners /\ Patterns \subseteq Owners
        /\ LatchCalls \subseteq Owners
    BY DEF Owners
  <1>p. ~NothingPending /\ IsOpen(port) => MayMove
    BY DEF IInv, LatchAndBlockClearOutput, PendingIsForReadyPort, MayMove, PortReady
  \* what the steps that begin no such write do to write
  <1>u. ~UNCHANGED write /\ ~UNCHANGED writeVars
    BY DEF writeVars
  <1>f. ASSUME NEW q, write' = FailedWrites(q) PROVE FALSE
    BY <1>f, <1>w DEF FailedWrites
  <1>b. ASSUME NEW q \in Owners, q # o, NEW kind, BeginWrite(q, kind) PROVE FALSE
    BY <1>b, <1>w DEF BeginWrite
  <1>e. ASSUME NEW q \in Owners, EndWrite(q) PROVE FALSE
    BY <1>e, <1>w DEF EndWrite
  <1>c. ASSUME NEW d, FailCurrent(d) PROVE FALSE
    BY <1>c, <1>f, <1>u DEF FailCurrent, FailPort
  <1>s. ASSUME NEW q \in Owners, q # o, WriteStop(q) PROVE FALSE
    BY <1>s, <1>b, <1>u DEF WriteStop
  <1>1. CASE Calls
    <2>1. CASE \E l \in LatchCalls : LatchEmergencyStop(l)
      BY <1>o, <1>s, <1>w, <2>1 DEF LatchEmergencyStop
    <2>2. ASSUME NEW t \in Patterns, RunTestPattern(t) PROVE MayMove
      BY <1>u, <2>2 DEF RunTestPattern, MayMove
    <2> QED BY <1>1, <1>u, <2>1, <2>2 DEF Calls, Connect, Disconnect, StopForRoomExit,
            Interrupting, AcceptMotion, DropPausedMotion, SetProtection, ReleaseEmergencyStop
  <1>2. CASE Output
    <2>1. CASE FlushLatest
      BY <1>p, <1>u, <2>1 DEF FlushLatest, NothingPending
    <2>2. CASE FlushSettled \/ \E l \in LatchCalls : LatchSettled(l)
      BY <1>e, <1>o, <2>2 DEF FlushSettled, LatchSettled
    <2>3. ASSUME NEW t \in Patterns, PatternSettled(t) PROVE FALSE
      BY <1>e, <1>o, <2>3 DEF PatternSettled
    <2>4. ASSUME NEW t \in Patterns, PatternDelayOver(t) PROVE MayMove
      <3>1. BeginWrite(t, "test") /\ patternLive[t]
        <4>1. ~(TestSteps + 1 <= TestSteps)
          BY BoundAssumption
        <4> QED BY <1>u, <2>4, <4>1 DEF PatternDelayOver, TestIteration
      <3>2. t = o
        BY <1>b, <1>o, <3>1
      <3>3. IsOpen(port)
        BY <1>w, <3>1, <3>2 DEF BeginWrite
      <3> QED BY <1>p, <3>1, <3>3 DEF NothingPending
    <2>5. ASSUME NEW q \in Owners, WriteDone(q) \/ WriteError(q) \/ WriteTimeout(q)
          PROVE  FALSE
      <3>1. ~FailPort(port, dev)
        BY <1>f DEF FailPort
      <3>2. write'[o] \in {write[o], "ok", "failed"} \/ FailPort(port, dev)
        BY <1>w, <2>5 DEF WriteDone, WriteError, WriteTimeout
      <3>3. write[q] = "active"
        BY <2>5 DEF WriteDone, WriteError, WriteTimeout
      <3> QED BY <3>1, <3>2
    <2> QED BY <1>2, <2>1, <2>2, <2>3, <2>4, <2>5 DEF Output
  <1>3. CASE Lifecycle
    <2>1. CASE StartOperation
      BY <1>o, <1>s, <1>u, <1>w, <2>1 DEF StartOperation, StartDisconnect, StartRoomExit
    <2>2. CASE StopSettled \/ ProbeSettled
      BY <1>e, <1>o, <2>2 DEF StopSettled, ProbeSettled
    <2>3. CASE ReleasePort
      BY <1>f, <1>u, <2>3 DEF ReleasePort
    <2>4. ASSUME NEW label, Probe(label) PROVE FALSE
      BY <1>b, <1>o, <1>w, <2>4 DEF Probe
    <2>5. ~ConcludeProbe
      BY <1>f, <1>u DEF ConcludeProbe, FailPort
    <2>6. CASE SignalsDone \/ SignalsFailed \/ VersionHeard \/ ProbeWindowOver \/ OpenTimeout
      BY <1>c, <2>4, <2>5, <2>6 DEF SignalsDone, SignalsFailed, VersionHeard, ProbeWindowOver,
         OpenTimeout
    <2>7. ASSUME NEW p \in Ports, OpenError(p) PROVE FALSE
      BY <1>c, <2>7 DEF OpenError
    <2>8. ASSUME NEW p \in Ports, \/ CleanupStalePort(p) \/ CreatePort(p) \/ OpenDone(p)
                                  \/ LateOpen(p) \/ LateOpenError(p)
          PROVE  FALSE
      BY <1>u, <2>8 DEF CleanupStalePort, CreatePort, OpenDone, LateOpen, LateOpenError
    <2>9. ~(RetryFailed \/ RetryClose \/ Disconnected \/ VersionArrives)
      BY <1>u DEF RetryFailed, RetryClose, Disconnected, VersionArrives
    <2> QED BY <1>3, <2>1, <2>2, <2>3, <2>6, <2>7, <2>8, <2>9 DEF Lifecycle
  <1>4. CASE PortEvents
    <2>1. PICK p \in Ports : \/ ClosedInTime(p) \/ CloseErrorInTime(p) \/ CloseTimeout(p)
                             \/ ClosedLate(p) \/ CloseErrorLate(p)
                             \/ PortError(p) \/ Unplug(p) \/ PortClosed(p)
      BY <1>4 DEF PortEvents
    <2>2. ASSUME NEW d PROVE ~FailPort(p, d)
      BY <1>f DEF FailPort
    <2> QED BY <1>f, <1>u, <2>1, <2>2 DEF ClosedInTime, CloseErrorInTime, CloseTimeout,
            ClosedLate, ReleaseCurrent, CloseErrorLate, PortError, Unplug, PortClosed
  <1> QED BY <1>1, <1>2, <1>3, <1>4 DEF Next

\* A motion or test write begins only when MayMove holds, although flushLatest
\* and the loop of runTestPattern check neither the latch nor the lifecycle.
THEOREM MovesAreAllowed == Spec => MovesOnlyWhenAllowed
  <1>1. IInv /\ [Next]_vars =>
          [\A o \in {"flush"} \cup Patterns :
              write[o] = "none" /\ write'[o] = "active" => MayMove]_vars
    BY MoveBegins
  <1> QED BY <1>1, Inductive, PTL DEF Spec, MovesOnlyWhenAllowed
=============================================================================
