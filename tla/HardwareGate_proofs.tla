------------------------- MODULE HardwareGate_proofs -------------------------
(***************************************************************************)
(* What the controller knows of its ports, PortsInv of HardwareController, *)
(* is inductive together with IInv.  From both follow the accounting of    *)
(* port objects, the latch on an unexpected loss, and that the controller  *)
(* implements OutputGate.                                                  *)
(***************************************************************************)
EXTENDS HardwareController_proofs

(***************************************************************************)
(* The parts of a step that PortsInv depends on.                           *)
(***************************************************************************)
\* The port has answered, or was not asked: a write that is active afterwards
\* was so before, or has begun on the open current port.
WritesStay ==
    \A o \in Owners : write'[o] = "active" =>
        \/ write[o] = "active" /\ writePort'[o] = writePort[o]
        \/ IsOpen(port) /\ writePort'[o] = port

\* where performDisconnect has neither a failed nor a current port
NoPortLeft == {"closingOwned", "stale", "closingStale", "identify"}
\* where performConnect and performDisconnect have no ready port
NoneReady == (Released \ {"closingOwned"}) \cup Connecting

\* The lifecycle operation stays, ends, or goes on to where no more is claimed.
OperationMovesOn ==
    /\ pc' = "idle" => transition' = "none"
    /\ pc' = "closingOwned" => UNCHANGED <<pc, cur>>
    /\ pc' \in NoneReady => pc \in NoneReady
    /\ pc' \in NoPortLeft => pc \in NoPortLeft
    /\ pc' = "opening" => pc = "opening"
    /\ pc' \in Connecting => pc \in Connecting /\ UNCHANGED cur

LEMMA WritesStayLemma ==
    ASSUME IInv
    PROVE  /\ UNCHANGED writeVars => WritesStay
           /\ \A o \in Owners, kind \in {"probe", "test", "stop", "motion"} :
                BeginWrite(o, kind) => WritesStay
           /\ \A o \in Owners : EndWrite(o) => WritesStay
           /\ \A p \in Ports : write' = FailedWrites(p) /\ UNCHANGED writePort => WritesStay
  BY DEF IInv, TypeOK, WritesTyped, WritesStay, BeginWrite, EndWrite, FailedWrites, writeVars

LEMMA StaysMovesOn ==
    ASSUME PortsInv
    PROVE  /\ UNCHANGED <<transition, pc, cur>> => OperationMovesOn
           /\ \A ok \in BOOLEAN : Finish(ok) => OperationMovesOn
  BY DEF PortsInv, OperationMovesOn, Finish, NoneReady, NoPortLeft, Released, Disconnecting,
     Connecting

\* A step that leaves the ports and the references to them alone.
LEMMA PortsFrame ==
    ASSUME IInv, PortsInv,
           UNCHANGED <<port, readyPort, failedPort, dev, closing>>,
           readyPort # None => connected' = connected,
           \A p \in stalePorts \ stalePorts' : dev[p] # "open" /\ closing[p] = "none",
           WritesStay, OperationMovesOn,
           port # None /\ dev[port] = "closing" => NothingPending',
           pc' \in Connecting => lastCmd'[cur] \in {lastCmd[cur], "stop", "probe"}
    PROVE  PortsInv'
  <1>1. (pc = "idle" => transition = "none")' /\ ReadyReference'
    BY DEF PortsInv, ReadyReference, OperationMovesOn, NoneReady
  <1>2. FailedReference'
    BY DEF PortsInv, FailedReference, OperationMovesOn, NoPortLeft
  <1>3. PortReferences'
    BY DEF PortsInv, PortReferences, WritesStay, OperationMovesOn, IsOpen, Connecting
  <1>4. GateIsShut'
    BY DEF PortsInv, GateIsShut, OperationMovesOn
  <1> QED BY <1>1, <1>2, <1>3, <1>4 DEF PortsInv

\* failPort, in a handler of its own or as the end of performConnect.
LEMMA FailPortPorts ==
    ASSUME IInv, PortsInv, NEW p \in Ports, port = p, NEW d,
           d = dev \/ (d = [dev EXCEPT ![p] = "closed"] /\ dev[p] # "closing"),
           FailPort(p, d),
           \/ UNCHANGED lifeVars /\ dev[p] # "opening"
           \/ Finish(FALSE)
    PROVE  PortsInv'
  <1>1. /\ p # None /\ NothingPending' /\ WritesStay
        /\ UNCHANGED <<stalePorts, lastCmd>>
    BY NoneAssumption, FailPortInv, WritesStayLemma DEF FailPort
  <1>2. OperationMovesOn /\ pc \notin NoPortLeft
    BY <1>1, StaysMovesOn DEF lifeVars, IInv, OperationState, NoPortLeft, Released, Disconnecting
  <1>3. /\ d[p] \in {dev[p], "closed"}
        /\ closing[p] # "none" => d = dev
        /\ \A q \in Ports \ {p} : d[q] = dev[q]
    BY DEF IInv, TypeOK, DevicesTyped, CloseRecords
  <1>4. pc' = "opening" => dev[p] # "opening" /\ UNCHANGED cur
    BY DEF Finish, lifeVars
  <1>5. pc' \in Connecting => UNCHANGED cur
    BY DEF Finish, lifeVars, Connecting
  <1>6. failedPort = None /\ readyPort \in {p, None}
    BY <1>1 DEF PortsInv, FailedReference, ReadyReference
  <1>7. CASE closing[p] # "none"
    <2>0. d = dev
      BY <1>3, <1>7
    <2>1. UNCHANGED <<port, readyPort, failedPort, connected, dev, closing>>
      BY <1>7, <2>0 DEF FailPort
    <2> QED BY <1>1, <1>2, <1>5, <2>1, PortsFrame
  <1>8. CASE closing[p] = "none"
    <2>1. /\ port' = None /\ readyPort' = None /\ failedPort' \in {p, None}
          /\ failedPort' = p => dev'[p] = "closing" /\ closing'[p] = "failed"
          /\ failedPort' = None => dev'[p] \notin {"open", "closing"} /\ closing'[p] = "none"
          /\ dev'[p] \in {d[p], "closing"}
          /\ \A q \in Ports \ {p} : dev'[q] = dev[q] /\ closing'[q] = closing[q]
      <3>1. port' = None /\ readyPort' = None
        BY <1>6, <1>8 DEF FailPort
      <3>2. CASE d[p] = "open"
        <4>1. failedPort' = p /\ dev' = [d EXCEPT ![p] = "closing"]
              /\ closing' = [closing EXCEPT ![p] = "failed"]
          BY <1>8, <3>2 DEF FailPort
        <4>2. dev'[p] = "closing" /\ closing'[p] = "failed"
          BY <4>1 DEF IInv, TypeOK, DevicesTyped
        <4>3. \A q \in Ports \ {p} : dev'[q] = dev[q] /\ closing'[q] = closing[q]
          BY <1>3, <4>1 DEF IInv, TypeOK, DevicesTyped
        <4> QED BY <1>1, <3>1, <4>1, <4>2, <4>3
      <3>3. CASE d[p] # "open"
        <4>1. failedPort' = None /\ dev' = d /\ UNCHANGED closing
          BY <1>6, <1>8, <3>3 DEF FailPort
        <4>2. dev[p] # "closing"
          BY <1>8 DEF IInv, CloseRecords
        <4>3. dev'[p] \notin {"open", "closing"}
          BY <1>3, <3>3, <4>1, <4>2
        <4> QED BY <1>1, <1>3, <1>8, <3>1, <4>1, <4>3
      <3> QED BY <3>2, <3>3
    <2>2. (pc = "idle" => transition = "none")' /\ ReadyReference' /\ FailedReference'
      BY <1>2, <2>1 DEF OperationMovesOn, ReadyReference, FailedReference, NoPortLeft
    <2>3. PortReferences'
      <3>1. \A q \in Ports : dev'[q] = "open" => q \in {port', failedPort'} \cup stalePorts'
        BY <1>1, <1>3, <1>6, <2>1 DEF PortsInv, PortReferences
      <3>2. \A q \in Ports : /\ closing'[q] = "failed" => q = failedPort'
                             /\ closing'[q] = "stale" => q \in stalePorts'
        BY <1>1, <1>6, <2>1, NoneAssumption DEF PortsInv, PortReferences
      <3>3. \A q \in Ports : dev'[q] = "opening" =>
                /\ q # failedPort'
                /\ \A o \in Owners : write'[o] = "active" => writePort'[o] # q
        BY <1>1, <1>3, <1>6, <2>1, NoneAssumption
           DEF PortsInv, PortReferences, WritesStay, IsOpen
      <3>4. pc' = "opening" /\ dev'[cur'] = "opening" => port' = cur'
        <4>1. pc' = "opening" => pc = "opening" /\ cur \in Ports
          BY <1>2 DEF OperationMovesOn, IInv, OperationState, TypeOK, LifecycleTyped, Connecting
        <4>2. pc' = "opening" /\ dev'[cur'] = "opening" => dev[p] # "opening" /\ cur' = cur
          BY <1>4
        <4>3. dev[p] # "opening" => dev'[p] # "opening"
          BY <1>3, <2>1
        <4>4. pc = "opening" /\ dev[cur] = "opening" => cur = p
          BY DEF PortsInv, PortReferences
        <4> QED BY <2>1, <4>1, <4>2, <4>3, <4>4
      <3> QED BY <3>1, <3>2, <3>3, <3>4 DEF PortReferences
    <2>4. GateIsShut'
      BY <1>1, <1>2, <1>5, <2>1 DEF PortsInv, GateIsShut, OperationMovesOn
    <2> QED BY <2>2, <2>3, <2>4 DEF PortsInv
  <1> QED BY <1>7, <1>8

(***************************************************************************)
(* Every step keeps PortsInv.                                              *)
(***************************************************************************)
\* Public calls and the output paths leave ports and the operation alone.
LEMMA StaysInOperation ==
    ASSUME IInv, PortsInv, UNCHANGED portVars, UNCHANGED <<transition, pc, cur>>,
           UNCHANGED <<dev, closing>>, WritesStay, NothingPending => NothingPending',
           \/ UNCHANGED lastCmd
           \/ /\ IsOpen(port) /\ readyPort = port
              /\ \E kind \in {"test", "motion"} : lastCmd' = [lastCmd EXCEPT ![port] = kind]
           \/ \E kind \in {"stop", "probe"} : lastCmd' = [lastCmd EXCEPT ![port] = kind]
    PROVE  PortsInv'
  <1>1. UNCHANGED <<port, readyPort, failedPort, stalePorts, connected>> /\ OperationMovesOn
    BY StaysMovesOn DEF portVars
  <1>2. port # None /\ dev[port] = "closing" => NothingPending'
    BY DEF PortsInv, GateIsShut
  <1>3. ASSUME pc' \in Connecting PROVE lastCmd'[cur] \in {lastCmd[cur], "stop", "probe"}
    <2>1. pc \in Connecting /\ cur \in Ports
      BY <1>3 DEF IInv, OperationState, TypeOK, LifecycleTyped
    <2>2. readyPort = None
      BY <2>1 DEF PortsInv, ReadyReference
    <2> QED BY <2>1, <2>2 DEF IsOpen, IInv, TypeOK, DevicesTyped
  <1> QED BY <1>1, <1>2, <1>3, PortsFrame

LEMMA CallsPorts ==
    ASSUME IInv, PortsInv, Calls
    PROVE  PortsInv'
  <1>1. ASSUME NEW key \in Keys, Connect(key) PROVE PortsInv'
    BY <1>1, StaysInOperation, WritesStayLemma
       DEF Connect, Enqueue, outVars, testVars, devVars, NothingPending
  <1>2. ASSUME NEW kind \in {"disconnect", "room-exit"}, Interrupting(kind) PROVE PortsInv'
    <2>1. NothingPending'
      BY <1>2, ClearOutputLemma DEF Interrupting, IInv
    <2> QED BY <1>2, <2>1, StaysInOperation, WritesStayLemma DEF Interrupting, Enqueue, devVars
  <1>3. CASE AcceptMotion
    <2>1. port # None /\ dev[port] # "closing" /\ WritesStay /\ OperationMovesOn
      BY <1>3, WritesStayLemma, StaysMovesOn
         DEF AcceptMotion, MayMove, PortReady, IsOpen, lifeVars
    <2> QED BY <1>3, <2>1, PortsFrame DEF AcceptMotion, portVars, lifeVars, devVars
  <1>4. CASE DropPausedMotion \/ ReleaseEmergencyStop \/ \E s \in Protections : SetProtection(s)
    BY <1>4, StaysInOperation, WritesStayLemma DEF DropPausedMotion, ReleaseEmergencyStop,
       SetProtection, lifeVars, devVars, testVars, NothingPending
  <1>5. ASSUME NEW l \in LatchCalls, LatchEmergencyStop(l) PROVE PortsInv'
    <2>1. l \in Owners /\ WriteStop(l) /\ NothingPending'
      BY <1>5, ClearOutputLemma DEF LatchEmergencyStop, WriteStop, Owners, IInv
    <2>2. WritesStay /\ (UNCHANGED lastCmd \/ lastCmd' = [lastCmd EXCEPT ![port] = "stop"])
      BY <2>1, WritesStayLemma DEF WriteStop, BeginWrite
    <2> QED BY <1>5, <2>1, <2>2, StaysInOperation DEF LatchEmergencyStop, lifeVars
  <1>6. ASSUME NEW t \in Patterns, RunTestPattern(t) PROVE PortsInv'
    <2>1. CASE PortReady
      <3>1. /\ t \in Owners /\ port # None /\ dev[port] # "closing" /\ OperationMovesOn
            /\ UNCHANGED portVars /\ UNCHANGED lifeVars /\ UNCHANGED <<dev, closing>>
            /\ TestIteration(t, 1)
        BY <1>6, <2>1, StaysMovesOn DEF RunTestPattern, PortReady, IsOpen, lifeVars, Owners
      <3>2. WritesStay
        BY <3>1, WritesStayLemma DEF TestIteration
      <3>3. pc' \notin Connecting
        BY <2>1, <3>1 DEF PortsInv, ReadyReference, PortReady, lifeVars
      <3> QED BY <3>1, <3>2, <3>3, PortsFrame DEF portVars
    <2>2. CASE ~PortReady
      BY <1>6, <2>2, StaysInOperation, WritesStayLemma
         DEF RunTestPattern, testVars, lifeVars, NothingPending
    <2> QED BY <2>1, <2>2
  <1> QED BY <1>1, <1>2, <1>3, <1>4, <1>5, <1>6 DEF Calls, Disconnect, StopForRoomExit

LEMMA OutputPorts ==
    ASSUME IInv, PortsInv, Output
    PROVE  PortsInv'
  <1>o. "flush" \in Owners /\ LatchCalls \subseteq Owners /\ Patterns \subseteq Owners
    BY DEF Owners
  <1>p. ~NothingPending => readyPort = port
    BY DEF IInv, PendingIsForReadyPort
  <1>1. CASE FlushLatest
    <2>1. CASE IsOpen(port) /\ latestFrame # None
      <3>1. WritesStay /\ lastCmd' = [lastCmd EXCEPT ![port] = "motion"]
        BY <1>1, <1>o, <2>1, WritesStayLemma DEF FlushLatest, BeginWrite
      <3>2. readyPort = port /\ (NothingPending => NothingPending')
        BY <1>p, <2>1 DEF NothingPending
      <3> QED BY <1>1, <2>1, <3>1, <3>2, StaysInOperation DEF FlushLatest, lifeVars
    <2>2. CASE ~(IsOpen(port) /\ latestFrame # None)
      BY <1>1, <2>2, StaysInOperation, WritesStayLemma
         DEF FlushLatest, lifeVars, testVars, NothingPending
    <2> QED BY <2>1, <2>2
  <1>2. CASE FlushSettled \/ \E l \in LatchCalls : LatchSettled(l)
    BY <1>2, <1>o, StaysInOperation, WritesStayLemma DEF FlushSettled, LatchSettled, lifeVars,
       outVars, testVars, devVars, NothingPending
  <1>3. ASSUME NEW t \in Patterns, PatternSettled(t) PROVE PortsInv'
    <2>1. WritesStay
      BY <1>3, <1>o, WritesStayLemma DEF PatternSettled
    <2>2. NothingPending => NothingPending'
      BY <1>3 DEF PatternSettled, NothingPending, outVars, IInv, TypeOK, PatternsTyped
    <2> QED BY <1>3, <2>1, <2>2, StaysInOperation DEF PatternSettled, lifeVars, devVars
  <1>4. ASSUME NEW t \in Patterns, PatternDelayOver(t) PROVE PortsInv'
    <2>1. NothingPending => NothingPending'
      BY <1>4 DEF PatternDelayOver, NothingPending, outVars, IInv, TypeOK, PatternsTyped
    <2>2. \/ UNCHANGED <<writeVars, lastCmd>>
          \/ patternLive[t] /\ BeginWrite(t, "test")
      <3>1. ~(TestSteps + 1 <= TestSteps)
        BY BoundAssumption
      <3> QED BY <1>4, <3>1 DEF PatternDelayOver, TestIteration
    <2>3. WritesStay
      BY <1>o, <2>2, WritesStayLemma
    <2>4. patternLive[t] => readyPort = port
      BY <1>p DEF NothingPending
    <2> QED BY <1>4, <2>1, <2>2, <2>3, <2>4, StaysInOperation
            DEF PatternDelayOver, BeginWrite, lifeVars
  <1>5. ASSUME NEW o \in Owners, WriteDone(o) PROVE PortsInv'
    <2>1. WritesStay
      BY <1>5 DEF WriteDone, WritesStay, IInv, TypeOK, WritesTyped
    <2> QED BY <1>5, <2>1, StaysInOperation DEF WriteDone, lifeVars, devVars, outVars, testVars,
            NothingPending
  <1>6. ASSUME NEW o \in Owners, WriteError(o) \/ WriteTimeout(o) PROVE PortsInv'
    <2>1. write[o] = "active" /\ UNCHANGED lifeVars /\ writePort[o] \in Ports
      BY <1>6 DEF WriteError, WriteTimeout, IInv, ActiveWriteHasPort, TypeOK, WritesTyped
    <2>2. CASE port = writePort[o]
      <3>1. port \in Ports /\ FailPort(port, dev) /\ dev[port] # "opening"
        BY <1>6, <2>1, <2>2 DEF WriteError, WriteTimeout, PortsInv, PortReferences
      <3> QED BY <2>1, <3>1, FailPortPorts
    <2>3. CASE port # writePort[o]
      <3>1. /\ write' = [write EXCEPT ![o] = "failed"]
            /\ UNCHANGED <<portVars, outVars, testVars, writePort, devVars>>
        BY <1>6, <2>3 DEF WriteError, WriteTimeout
      <3>2. WritesStay
        BY <3>1 DEF WritesStay, IInv, TypeOK, WritesTyped
      <3> QED BY <2>1, <3>1, <3>2, StaysInOperation DEF lifeVars, devVars, outVars, testVars,
              NothingPending
    <2> QED BY <2>2, <2>3
  <1> QED BY <1>1, <1>2, <1>3, <1>4, <1>5, <1>6 DEF Output

\* performConnect fails while it holds, or no longer holds, its port.
LEMMA FailCurrentPorts ==
    ASSUME IInv, PortsInv, pc \in Connecting, NEW d,
           d = dev \/ (d = [dev EXCEPT ![cur] = "closed"] /\ dev[cur] = "opening" /\ pc = "opening"),
           FailCurrent(d), Finish(FALSE)
    PROVE  PortsInv'
  <1>1. cur \in Ports
    BY DEF IInv, OperationState, TypeOK, LifecycleTyped
  <1>2. CASE port = cur
    BY <1>1, <1>2, FailPortPorts DEF FailCurrent
  <1>3. CASE port # cur
    <2>1. d = dev
      BY <1>3 DEF PortsInv, PortReferences
    <2>2. /\ UNCHANGED <<dev, closing, lastCmd>> /\ UNCHANGED portVars /\ UNCHANGED writeVars
          /\ UNCHANGED outVars /\ UNCHANGED testVars
      BY <1>3, <2>1 DEF FailCurrent
    <2>3. WritesStay /\ OperationMovesOn /\ pc' \notin Connecting
      BY <2>2, WritesStayLemma, StaysMovesOn DEF Finish, Connecting
    <2>4. port # None /\ dev[port] = "closing" => NothingPending'
      BY <2>2 DEF PortsInv, GateIsShut, NothingPending, outVars, testVars
    <2> QED BY <2>2, <2>3, <2>4, PortsFrame DEF portVars
  <1> QED BY <1>2, <1>3

LEMMA LifecyclePorts ==
    ASSUME IInv, PortsInv, Lifecycle
    PROVE  PortsInv'
  <1>o. "lifecycle" \in Owners
    BY DEF Owners
  <1>b. pc \in Disconnecting => NothingPending
    BY DEF IInv, OperationState, LatchAndBlockClearOutput, Blocked
  <1>n. pc \in (Disconnecting \ {"stopping", "release", "closingOwned"}) \cup {"identify"} =>
          port = None /\ readyPort = None
    BY DEF IInv, OperationState, PortsInv, ReadyReference, Released, Disconnecting
  \* a step that only moves the operation on, outside performConnect
  <1>0. ASSUME UNCHANGED <<port, readyPort, failedPort, dev, closing>>,
               connected' = connected \/ readyPort = None,
               \A p \in stalePorts \ stalePorts' : dev[p] # "open" /\ closing[p] = "none",
               WritesStay, OperationMovesOn, pc' \notin Connecting,
               port # None /\ NothingPending => NothingPending'
        PROVE  PortsInv'
    <2>1. port # None /\ dev[port] = "closing" => NothingPending'
      BY <1>0 DEF PortsInv, GateIsShut
    <2> QED BY <1>0, <2>1, PortsFrame
  <1>1. CASE StartOperation
    <2>1. /\ pc = "idle" /\ UNCHANGED portVars /\ UNCHANGED <<dev, closing>>
      BY <1>1 DEF StartOperation
    <2>2. CASE Finish(FALSE) /\ UNCHANGED <<outVars, testVars, writeVars, lastCmd>>
      BY <1>0, <2>1, <2>2, WritesStayLemma, StaysMovesOn
         DEF portVars, outVars, testVars, NothingPending, Finish, Connecting
    <2>3. ASSUME WriteStop("lifecycle"), OperationMovesOn, pc' \notin Connecting
          PROVE  PortsInv'
      <3>1. WritesStay /\ NothingPending'
        BY <1>o, <2>3, WritesStayLemma, ClearOutputLemma DEF WriteStop, IInv
      <3> QED BY <1>0, <2>1, <2>3, <3>1 DEF portVars
    <2>4. CASE StartDisconnect
      <3>1. OperationMovesOn /\ pc' \notin Connecting
        BY <2>4 DEF StartDisconnect, OperationMovesOn, NoneReady, NoPortLeft, Released,
           Disconnecting, Connecting
      <3> QED BY <2>3, <2>4, <3>1 DEF StartDisconnect
    <2>5. CASE StartRoomExit
      <3>1. OperationMovesOn /\ pc' \notin Connecting
        BY <2>5, StaysMovesOn DEF StartRoomExit, Finish, OperationMovesOn, NoneReady,
           NoPortLeft, Released, Disconnecting, Connecting
      <3> QED BY <2>3, <2>5, <3>1 DEF StartRoomExit
    <2> QED BY <1>1, <2>2, <2>4, <2>5 DEF StartOperation
  <1>2. CASE StopSettled
    <2>1. /\ WritesStay /\ UNCHANGED portVars /\ UNCHANGED outVars /\ UNCHANGED testVars
          /\ UNCHANGED <<dev, closing>>
      BY <1>2, <1>o, WritesStayLemma DEF StopSettled, devVars
    <2>2. OperationMovesOn /\ pc' \notin Connecting
      BY <1>2, StaysMovesOn DEF StopSettled, Goto, Finish, OperationMovesOn, NoneReady,
         NoPortLeft, Released, Disconnecting, Connecting
    <2> QED BY <1>0, <2>1, <2>2 DEF portVars, outVars, testVars, NothingPending
  <1>3. CASE ReleasePort
    <2>1. /\ pc = "release" /\ UNCHANGED outVars /\ UNCHANGED testVars
      BY <1>3 DEF ReleasePort
    <2>2. ASSUME IsOpen(port), port' = None, write' = FailedWrites(port), UNCHANGED writePort,
                 BeginClose(port, "owned"), pc' = "closingOwned", cur' = port,
                 UNCHANGED <<readyPort, failedPort, stalePorts, connected>>
          PROVE  PortsInv'
      <3>1. /\ port \in Ports /\ failedPort = None /\ readyPort \in {port, None}
            /\ dev' = [dev EXCEPT ![port] = "closing"]
            /\ closing' = [closing EXCEPT ![port] = "owned"]
        BY <2>2 DEF IsOpen, BeginClose, PortsInv, FailedReference, ReadyReference, IInv, TypeOK,
           PortsTyped
      <3>2. /\ dev'[port] = "closing" /\ closing'[port] = "owned"
            /\ \A q \in Ports \ {port} : dev'[q] = dev[q] /\ closing'[q] = closing[q]
        BY <3>1 DEF IInv, TypeOK, DevicesTyped
      <3>3. WritesStay
        BY <2>2, <3>1, WritesStayLemma
      <3>4. ReadyReference' /\ FailedReference'
        BY <2>2, <3>1 DEF PortsInv, ReadyReference, FailedReference, Released, Connecting,
           Disconnecting
      <3>5. PortReferences'
        BY <2>2, <3>1, <3>2, <3>3, NoneAssumption DEF PortsInv, PortReferences, WritesStay
      <3>6. GateIsShut'
        BY <2>2 DEF GateIsShut, Connecting
      <3> QED BY <2>2, <3>4, <3>5, <3>6 DEF PortsInv
    <2>3. CASE Finish(FALSE) /\ UNCHANGED <<portVars, writeVars, devVars>>
      BY <1>0, <2>1, <2>3, WritesStayLemma, StaysMovesOn
         DEF portVars, outVars, testVars, devVars, NothingPending, Finish, Connecting
    <2>4. ASSUME ~IsOpen(port), port' = None, Goto("retryFailed"),
                 readyPort' = (IF port \in {readyPort, None} THEN None ELSE readyPort),
                 UNCHANGED <<failedPort, stalePorts, connected, writeVars, devVars>>
          PROVE  PortsInv'
      <3>1. readyPort' = None /\ pc' = "retryFailed" /\ UNCHANGED <<dev, closing>>
            /\ WritesStay /\ UNCHANGED <<failedPort, stalePorts>>
        BY <2>4, WritesStayLemma DEF PortsInv, ReadyReference, Goto, devVars
      <3>2. ReadyReference' /\ FailedReference' /\ GateIsShut'
        BY <2>4, <3>1 DEF ReadyReference, FailedReference, GateIsShut, Connecting
      <3>3. \A q \in Ports : dev[q] = "open" => q # port
        BY <2>4, NoneAssumption DEF IsOpen
      <3>4. PortReferences'
        BY <2>4, <3>1, <3>3 DEF PortsInv, PortReferences, WritesStay
      <3> QED BY <3>1, <3>2, <3>4 DEF PortsInv
    <2> QED BY <1>3, <2>2, <2>3, <2>4 DEF ReleasePort
  <1>4. CASE RetryFailed
    <2>1. OperationMovesOn /\ pc' \notin Connecting
      BY <1>4 DEF RetryFailed, Goto, OperationMovesOn, NoneReady, NoPortLeft, Released,
         Disconnecting, Connecting
    <2> QED BY <1>0, <1>4, <2>1, WritesStayLemma
            DEF RetryFailed, portVars, devVars, outVars, testVars, NothingPending
  \* the start of a close of a failed or stale port
  <1>c. ASSUME NEW p \in Ports, NEW role \in {"failed", "stale"}, BeginClose(p, role),
               dev[p] = "open", role = "failed" => p = failedPort, role = "stale" => p \in stalePorts,
               UNCHANGED <<port, readyPort, failedPort, stalePorts, connected, writeVars>>,
               port = None, readyPort = None, pc' \in {"closingFailed", "closingStale"},
               pc' = "closingStale" => failedPort = None
        PROVE  PortsInv'
    <2>1. /\ dev'[p] = "closing" /\ closing'[p] = role /\ WritesStay
          /\ \A q \in Ports \ {p} : dev'[q] = dev[q] /\ closing'[q] = closing[q]
      BY <1>c, WritesStayLemma DEF BeginClose, IInv, TypeOK, DevicesTyped
    <2>2. ReadyReference' /\ FailedReference' /\ GateIsShut'
      BY <1>c DEF ReadyReference, FailedReference, GateIsShut, Connecting
    <2>3. PortReferences'
      BY <1>c, <2>1 DEF PortsInv, PortReferences, WritesStay, IsOpen
    <2> QED BY <1>c, <2>2, <2>3 DEF PortsInv
  <1>5. CASE RetryClose
    <2>1. /\ pc = "retryClose" /\ port = None /\ readyPort = None
          /\ UNCHANGED <<port, readyPort, stalePorts, connected>> /\ UNCHANGED writeVars
      BY <1>5, <1>n DEF RetryClose, Disconnecting
    <2>2. CASE Finish(FALSE) /\ UNCHANGED <<failedPort, devVars>>
      BY <1>0, <2>1, <2>2, WritesStayLemma, StaysMovesOn DEF devVars, Finish, Connecting
    <2>3. CASE IsOpen(failedPort) /\ BeginClose(failedPort, "failed") /\ pc' = "closingFailed"
               /\ UNCHANGED failedPort
      <3>1. failedPort \in Ports /\ dev[failedPort] = "open"
        BY <2>3 DEF IsOpen, IInv, TypeOK, PortsTyped
      <3> QED BY <1>c, <2>1, <2>3, <3>1
    <2>4. ASSUME ~IsOpen(failedPort), failedPort # None => closing[failedPort] = "none",
                 failedPort' = None, pc' = "stale", UNCHANGED devVars
          PROVE  PortsInv'
      <3>1. WritesStay /\ UNCHANGED <<dev, closing>>
        BY <2>1, <2>4, WritesStayLemma DEF devVars
      <3>2. ReadyReference' /\ FailedReference' /\ GateIsShut'
        BY <2>1, <2>4 DEF ReadyReference, FailedReference, GateIsShut, Connecting
      <3>3. \A q \in Ports : dev[q] = "open" \/ closing[q] = "failed" => q # failedPort
        BY <2>4, NoneAssumption DEF IsOpen
      <3>4. PortReferences'
        BY <2>1, <2>4, <3>1, <3>3, NoneAssumption DEF PortsInv, PortReferences, WritesStay
      <3> QED BY <2>4, <3>2, <3>4 DEF PortsInv
    <2> QED BY <1>5, <2>2, <2>3, <2>4 DEF RetryClose
  <1>6. ASSUME NEW p \in Ports, CleanupStalePort(p) PROVE PortsInv'
    <2>1. /\ pc = "stale" /\ port = None /\ readyPort = None /\ failedPort = None
          /\ UNCHANGED <<port, readyPort, failedPort, connected>> /\ UNCHANGED writeVars
      BY <1>6, <1>n DEF CleanupStalePort, Disconnecting, PortsInv, FailedReference
    <2>2. WritesStay
      BY <2>1, WritesStayLemma
    <2>3. pc' \in {"stale", "closingStale"} => OperationMovesOn /\ pc' \notin Connecting
      BY <2>1 DEF OperationMovesOn, NoneReady, NoPortLeft, Released, Disconnecting, Connecting
    <2>4. CASE Finish(FALSE) /\ UNCHANGED <<stalePorts, devVars>>
      BY <1>0, <2>1, <2>2, <2>4, StaysMovesOn DEF devVars, Finish, Connecting
    <2>5. CASE p \in stalePorts /\ IsOpen(p) /\ BeginClose(p, "stale") /\ pc' = "closingStale"
               /\ UNCHANGED stalePorts
      BY <1>c, <2>1, <2>5 DEF IsOpen
    <2>6. CASE ~IsOpen(p) /\ closing[p] = "none" /\ stalePorts' = stalePorts \ {p}
               /\ UNCHANGED <<pc, devVars>>
      <3>1. \A q \in stalePorts \ stalePorts' : dev[q] # "open" /\ closing[q] = "none"
        BY <2>6, NoneAssumption DEF IsOpen
      <3> QED BY <1>0, <2>1, <2>2, <2>3, <2>6, <3>1 DEF devVars
    <2>7. CASE pc' \in {"stale", "closingStale"} /\ UNCHANGED <<stalePorts, devVars>>
      BY <1>0, <2>1, <2>2, <2>3, <2>7 DEF devVars
    <2> QED BY <1>6, <2>1, <2>4, <2>5, <2>6, <2>7 DEF CleanupStalePort
  <1>7. CASE Disconnected
    <2>1. /\ pc = "stale" /\ port = None /\ readyPort = None
          /\ UNCHANGED <<port, readyPort, failedPort, stalePorts>> /\ WritesStay
          /\ UNCHANGED <<dev, closing>>
      BY <1>7, <1>n, WritesStayLemma DEF Disconnected, Disconnecting, devVars
    <2>2. OperationMovesOn /\ pc' \notin Connecting
      BY <1>7, <2>1, StaysMovesOn DEF Disconnected, Finish, OperationMovesOn, NoneReady,
         NoPortLeft, Released, Disconnecting, Connecting
    <2> QED BY <1>0, <2>1, <2>2
  <1>8. ASSUME NEW p \in Ports, CreatePort(p) PROVE PortsInv'
    <2>1. /\ pc = "identify" /\ port = None /\ readyPort = None /\ failedPort = None
          /\ port' = p /\ pc' = "opening" /\ cur' = p /\ dev[p] = "closed"
          /\ dev' = [dev EXCEPT ![p] = "opening"] /\ lastCmd' = [lastCmd EXCEPT ![p] = "none"]
          /\ \A o \in Owners : writePort[o] # p
          /\ UNCHANGED <<readyPort, failedPort, stalePorts, connected, closing>>
      <3>1. pc = "identify" /\ port = None /\ readyPort = None /\ failedPort = None
        BY <1>8, <1>n DEF CreatePort, PortsInv, FailedReference
      <3> QED BY <1>8, <3>1 DEF CreatePort, Unused
    <2>w. WritesStay
      BY <1>8, WritesStayLemma DEF CreatePort
    <2>2. /\ p # None /\ dev'[p] = "opening" /\ lastCmd'[p] = "none"
          /\ \A q \in Ports \ {p} : dev'[q] = dev[q]
      BY <2>1, NoneAssumption DEF IInv, TypeOK, DevicesTyped
    <2>3. ReadyReference' /\ FailedReference' /\ GateIsShut'
      BY <2>1, <2>2 DEF ReadyReference, FailedReference, GateIsShut, Connecting
    <2>4. PortReferences'
      BY <2>1, <2>w, <2>2, NoneAssumption DEF PortsInv, PortReferences, WritesStay, IsOpen
    <2> QED BY <2>1, <2>3, <2>4 DEF PortsInv
  <1>9. ASSUME NEW p \in Ports, OpenDone(p) PROVE PortsInv'
    <2>1. /\ pc = "opening" /\ cur = p /\ dev[p] = "opening" /\ pc' = "signals" /\ port = p
          /\ dev' = [dev EXCEPT ![p] = "open"] /\ lastCmd[p] = "none" /\ WritesStay
          /\ UNCHANGED <<port, readyPort, failedPort, stalePorts, connected, cur, closing, lastCmd>>
      BY <1>9, WritesStayLemma DEF OpenDone, Awaiting, Goto, PortsInv, PortReferences, IInv,
         CurrentPort, portVars
    <2>2. dev'[p] = "open" /\ \A q \in Ports \ {p} : dev'[q] = dev[q]
      BY <2>1 DEF IInv, TypeOK, DevicesTyped
    <2>3. ReadyReference' /\ FailedReference' /\ GateIsShut'
      BY <2>1, <2>2 DEF PortsInv, ReadyReference, FailedReference, GateIsShut, Connecting,
         Released, Disconnecting
    <2>4. PortReferences'
      BY <2>1, <2>2 DEF PortsInv, PortReferences, WritesStay, IsOpen
    <2> QED BY <2>1, <2>3, <2>4 DEF PortsInv
  <1>10. ASSUME NEW p \in Ports, OpenError(p) PROVE PortsInv'
    BY <1>10, FailCurrentPorts DEF OpenError, Awaiting, Connecting
  <1>11. CASE OpenTimeout \/ SignalsFailed
    BY <1>11, FailCurrentPorts DEF OpenTimeout, SignalsFailed, Connecting
  <1>12. ASSUME NEW p \in Ports, LateOpen(p) \/ LateOpenError(p) PROVE PortsInv'
    <2>1. /\ dev[p] = "opening" /\ ~Awaiting(p) /\ UNCHANGED <<port, readyPort, failedPort, connected>>
          /\ UNCHANGED outVars /\ UNCHANGED testVars /\ UNCHANGED <<transition, pc, cur, lastCmd>>
          /\ WritesStay
      BY <1>12, WritesStayLemma DEF LateOpen, LateOpenError, BeginClose, portVars, lifeVars
    <2>2. \/ /\ dev' = [dev EXCEPT ![p] = "closed"] /\ UNCHANGED <<closing, stalePorts>>
          \/ /\ dev' = [dev EXCEPT ![p] = "closing"] /\ closing' = [closing EXCEPT ![p] = "stale"]
             /\ stalePorts' = stalePorts \cup {p}
      BY <1>12 DEF LateOpen, LateOpenError, BeginClose, portVars
    <2>3. \A q \in Ports \ {p} : dev'[q] = dev[q] /\ closing'[q] = closing[q]
      BY <2>2 DEF IInv, TypeOK, DevicesTyped
    <2>4. \/ dev'[p] = "closed" /\ closing'[p] = "none" /\ UNCHANGED stalePorts
          \/ dev'[p] = "closing" /\ closing'[p] = "stale" /\ stalePorts' = stalePorts \cup {p}
      BY <2>1, <2>2 DEF IInv, TypeOK, DevicesTyped, CloseRecords
    <2>5. port # p /\ (pc = "opening" => cur # p)
      BY <2>1 DEF IInv, CurrentPort, Awaiting
    <2>6. (pc = "idle" => transition = "none")' /\ ReadyReference' /\ FailedReference'
      BY <2>1 DEF PortsInv, ReadyReference, FailedReference
    <2>7. PortReferences'
      <3>1. pc = "opening" => cur \in Ports
        BY DEF IInv, OperationState, TypeOK, LifecycleTyped, Connecting
      <3> QED BY <2>1, <2>3, <2>4, <2>5, <3>1 DEF PortsInv, PortReferences, WritesStay, IsOpen
    <2>8. GateIsShut'
      BY <2>1, <2>3, <2>5 DEF PortsInv, GateIsShut, NothingPending, outVars, testVars, IInv,
         TypeOK, PortsTyped
    <2> QED BY <2>6, <2>7, <2>8 DEF PortsInv
  <1>13. ASSUME pc \in {"signals", "listen1"}, NEW label \in {"probe1", "probe2"}, Probe(label)
         PROVE  PortsInv'
    <2>1. /\ WritesStay /\ UNCHANGED portVars /\ UNCHANGED outVars /\ UNCHANGED testVars
          /\ UNCHANGED <<dev, closing>> /\ pc' = label /\ UNCHANGED cur
          /\ lastCmd' = lastCmd \/ lastCmd' = [lastCmd EXCEPT ![port] = "probe"]
      BY <1>13, <1>o, WritesStayLemma DEF Probe, Goto, BeginWrite
    <2>2. OperationMovesOn
      BY <1>13, <2>1 DEF OperationMovesOn, NoneReady, NoPortLeft, Released, Disconnecting,
         Connecting
    <2>3. lastCmd'[cur] \in {lastCmd[cur], "stop", "probe"}
      <3>1. cur \in Ports
        BY <1>13 DEF IInv, OperationState, TypeOK, LifecycleTyped, Connecting
      <3> QED BY <2>1, <3>1 DEF IInv, TypeOK, DevicesTyped
    <2>4. port # None /\ dev[port] = "closing" => NothingPending'
      BY <2>1 DEF PortsInv, GateIsShut, NothingPending, outVars, testVars
    <2> QED BY <2>1, <2>2, <2>3, <2>4, PortsFrame DEF portVars
  <1>14. CASE SignalsDone
    <2>1. pc = "signals" /\ pc \in Connecting
      BY <1>14 DEF SignalsDone, Connecting
    <2> QED BY <1>13, <1>14, <2>1, FailCurrentPorts DEF SignalsDone
  \* the operation ends, and nothing else changes but writes
  <1>15. ASSUME NEW ok \in BOOLEAN, Finish(ok), WritesStay,
                UNCHANGED <<portVars, outVars, testVars, devVars>>
         PROVE  PortsInv'
    BY <1>0, <1>15, StaysMovesOn
       DEF portVars, outVars, testVars, devVars, NothingPending, Finish, Connecting
  <1>16. ASSUME pc \in {"listen1", "listen2"}, ConcludeProbe PROVE PortsInv'
    <2>1. pc \in Connecting /\ cur \in Ports
      BY <1>16 DEF Connecting, IInv, OperationState, TypeOK, LifecycleTyped
    <2>2. CASE FailPort(cur, dev) /\ port = cur /\ Finish(FALSE)
      BY <2>1, <2>2, FailCurrentPorts DEF FailCurrent
    <2>3. CASE /\ port = cur /\ readyPort' = cur /\ connected' = TRUE /\ Finish(TRUE)
               /\ UNCHANGED <<port, failedPort, stalePorts, outVars, testVars, writeVars, devVars>>
      <3>1. WritesStay /\ pc' = "idle" /\ transition' = "none"
        BY <2>3, WritesStayLemma DEF Finish
      <3>2. ReadyReference' /\ FailedReference' /\ GateIsShut'
        BY <2>3, <3>1 DEF PortsInv, ReadyReference, FailedReference, GateIsShut, NothingPending,
           outVars, testVars, devVars, Connecting, Released, Disconnecting
      <3>3. PortReferences'
        BY <2>3, <3>1 DEF PortsInv, PortReferences, WritesStay, devVars, IsOpen
      <3> QED BY <3>1, <3>2, <3>3 DEF PortsInv
    <2>4. CASE Finish(FALSE) /\ UNCHANGED <<portVars, outVars, testVars, writeVars, devVars>>
      BY <1>15, <2>4, WritesStayLemma
    <2> QED BY <1>16, <2>2, <2>3, <2>4 DEF ConcludeProbe, Holding
  <1>17. CASE ProbeSettled
    <2>1. /\ pc \in {"probe1", "probe2"} /\ WritesStay
          /\ UNCHANGED <<portVars, outVars, testVars, devVars>>
      BY <1>17, <1>o, WritesStayLemma DEF ProbeSettled
    <2>2. CASE \E label \in {"listen1", "listen2"} : Goto(label)
      <3>1. OperationMovesOn /\ UNCHANGED cur
        BY <2>1, <2>2 DEF Goto, OperationMovesOn, NoneReady, NoPortLeft, Released, Disconnecting,
           Connecting
      <3>2. port # None /\ dev[port] = "closing" => NothingPending'
        BY <2>1 DEF PortsInv, GateIsShut, NothingPending, outVars, testVars
      <3> QED BY <2>1, <3>1, <3>2, PortsFrame DEF portVars, devVars
    <2>3. CASE Finish(FALSE)
      BY <1>15, <2>1, <2>3
    <2> QED BY <1>17, <2>2, <2>3 DEF ProbeSettled
  <1>18. CASE VersionArrives
    BY <1>18, WritesStayLemma, StaysInOperation
       DEF VersionArrives, devVars, outVars, testVars, NothingPending
  <1>19. CASE VersionHeard \/ ProbeWindowOver
    BY <1>13, <1>16, <1>19 DEF VersionHeard, ProbeWindowOver
  <1> QED BY <1>1, <1>2, <1>3, <1>4, <1>5, <1>6, <1>7, <1>8, <1>9, <1>10, <1>11, <1>12,
             <1>14, <1>17, <1>18, <1>19 DEF Lifecycle

\* What the answer to a close does to the lifecycle operation.
LEMMA ResumePorts ==
    ASSUME IInv, PortsInv, NEW p \in Ports, NEW ok \in BOOLEAN, Resume(p, ok)
    PROVE  \/ UNCHANGED <<transition, pc, cur>>
           \/ pc' = "idle" /\ transition' = "none"
           \/ pc = "closingOwned" /\ cur = p /\ ok /\ pc' = "retryFailed"
           \/ pc \in {"awaitFailed", "closingFailed"} /\ pc' = "retryClose"
           \/ pc = "closingStale" /\ pc' = "stale"
  BY DEF Resume, Goto, Finish, lifeVars

LEMMA PortEventsPorts ==
    ASSUME IInv, PortsInv, PortEvents
    PROVE  PortsInv'
  <1>p. PICK p \in Ports : \/ ClosedInTime(p) \/ CloseErrorInTime(p) \/ CloseTimeout(p)
                           \/ ClosedLate(p) \/ CloseErrorLate(p)
                           \/ PortError(p) \/ Unplug(p) \/ PortClosed(p)
    BY DEF PortEvents
  <1>n. p # None
    BY NoneAssumption
  <1>u. pc = "opening" => cur \in Ports
    BY DEF IInv, OperationState, TypeOK, LifecycleTyped, Connecting
  <1>r. pc \in Released => port = None
    BY DEF IInv, OperationState
  <1>w. UNCHANGED writeVars => WritesStay
    BY WritesStayLemma
  \* the answer to a close: the record is gone, the port closed or open
  <1>a. ASSUME NEW state, CloseAnswer(p, state)
        PROVE  /\ dev'[p] = state /\ closing'[p] = "none" /\ UNCHANGED lastCmd
               /\ \A q \in Ports \ {p} : dev'[q] = dev[q] /\ closing'[q] = closing[q]
    BY <1>a DEF CloseAnswer, IInv, TypeOK, DevicesTyped
  \* closed: its references go
  <1>c. ASSUME dev'[p] = "closed", closing'[p] = "none", UNCHANGED lastCmd,
               \A q \in Ports \ {p} : dev'[q] = dev[q] /\ closing'[q] = closing[q],
               failedPort' = (IF failedPort = p THEN None ELSE failedPort),
               stalePorts' = stalePorts \ {p}, WritesStay, ReadyReference',
               port' = (IF port = p THEN None ELSE port),
               pc' = "idle" => transition' = "none",
               pc' \in NoPortLeft => pc \in NoPortLeft,
               pc' \in Connecting => UNCHANGED <<pc, cur>>,
               port = p \/ UNCHANGED <<outVars, testVars>>
        PROVE  PortsInv'
    <2>1. FailedReference'
      BY <1>c, <1>n DEF PortsInv, FailedReference, NoPortLeft
    <2>2. \A q \in Ports : /\ dev'[q] = "open" => q \in {port', failedPort'} \cup stalePorts'
                           /\ closing'[q] = "failed" => q = failedPort'
                           /\ closing'[q] = "stale" => q \in stalePorts'
      BY <1>c, <1>n DEF PortsInv, PortReferences
    <2>3. \A q \in Ports : dev'[q] = "opening" =>
                /\ q # failedPort'
                /\ \A o \in Owners : write'[o] = "active" => writePort'[o] # q
      BY <1>c, <1>n, NoneAssumption DEF PortsInv, PortReferences, WritesStay, IsOpen
    <2>4. pc' = "opening" /\ dev'[cur'] = "opening" => port' = cur'
      BY <1>c, <1>u DEF PortsInv, PortReferences, Connecting
    <2>5. PortReferences'
      BY <2>2, <2>3, <2>4 DEF PortReferences
    <2>6. GateIsShut'
      BY <1>c DEF PortsInv, GateIsShut, NothingPending, outVars, testVars, IInv, TypeOK,
         PortsTyped
    <2> QED BY <1>c, <2>1, <2>5, <2>6 DEF PortsInv
  \* still open, or not answered: an owned port is the current one again
  <1>o. ASSUME UNCHANGED <<readyPort, failedPort, stalePorts, lastCmd>>, UNCHANGED outVars,
               UNCHANGED testVars, UNCHANGED writeVars, closing[p] # "none",
               \/ dev'[p] = "open" /\ closing'[p] = "none"
               \/ UNCHANGED <<dev, closing>> /\ (closing[p] = "owned" => NothingPending),
               \A q \in Ports \ {p} : dev'[q] = dev[q] /\ closing'[q] = closing[q],
               IF closing[p] = "owned" THEN port \in {p, None} /\ port' = p /\ failedPort = None
                                            /\ readyPort \in {p, None}
               ELSE port' = port,
               connected' = connected \/ connected' = TRUE,
               pc' = "idle" => transition' = "none",
               pc' = "closingOwned" => UNCHANGED <<pc, cur>> /\ closing[p] # "owned",
               pc' \in NoneReady => pc \in NoneReady,
               pc' \in NoPortLeft => pc \in NoPortLeft /\ closing[p] # "owned",
               pc' \in Connecting => UNCHANGED <<pc, cur>>
        PROVE  PortsInv'
    <2>1. ReadyReference'
      BY <1>o, <1>n DEF PortsInv, ReadyReference, NoneReady
    <2>2. FailedReference'
      BY <1>o DEF PortsInv, FailedReference, NoPortLeft
    <2>3. dev[p] = "closing" /\ closing[p] \in {"owned", "failed", "stale"}
      BY <1>o DEF IInv, CloseRecords, TypeOK, DevicesTyped
    <2>4. \A q \in Ports : dev'[q] = "open" => q \in {port', failedPort'} \cup stalePorts'
      BY <1>o, <1>n, <2>3, NoneAssumption DEF PortsInv, PortReferences
    <2>5. \A q \in Ports : /\ closing'[q] = "failed" => q = failedPort'
                           /\ closing'[q] = "stale" => q \in stalePorts'
      BY <1>o, <1>n, <2>3 DEF PortsInv, PortReferences
    <2>6. \A q \in Ports : dev'[q] = "opening" =>
                /\ q # failedPort'
                /\ \A o \in Owners : write'[o] = "active" => writePort'[o] # q
      BY <1>o, <2>3 DEF PortsInv, PortReferences, writeVars
    <2>7. pc' = "opening" /\ dev'[cur'] = "opening" => port' = cur'
      BY <1>o, <1>u, <2>3 DEF PortsInv, PortReferences, Connecting
    <2>8. PortReferences'
      BY <2>4, <2>5, <2>6, <2>7 DEF PortReferences
    <2>9. NothingPending => NothingPending'
      BY <1>o DEF NothingPending, outVars, testVars
    <2>10. GateIsShut'
      BY <1>o, <2>3, <2>9 DEF PortsInv, GateIsShut, IInv, TypeOK, PortsTyped
    <2> QED BY <1>o, <2>1, <2>2, <2>8, <2>10 DEF PortsInv
  <1>1. CASE ClosedInTime(p)
    <2>1. /\ closing[p] # "none" /\ p \notin timedOut /\ CloseAnswer(p, "closed")
          /\ readyPort' = (IF readyPort = p THEN None ELSE readyPort)
          /\ failedPort' = (IF failedPort = p THEN None ELSE failedPort)
          /\ stalePorts' = stalePorts \ {p}
          /\ connected' = (connected /\ closing[p] # "owned")
          /\ Resume(p, TRUE) /\ UNCHANGED <<port, outVars, testVars>> /\ UNCHANGED writeVars
      BY <1>1 DEF ClosedInTime
    <2>2. port # p /\ (closing[p] = "owned" => pc = "closingOwned" /\ cur = p)
      BY <1>n, <2>1 DEF IInv, CloseRecords, TypeOK, DevicesTyped
    <2>3. /\ pc' = "idle" => transition' = "none"
          /\ pc' \in NoPortLeft => pc \in NoPortLeft
          /\ pc' \in Connecting => UNCHANGED <<pc, cur>>
      BY <2>1, ResumePorts DEF PortsInv, NoPortLeft, Connecting
    <2>4. /\ pc' = "closingOwned" => UNCHANGED <<pc, cur>>
          /\ pc' \in NoneReady => pc \in NoneReady \/ (pc = "closingOwned" /\ cur = p)
      BY <2>1, ResumePorts DEF NoneReady, Released, Disconnecting, Connecting
    <2>5. ReadyReference'
      BY <2>1, <2>2, <2>4 DEF PortsInv, ReadyReference, NoneReady
    <2> QED BY <1>a, <1>c, <1>w, <2>1, <2>2, <2>3, <2>5
  <1>2. CASE CloseErrorInTime(p) \/ CloseTimeout(p)
    <2>1. /\ closing[p] # "none" /\ p \notin timedOut
          /\ port' = (IF closing[p] = "owned" /\ port = None THEN p ELSE port)
          /\ Resume(p, FALSE) /\ UNCHANGED <<readyPort, failedPort, stalePorts, connected, lastCmd>>
          /\ UNCHANGED outVars /\ UNCHANGED testVars /\ UNCHANGED writeVars
          /\ CloseAnswer(p, "open") \/ UNCHANGED <<dev, closing>>
      BY <1>2 DEF CloseErrorInTime, CloseTimeout, CloseAnswer
    <2>2. closing[p] = "owned" => port = None /\ pc = "closingOwned" /\ cur = p
      BY <2>1 DEF IInv, CloseRecords
    <2>3. closing[p] = "owned" => /\ failedPort = None /\ readyPort \in {p, None}
                                  /\ NothingPending
      BY <2>2 DEF PortsInv, FailedReference, ReadyReference, IInv, LatchAndBlockClearOutput,
         OperationState, Disconnecting, Blocked
    <2>4. /\ pc' = "idle" => transition' = "none"
          /\ pc' = "closingOwned" => UNCHANGED <<pc, cur>>
          /\ pc' \in NoneReady => pc \in NoneReady
          /\ pc' \in NoPortLeft => pc \in NoPortLeft
          /\ pc' \in Connecting => UNCHANGED <<pc, cur>>
      BY <2>1, ResumePorts DEF PortsInv, NoneReady, NoPortLeft, Released, Disconnecting, Connecting
    <2>5. closing[p] = "owned" => pc' = "idle"
      BY <2>1, <2>2 DEF Resume, Finish
    <2>6. pc' \notin NoPortLeft \/ closing[p] # "owned"
      BY <2>5 DEF NoPortLeft
    <2>7. \/ dev'[p] = "open" /\ closing'[p] = "none"
          \/ UNCHANGED <<dev, closing>>
      BY <1>a, <2>1
    <2>8. \A q \in Ports \ {p} : dev'[q] = dev[q] /\ closing'[q] = closing[q]
      BY <1>a, <2>1
    <2> QED BY <1>o, <2>1, <2>2, <2>3, <2>4, <2>5, <2>6, <2>7, <2>8
  <1>3. CASE ClosedLate(p)
    <2>1. /\ closing[p] # "none" /\ p \in timedOut /\ CloseAnswer(p, "closed")
          /\ readyPort' = (IF readyPort = p THEN None ELSE readyPort)
          /\ failedPort' = (IF failedPort = p THEN None ELSE failedPort)
          /\ stalePorts' = stalePorts \ {p} /\ UNCHANGED <<transition, pc, cur>>
      BY <1>3 DEF ClosedLate, lifeVars
    <2>2. pc' = "idle" => transition' = "none"
      BY <2>1 DEF PortsInv
    <2>3. CASE port = p
      <3>1. port' = None /\ WritesStay
        BY <1>3, <2>3, WritesStayLemma DEF ClosedLate, ReleaseCurrent
      <3>2. readyPort \in {p, None} /\ readyPort' = None
        BY <1>n, <2>1, <2>3 DEF PortsInv, ReadyReference
      <3>3. ReadyReference'
        BY <3>1, <3>2 DEF ReadyReference
      <3> QED BY <1>a, <1>c, <2>1, <2>2, <2>3, <3>1, <3>3
    <2>4. CASE port # p
      <3>1. UNCHANGED <<port, connected, outVars, testVars>> /\ UNCHANGED writeVars
        BY <1>3, <2>4 DEF ClosedLate
      <3>2. ReadyReference'
        BY <1>n, <2>1, <2>4, <3>1 DEF PortsInv, ReadyReference
      <3> QED BY <1>a, <1>c, <1>w, <2>1, <2>2, <2>4, <3>1, <3>2
    <2> QED BY <2>3, <2>4
  <1>4. CASE CloseErrorLate(p)
    <2>1. /\ closing[p] # "none" /\ p \in timedOut /\ CloseAnswer(p, "open")
          /\ UNCHANGED <<readyPort, failedPort>> /\ UNCHANGED outVars /\ UNCHANGED testVars
          /\ UNCHANGED writeVars /\ UNCHANGED <<transition, pc, cur>>
      BY <1>4 DEF CloseErrorLate, lifeVars
    <2>2. closing[p] = "owned" => port = p
      BY <2>1 DEF IInv, CloseRecords
    <2>3. /\ UNCHANGED <<port, stalePorts>> /\ (connected' = connected \/ connected' = TRUE)
      BY <1>4, <2>2 DEF CloseErrorLate
    <2>4. closing[p] = "owned" => /\ failedPort = None /\ readyPort \in {p, None}
                                  /\ pc \notin Released
      BY <1>n, <1>r, <2>2 DEF PortsInv, FailedReference, ReadyReference
    <2>5. /\ pc' = "idle" => transition' = "none"
          /\ pc' = "closingOwned" => closing[p] # "owned"
          /\ pc' \in NoPortLeft => closing[p] # "owned"
      BY <2>1, <2>4 DEF PortsInv, NoPortLeft, Released, Disconnecting
    <2>6. UNCHANGED lastCmd /\ dev'[p] = "open" /\ closing'[p] = "none"
      BY <1>a, <2>1
    <2>7. \A q \in Ports \ {p} : dev'[q] = dev[q] /\ closing'[q] = closing[q]
      BY <1>a, <2>1
    <2> QED BY <1>o, <2>1, <2>2, <2>3, <2>4, <2>5, <2>6, <2>7
  <1>5. CASE PortError(p)
    BY <1>5, FailPortPorts DEF PortError
  <1>6. CASE PortClosed(p) /\ port = p
    BY <1>6, FailPortPorts DEF PortClosed
  <1>7. CASE Unplug(p) \/ (PortClosed(p) /\ port # p)
    <2>1. /\ dev[p] \in {"open", "lost"}
          /\ \E state \in {"lost", "closed"} : dev' = [dev EXCEPT ![p] = state]
          /\ UNCHANGED <<closing, lastCmd>> /\ UNCHANGED portVars /\ UNCHANGED outVars
          /\ UNCHANGED testVars /\ UNCHANGED writeVars /\ UNCHANGED <<transition, pc, cur>>
      BY <1>7 DEF Unplug, PortClosed, lifeVars
    <2>2. dev'[p] \in {"lost", "closed"} /\ \A q \in Ports \ {p} : dev'[q] = dev[q]
      BY <2>1 DEF IInv, TypeOK, DevicesTyped
    <2>3. (pc = "idle" => transition = "none")' /\ ReadyReference' /\ FailedReference'
      BY <2>1 DEF PortsInv, ReadyReference, FailedReference, portVars
    <2>4. PortReferences'
      BY <1>u, <2>1, <2>2 DEF PortsInv, PortReferences, portVars, writeVars
    <2>5. GateIsShut'
      BY <2>1, <2>2 DEF PortsInv, GateIsShut, NothingPending, outVars, testVars, portVars, IInv,
         TypeOK, PortsTyped
    <2> QED BY <2>3, <2>4, <2>5 DEF PortsInv
  <1> QED BY <1>p, <1>1, <1>2, <1>3, <1>4, <1>5, <1>6, <1>7

LEMMA InitPorts ==
    ASSUME Init
    PROVE  PortsInv
  BY DEF Init, PortsInv, ReadyReference, FailedReference, PortReferences, GateIsShut, Released,
     Disconnecting, Connecting

LEMMA StutterPorts ==
    ASSUME IInv, PortsInv, UNCHANGED vars
    PROVE  PortsInv'
  BY StaysInOperation, WritesStayLemma
     DEF vars, lifeVars, devVars, outVars, testVars, NothingPending

(***************************************************************************)
(* The theorems about ports.                                               *)
(***************************************************************************)
\* What the controller knows of its ports is inductive.
THEOREM PortsInductive == Spec => [](IInv /\ PortsInv)
  <1>1. Init => IInv /\ PortsInv
    BY InitInv, InitPorts
  <1>2. IInv /\ PortsInv /\ [Next]_vars => (IInv /\ PortsInv)'
    BY CallsInv, OutputInv, LifecycleInv, PortEventsInv, StutterInv,
       CallsPorts, OutputPorts, LifecyclePorts, PortEventsPorts, StutterPorts DEF Next
  <1> QED BY <1>1, <1>2, PTL DEF Spec

\* However late ports open, close or fail to: no open port is lost sight of
\* (openPort, closeLateOpenedPort, failPort), no second one is opened while a
\* first is held (performConnect), and the ready one is reported as connected.
THEOREM PortsAccounted == Spec => []PortsAccountedFor
  <1>1. IInv /\ PortsInv => NoPortLeak /\ ReadyIsReported
    BY DEF PortsInv, ReadyReference, PortReferences, NoPortLeak, ReadyIsReported
  <1>2. ASSUME IInv, PortsInv PROVE OneDeviceAtATime
    <2>1. SUFFICES ASSUME NEW p \in Ports \ stalePorts, NEW q \in Ports \ stalePorts,
                          Held(p), Held(q)
                   PROVE  p = q
      BY DEF OneDeviceAtATime
    <2>2. \A r \in Ports : closing[r] = "failed" => r = failedPort
      BY <1>2 DEF PortsInv, PortReferences
    <2>3. \A r \in Ports : closing[r] = "owned" =>
              r = port \/ (pc = "closingOwned" /\ cur = r /\ port = None)
      BY <1>2 DEF IInv, CloseRecords
    <2>4. port # None \/ pc = "closingOwned" => failedPort = None
      BY <1>2 DEF PortsInv, FailedReference
    <2> QED BY <2>1, <2>2, <2>3, <2>4, NoneAssumption DEF Held
  <1>3. IInv /\ PortsInv => PortsAccountedFor
    BY <1>1, <1>2 DEF PortsAccountedFor
  <1> QED BY <1>3, PortsInductive, PTL

LEMMA LossLatches ==
    ASSUME IInv, PortsInv, Next, readyPort # None, readyPort' = None, pc = "idle",
           closing[readyPort] = "none"
    PROVE  emergencyStopped'
  <1>u. ~UNCHANGED readyPort /\ ~UNCHANGED portVars
    BY DEF portVars
  <1>t. transition = "none"
    BY DEF PortsInv
  <1>f. ASSUME NEW p, NEW d, FailPort(p, d) PROVE emergencyStopped'
    BY <1>f, <1>t, <1>u DEF FailPort, UnexpectedReadyLoss
  <1>1. CASE Calls
    BY <1>1, <1>u DEF Calls, Connect, Disconnect, StopForRoomExit, Interrupting, AcceptMotion,
       DropPausedMotion, SetProtection, LatchEmergencyStop, ReleaseEmergencyStop, RunTestPattern
  <1>2. CASE Output
    BY <1>2, <1>f, <1>u DEF Output, FlushLatest, FlushSettled, LatchSettled, PatternSettled,
       PatternDelayOver, WriteDone, WriteError, WriteTimeout
  <1>3. CASE Lifecycle
    <2>1. ASSUME NEW p \in Ports, OpenDone(p) \/ OpenError(p) PROVE FALSE
      BY <2>1 DEF OpenDone, OpenError, Awaiting
    <2>2. ASSUME NEW p \in Ports, LateOpen(p) \/ LateOpenError(p) PROVE FALSE
      BY <2>2, <1>u DEF LateOpen, LateOpenError
    <2>3. ~StartOperation
      BY <1>u DEF StartOperation
    <2> QED BY <1>3, <2>1, <2>2, <2>3 DEF Lifecycle, StopSettled, ReleasePort, RetryFailed,
            RetryClose, CleanupStalePort, Disconnected, CreatePort, OpenTimeout, SignalsDone,
            SignalsFailed, ProbeSettled, VersionArrives, VersionHeard, ProbeWindowOver
  <1>4. CASE PortEvents
    <2>1. PICK p \in Ports : \/ ClosedInTime(p) \/ CloseErrorInTime(p) \/ CloseTimeout(p)
                             \/ ClosedLate(p) \/ CloseErrorLate(p)
                             \/ PortError(p) \/ Unplug(p) \/ PortClosed(p)
      BY <1>4 DEF PortEvents
    <2>2. ~(ClosedInTime(p) \/ ClosedLate(p))
      BY <1>u DEF ClosedInTime, ClosedLate
    <2> QED BY <1>f, <1>u, <2>1, <2>2 DEF CloseErrorInTime, CloseTimeout, CloseErrorLate,
            PortError, Unplug, PortClosed
  <1> QED BY <1>1, <1>2, <1>3, <1>4 DEF Next

\* failPort latches the emergency stop whenever a ready port is lost between
\* lifecycle operations, whatever took it away.
THEOREM LossIsLatched == Spec => UnexpectedLossLatches
  <1>1. IInv /\ PortsInv /\ [Next]_vars =>
          [readyPort # None /\ readyPort' = None /\ pc = "idle"
              /\ closing[readyPort] = "none" => emergencyStopped']_vars
    BY LossLatches
  <1> QED BY <1>1, PortsInductive, PTL DEF Spec, UnexpectedLossLatches

(***************************************************************************)
(* The controller implements the output gate.  What the refinement mapping *)
(* of ImplementsGate puts for the variables of OutputGate:                 *)
(***************************************************************************)
Admitting == PortReady /\ ~Blocked
Pending == latestFrame # None \/ \E t \in Patterns : patternLive[t]
Moving == IsOpen(port) /\ lastCmd[port] \in {"motion", "test"}

GateStep == [Gate!Next]_(Gate!vars)

\* The steps of OutputGate, each by what it takes.
LEMMA GateSteps ==
    ASSUME TypeOK, TypeOK'
    PROVE  /\ /\ UNCHANGED emergencyStopped
              /\ Admitting' <=> Admitting
              /\ Pending' <=> Pending
              /\ Moving' <=> Moving
              => GateStep
           /\ /\ emergencyStopped'
              /\ ~Pending'
              /\ ~Moving'
              /\ Admitting' <=> Admitting
              => GateStep
           /\ /\ ~emergencyStopped'
              /\ Admitting' <=> Admitting
              /\ Pending' <=> Pending
              /\ Moving' <=> Moving
              => GateStep
           /\ /\ Admitting /\ ~Admitting'
              /\ emergencyStopped => emergencyStopped'
              /\ Pending' => Pending
              /\ Moving' => Moving
              /\ emergencyStopped' => ~Pending' /\ ~Moving'
              => GateStep
           /\ /\ ~Admitting /\ ~Pending /\ ~Moving
              /\ Admitting' /\ ~Pending' /\ ~Moving'
              /\ UNCHANGED emergencyStopped
              => GateStep
           /\ /\ Admitting /\ ~emergencyStopped
              /\ Admitting' /\ Pending' /\ UNCHANGED emergencyStopped
              /\ Moving' <=> Moving
              => GateStep
           /\ /\ ~Pending' /\ UNCHANGED emergencyStopped
              /\ Admitting' <=> Admitting
              /\ Moving' => Moving
              => GateStep
           /\ /\ Admitting /\ ~emergencyStopped
              /\ Pending \/ Pending'
              /\ Admitting' /\ Moving' /\ UNCHANGED emergencyStopped
              => GateStep
  <1>1. emergencyStopped \in BOOLEAN /\ emergencyStopped' \in BOOLEAN
    BY DEF TypeOK, OutputTyped
  <1>2. GateStep <=> Gate!Next \/ UNCHANGED Gate!vars
    BY DEF GateStep
  <1>s. ASSUME UNCHANGED emergencyStopped, Admitting' <=> Admitting, Pending' <=> Pending,
               Moving' <=> Moving
        PROVE  UNCHANGED Gate!vars
    BY <1>s DEF Gate!vars, Admitting, Pending, Moving
  <1>l. ASSUME emergencyStopped', ~Pending', ~Moving', Admitting' <=> Admitting PROVE Gate!Latch
    BY <1>1, <1>l DEF Gate!Latch, Admitting, Pending, Moving
  <1>r. ASSUME ~emergencyStopped', Admitting' <=> Admitting, Pending' <=> Pending,
               Moving' <=> Moving
        PROVE  Gate!Release
    BY <1>1, <1>r DEF Gate!Release, Admitting, Pending, Moving
  <1>c. ASSUME Admitting, ~Admitting', emergencyStopped => emergencyStopped',
               Pending' => Pending, Moving' => Moving, emergencyStopped' => ~Pending' /\ ~Moving'
        PROVE  Gate!Close
    BY <1>1, <1>c DEF Gate!Close, Admitting, Pending, Moving
  <1>o. ASSUME ~Admitting, ~Pending, ~Moving, Admitting', ~Pending', ~Moving',
               UNCHANGED emergencyStopped
        PROVE  Gate!Open
    BY <1>1, <1>o DEF Gate!Open, Admitting, Pending, Moving
  <1>a. ASSUME Admitting, ~emergencyStopped, Admitting', Pending', UNCHANGED emergencyStopped,
               Moving' <=> Moving
        PROVE  Gate!Accept
    BY <1>1, <1>a DEF Gate!Accept, Admitting, Pending, Moving
  <1>w. ASSUME ~Pending', UNCHANGED emergencyStopped, Admitting' <=> Admitting, Moving' => Moving
        PROVE  Gate!Withdraw \/ Gate!Halt
    <2>1. CASE Moving'
      BY <1>1, <1>w, <2>1 DEF Gate!Withdraw, Admitting, Pending, Moving
    <2>2. CASE ~Moving'
      BY <1>1, <1>w, <2>2 DEF Gate!Halt, Admitting, Pending, Moving
    <2> QED BY <2>1, <2>2
  <1>m. ASSUME Admitting, ~emergencyStopped, Pending \/ Pending', Admitting', Moving',
               UNCHANGED emergencyStopped
        PROVE  Gate!Move
    BY <1>1, <1>m DEF Gate!Move, Admitting, Pending, Moving
  <1> QED BY <1>2, <1>s, <1>l, <1>r, <1>c, <1>o, <1>a, <1>w, <1>m DEF Gate!Next

\* The state of the gate in terms of the controller's.
LEMMA GateState ==
    ASSUME IInv, PortsInv
    PROVE  /\ Pending <=> ~NothingPending
           /\ Pending' <=> ~NothingPending'
           /\ Admitting => IsOpen(port) /\ readyPort = port /\ port # None /\ ~Blocked
           /\ Admitting' => IsOpen(port)' /\ readyPort' = port' /\ port' # None /\ ~Blocked'
           /\ emergencyStopped => ~Pending /\ ~Moving
           /\ Blocked => ~Pending /\ ~Admitting
           /\ Pending /\ IsOpen(port) => Admitting /\ ~emergencyStopped
           /\ Pending => readyPort = port /\ port # None
  <1>1. (Pending <=> ~NothingPending) /\ (Pending' <=> ~NothingPending')
    BY DEF Pending, NothingPending
  <1> QED BY <1>1 DEF IInv, LatchAndBlockClearOutput, LatchedDeviceStopped, PendingIsForReadyPort,
            Admitting, PortReady, IsOpen, Moving

\* Without an open port, and with nothing pending, the gate is shut.
LEMMA GateShuts ==
    ASSUME IInv, PortsInv, TypeOK', ~IsOpen(port)', NothingPending',
           emergencyStopped => emergencyStopped'
    PROVE  GateStep
  <1>1. ~Admitting' /\ ~Moving' /\ ~Pending'
    BY DEF Admitting, PortReady, Moving, Pending, NothingPending
  <1>2. emergencyStopped' = emergencyStopped \/ emergencyStopped'
    BY DEF IInv, TypeOK, OutputTyped
  <1> QED BY <1>1, <1>2, GateSteps DEF IInv

\* Nothing moves or can, before and after: the gate may open.
LEMMA GateOpens ==
    ASSUME IInv, TypeOK', ~Admitting, ~Pending, ~Moving, ~Pending', ~Moving',
           UNCHANGED emergencyStopped
    PROVE  GateStep
  BY GateSteps DEF IInv

\* The port, its references and its commands stay: at most what is pending goes.
LEMMA GateStays ==
    ASSUME IInv, PortsInv, TypeOK', UNCHANGED <<port, emergencyStopped>>,
           readyPort' = readyPort \/ (readyPort # port /\ readyPort' = None),
           port # None => dev'[port] = dev[port] /\ lastCmd'[port] = lastCmd[port],
           Blocked' <=> Blocked, NothingPending => NothingPending'
    PROVE  GateStep
  <1>1. Admitting' <=> Admitting
    BY DEF Admitting, PortReady, IsOpen
  <1>2. Moving' <=> Moving
    BY DEF Moving, IsOpen
  <1>3. (Pending' <=> Pending) \/ ~Pending'
    BY GateState
  <1> QED BY <1>1, <1>2, <1>3, GateSteps DEF IInv

\* The loss of the current port shuts the gate, and may latch it.
LEMMA FailPortGate ==
    ASSUME IInv, PortsInv, TypeOK', NEW p \in Ports, port = p, NEW d,
           d = dev \/ (d = [dev EXCEPT ![p] = "closed"] /\ dev[p] # "closing"),
           FailPort(p, d)
    PROVE  GateStep
  <1>1. NothingPending'
    BY FailPortInv
  <1>2. emergencyStopped => emergencyStopped'
    BY DEF FailPort
  <1>3. ~IsOpen(port)'
    <2>1. closing[p] # "none" => d = dev /\ dev[p] = "closing"
      BY DEF IInv, CloseRecords, TypeOK, DevicesTyped
    <2>2. port' = None \/ (port' = p /\ dev'[p] = "closing")
      BY <2>1 DEF FailPort
    <2> QED BY <2>2 DEF IsOpen
  <1> QED BY <1>1, <1>2, <1>3, GateShuts

LEMMA FailCurrentGate ==
    ASSUME IInv, PortsInv, TypeOK', pc \in Connecting, NEW d,
           d = dev \/ (d = [dev EXCEPT ![cur] = "closed"] /\ dev[cur] = "opening" /\ pc = "opening"),
           FailCurrent(d), Finish(FALSE)
    PROVE  GateStep
  <1>1. cur \in Ports
    BY DEF IInv, OperationState, TypeOK, LifecycleTyped
  <1>2. CASE port = cur
    BY <1>1, <1>2, FailPortGate DEF FailCurrent
  <1>3. CASE port # cur
    <2>1. d = dev
      BY <1>3 DEF PortsInv, PortReferences
    <2>2. readyPort = None /\ UNCHANGED <<port, readyPort, emergencyStopped, dev, lastCmd>>
          /\ UNCHANGED outVars /\ UNCHANGED testVars
      BY <1>3, <2>1 DEF FailCurrent, PortsInv, ReadyReference, portVars, outVars
    <2>3. ~Admitting /\ ~Admitting' /\ (Moving' <=> Moving)
      BY <2>2, GateState DEF Moving, IsOpen
    <2>4. Pending' <=> Pending
      BY <2>2 DEF Pending, outVars, testVars
    <2> QED BY <2>2, <2>3, <2>4, GateSteps DEF IInv
  <1> QED BY <1>2, <1>3

LEMMA CallsGate ==
    ASSUME IInv, PortsInv, TypeOK', Calls
    PROVE  GateStep
  <1>1. ASSUME NEW key \in Keys, Connect(key) PROVE GateStep
    <2>1. /\ queue' = Append(queue, [kind |-> "connect", key |-> key,
                                    after |-> LastIs("disconnect")])
          /\ UNCHANGED transition /\ queue \in Seq(Operations)
          /\ UNCHANGED portVars /\ UNCHANGED outVars /\ UNCHANGED testVars /\ UNCHANGED devVars
      BY <1>1 DEF Connect, Enqueue, IInv, TypeOK, LifecycleTyped
    <2>2. Gated' <=> Gated
      <3>1. /\ Len(queue') = Len(queue) + 1 /\ Len(queue) \in Nat
            /\ \A i \in 1..Len(queue) : queue'[i] = queue[i]
            /\ queue'[Len(queue) + 1].kind = "connect"
        BY <2>1
      <3>2. ASSUME Gated' PROVE Gated
        <4>1. PICK i \in 1..Len(queue') : queue'[i].kind \in {"disconnect", "room-exit"}
          BY <3>2 DEF Gated
        <4>2. i \in 1..Len(queue)
          BY <3>1, <4>1
        <4> QED BY <3>1, <4>1, <4>2 DEF Gated
      <3>3. ASSUME Gated PROVE Gated'
        <4>1. PICK i \in 1..Len(queue) : queue[i].kind \in {"disconnect", "room-exit"}
          BY <3>3 DEF Gated
        <4>2. i \in 1..Len(queue')
          BY <3>1, <4>1
        <4> QED BY <3>1, <4>1, <4>2 DEF Gated
      <3> QED BY <3>2, <3>3
    <2>3. (Blocked' <=> Blocked) /\ (NothingPending' <=> NothingPending)
      BY <2>1, <2>2 DEF Blocked, NothingPending, outVars, testVars
    <2> QED BY <2>1, <2>3, GateStays DEF portVars, outVars, devVars
  <1>2. ASSUME NEW kind \in {"disconnect", "room-exit"}, Interrupting(kind) PROVE GateStep
    <2>1. /\ queue' = Append(queue, [kind |-> kind]) /\ queue \in Seq(Operations)
          /\ UNCHANGED emergencyStopped /\ ClearOutput
          /\ UNCHANGED portVars /\ UNCHANGED devVars
      BY <1>2 DEF Interrupting, Enqueue, IInv, TypeOK, LifecycleTyped
    <2>2. Blocked'
      <3>1. Len(queue) + 1 \in 1..Len(queue') /\ queue'[Len(queue) + 1] = [kind |-> kind]
        BY <2>1
      <3> QED BY <3>1 DEF Blocked, Gated
    <2>3. ~Pending' /\ ~Admitting' /\ (Moving' <=> Moving)
      BY <2>1, <2>2, GateState, ClearOutputLemma DEF Admitting, Moving, IsOpen, portVars, devVars,
         IInv
    <2> QED BY <2>1, <2>3, GateSteps, GateState DEF IInv
  <1>3. CASE AcceptMotion
    <2>1. /\ MayMove /\ latestFrame' = protection /\ protection # Paused
          /\ UNCHANGED portVars /\ UNCHANGED lifeVars /\ UNCHANGED devVars
          /\ UNCHANGED emergencyStopped
      BY <1>3 DEF AcceptMotion
    <2>2. Pending'
      BY <2>1, NoneAssumption DEF IInv, TypeOK, OutputTyped, Protections, Pending
    <2>3. Admitting /\ Admitting' /\ ~emergencyStopped /\ (Moving' <=> Moving)
      BY <2>1, UnchangedLemma DEF MayMove, Admitting, PortReady, IsOpen, Moving, portVars, devVars,
         IInv
    <2> QED BY <2>1, <2>2, <2>3, GateSteps DEF IInv
  <1>4. CASE DropPausedMotion \/ \E s \in Protections : SetProtection(s)
    <2>1. /\ UNCHANGED portVars /\ UNCHANGED lifeVars /\ UNCHANGED devVars
          /\ UNCHANGED emergencyStopped /\ UNCHANGED testVars
          /\ latestFrame' = None \/ UNCHANGED latestFrame
      BY <1>4 DEF DropPausedMotion, SetProtection
    <2>2. NothingPending => NothingPending'
      BY <2>1 DEF NothingPending, testVars
    <2> QED BY <2>1, <2>2, GateStays, UnchangedLemma DEF portVars, devVars, IInv
  <1>5. CASE ReleaseEmergencyStop
    <2>1. /\ UNCHANGED portVars /\ UNCHANGED lifeVars /\ UNCHANGED devVars
          /\ UNCHANGED testVars /\ UNCHANGED latestFrame /\ ~emergencyStopped'
      BY <1>5 DEF ReleaseEmergencyStop
    <2>2. (Admitting' <=> Admitting) /\ (Pending' <=> Pending) /\ (Moving' <=> Moving)
      BY <2>1, UnchangedLemma DEF Admitting, PortReady, IsOpen, Pending, Moving, portVars, devVars,
         testVars, IInv
    <2> QED BY <2>1, <2>2, GateSteps DEF IInv
  <1>6. ASSUME NEW l \in LatchCalls, LatchEmergencyStop(l) PROVE GateStep
    <2>1. /\ l \in Owners /\ WriteStop(l) /\ ClearOutput /\ UNCHANGED portVars
          /\ UNCHANGED lifeVars /\ UNCHANGED dev /\ emergencyStopped' = TRUE
      BY <1>6 DEF LatchEmergencyStop, Owners, WriteStop
    <2>2. IsOpen(port) => lastCmd'[port] = "stop"
      BY <2>1, BeginWriteInv DEF WriteStop
    <2>3. ~Pending' /\ ~Moving' /\ (Admitting' <=> Admitting)
      BY <2>1, <2>2, ClearOutputLemma, UnchangedLemma, GateState DEF Admitting, PortReady, IsOpen,
         Moving, portVars, IInv
    <2> QED BY <2>1, <2>3, GateSteps DEF IInv
  <1>7. ASSUME NEW t \in Patterns, RunTestPattern(t) PROVE GateStep
    <2>1. /\ t \in Owners /\ ~Blocked /\ ~emergencyStopped /\ UNCHANGED emergencyStopped
          /\ UNCHANGED portVars /\ UNCHANGED lifeVars /\ UNCHANGED dev
          /\ latestFrame' = None
      BY <1>7 DEF RunTestPattern, Owners
    <2>2. Admitting' <=> Admitting
      BY <2>1, UnchangedLemma DEF Admitting, PortReady, IsOpen, portVars, IInv
    <2>3. CASE PortReady /\ protection # Paused
      <3>1. BeginWrite(t, "test") /\ patternLive' = [u \in Patterns |-> u = t]
        BY <1>7, <2>3, BoundAssumption DEF RunTestPattern, TestIteration
      <3>2. IsOpen(port) /\ lastCmd'[port] = "test"
        BY <2>1, <2>3, <3>1, BeginWriteInv DEF PortReady
      <3>3. Admitting /\ Moving' /\ Pending'
        BY <2>1, <2>3, <3>1, <3>2 DEF Admitting, Moving, Pending, IsOpen, portVars
      <3> QED BY <2>1, <2>2, <3>3, GateSteps DEF IInv
    <2>4. CASE PortReady /\ protection = Paused
      <3>1. UNCHANGED lastCmd /\ patternLive' = [u \in Patterns |-> FALSE]
        BY <1>7, <2>4 DEF RunTestPattern, TestIteration
      <3>2. ~Pending' /\ (Moving' <=> Moving)
        BY <2>1, <3>1 DEF Pending, Moving, IsOpen, portVars
      <3> QED BY <2>1, <2>2, <3>2, GateSteps DEF IInv
    <2>5. CASE ~PortReady
      <3>1. UNCHANGED testVars /\ UNCHANGED lastCmd
        BY <1>7, <2>5 DEF RunTestPattern
      <3>2. NothingPending => NothingPending'
        BY <2>1, <3>1 DEF NothingPending, testVars
      <3> QED BY <2>1, <3>1, <3>2, GateStays, UnchangedLemma DEF portVars, IInv
    <2> QED BY <2>3, <2>4, <2>5
  <1> QED BY <1>1, <1>2, <1>3, <1>4, <1>5, <1>6, <1>7 DEF Calls, Disconnect, StopForRoomExit

LEMMA OutputGateStep ==
    ASSUME IInv, PortsInv, TypeOK', Output
    PROVE  GateStep
  <1>o. "flush" \in Owners /\ LatchCalls \subseteq Owners /\ Patterns \subseteq Owners
    BY DEF Owners
  \* a movement is written on the open port, and was accepted for it
  <1>m. ASSUME UNCHANGED portVars, UNCHANGED lifeVars, UNCHANGED <<dev, emergencyStopped>>,
               IsOpen(port), Pending, lastCmd'[port] \in {"test", "motion"}
        PROVE  GateStep
    <2>1. Admitting /\ ~emergencyStopped
      BY <1>m, GateState
    <2>2. Admitting' /\ Moving'
      BY <1>m, <2>1, UnchangedLemma DEF Admitting, PortReady, IsOpen, Moving, portVars, IInv
    <2> QED BY <1>m, <2>1, <2>2, GateSteps DEF IInv
  \* no command is handed to the port, and at most what is pending goes
  <1>s. ASSUME UNCHANGED portVars, UNCHANGED lifeVars, UNCHANGED <<dev, lastCmd, emergencyStopped>>,
               NothingPending => NothingPending'
        PROVE  GateStep
    BY <1>s, GateStays, UnchangedLemma DEF portVars, IInv
  <1>1. CASE FlushLatest
    <2>1. CASE IsOpen(port) /\ latestFrame # None
      <3>1. BeginWrite("flush", "motion") /\ Pending
        BY <1>1, <2>1 DEF FlushLatest, Pending
      <3>2. lastCmd'[port] = "motion"
        BY <1>o, <2>1, <3>1, BeginWriteInv
      <3> QED BY <1>1, <1>m, <2>1, <3>1, <3>2 DEF FlushLatest
    <2>2. CASE ~(IsOpen(port) /\ latestFrame # None)
      BY <1>1, <1>s, <2>2 DEF FlushLatest, testVars, NothingPending
    <2> QED BY <2>1, <2>2
  <1>2. CASE FlushSettled \/ \E l \in LatchCalls : LatchSettled(l)
    BY <1>2, <1>s DEF FlushSettled, LatchSettled, outVars, testVars, devVars, NothingPending
  <1>3. ASSUME NEW t \in Patterns, PatternSettled(t) PROVE GateStep
    <2>1. NothingPending => NothingPending'
      BY <1>3 DEF PatternSettled, NothingPending, outVars, IInv, TypeOK, PatternsTyped
    <2> QED BY <1>3, <1>s, <2>1 DEF PatternSettled, outVars, devVars
  <1>4. ASSUME NEW t \in Patterns, PatternDelayOver(t) PROVE GateStep
    <2>1. NothingPending => NothingPending'
      BY <1>4 DEF PatternDelayOver, NothingPending, outVars, IInv, TypeOK, PatternsTyped
    <2>2. \/ UNCHANGED lastCmd
          \/ patternLive[t] /\ BeginWrite(t, "test")
      <3>1. ~(TestSteps + 1 <= TestSteps)
        BY BoundAssumption
      <3> QED BY <1>4, <3>1 DEF PatternDelayOver, TestIteration
    <2>3. CASE UNCHANGED lastCmd
      BY <1>4, <1>s, <2>1, <2>3 DEF PatternDelayOver, outVars
    <2>4. CASE patternLive[t] /\ BeginWrite(t, "test") /\ ~UNCHANGED lastCmd
      <3>1. IsOpen(port) /\ Pending
        BY <2>4 DEF BeginWrite, Pending
      <3>2. lastCmd'[port] = "test"
        BY <1>o, <2>4, <3>1, BeginWriteInv
      <3> QED BY <1>4, <1>m, <3>1, <3>2 DEF PatternDelayOver, outVars
    <2> QED BY <2>2, <2>3, <2>4
  <1>5. ASSUME NEW o \in Owners, WriteDone(o) PROVE GateStep
    BY <1>5, <1>s DEF WriteDone, outVars, testVars, devVars, NothingPending
  <1>6. ASSUME NEW o \in Owners, WriteError(o) \/ WriteTimeout(o) PROVE GateStep
    <2>1. writePort[o] \in Ports /\ UNCHANGED lifeVars
      BY <1>6 DEF WriteError, WriteTimeout, IInv, ActiveWriteHasPort, TypeOK, WritesTyped
    <2>2. CASE port = writePort[o]
      BY <1>6, <2>1, <2>2, FailPortGate DEF WriteError, WriteTimeout
    <2>3. CASE port # writePort[o]
      <3>1. UNCHANGED <<portVars, outVars, testVars, devVars>>
        BY <1>6, <2>3 DEF WriteError, WriteTimeout
      <3> QED BY <1>s, <2>1, <3>1 DEF outVars, testVars, devVars, NothingPending
    <2> QED BY <2>2, <2>3
  <1> QED BY <1>1, <1>2, <1>3, <1>4, <1>5, <1>6 DEF Output

\* The start of an operation: what it is queued for still blocks the gate.
LEMMA StartGate ==
    ASSUME IInv, PortsInv, TypeOK', StartOperation
    PROVE  GateStep
  <1>1. /\ pc = "idle" /\ queue # <<>> /\ queue \in Seq(Operations) /\ transition = "none"
        /\ UNCHANGED portVars /\ UNCHANGED <<dev, closing, timedOut>>
        /\ UNCHANGED emergencyStopped
    BY DEF StartOperation, PortsInv, IInv, TypeOK, LifecycleTyped, outVars
  <1>o. "lifecycle" \in Owners
    BY DEF Owners
  <1>2. CASE queue[1].kind = "connect" /\ Finish(FALSE)
             /\ UNCHANGED <<outVars, testVars, writeVars, lastCmd>>
    <2>1. Gated' <=> Gated
      <3>1. /\ queue' = Tail(queue) /\ Len(queue) \in Nat \ {0} /\ Len(queue') = Len(queue) - 1
            /\ \A i \in 1..Len(queue') : queue'[i] = queue[i + 1]
        BY <1>1, <1>2 DEF Finish
      <3>2. ASSUME Gated' PROVE Gated
        <4>1. PICK i \in 1..Len(queue') : queue'[i].kind \in {"disconnect", "room-exit"}
          BY <3>2 DEF Gated
        <4>2. i + 1 \in 1..Len(queue)
          BY <3>1, <4>1
        <4> QED BY <3>1, <4>1, <4>2 DEF Gated
      <3>3. ASSUME Gated PROVE Gated'
        <4>1. PICK i \in 1..Len(queue) : queue[i].kind \in {"disconnect", "room-exit"}
          BY <3>3 DEF Gated
        <4>2. i # 1
          BY <1>2, <4>1
        <4>3. i - 1 \in 1..Len(queue') /\ (i - 1) + 1 = i
          BY <3>1, <4>1, <4>2
        <4>4. queue'[i - 1] = queue[i]
          BY <3>1, <4>3
        <4> QED BY <4>1, <4>3, <4>4 DEF Gated
      <3> QED BY <3>2, <3>3
    <2>2. Blocked' <=> Blocked
      BY <1>1, <1>2, <2>1 DEF Blocked, Finish
    <2>3. NothingPending' <=> NothingPending
      BY <1>2 DEF NothingPending, outVars, testVars
    <2> QED BY <1>1, <1>2, <2>2, <2>3, GateStays DEF portVars
  <1>3. ASSUME WriteStop("lifecycle") PROVE ~Pending' /\ ~Moving'
    <2>1. IsOpen(port) => lastCmd'[port] = "stop"
      BY <1>3, <1>o, BeginWriteInv DEF WriteStop
    <2> QED BY <1>1, <1>3, <2>1, ClearOutputLemma, GateState
            DEF WriteStop, Moving, IsOpen, portVars, IInv
  <1>4. CASE StartDisconnect
    <2>1. ~Pending' /\ ~Moving' /\ ~Admitting'
      BY <1>3, <1>4 DEF StartDisconnect, Blocked, Admitting
    <2>2. CASE Admitting
      BY <1>1, <2>1, <2>2, GateSteps DEF IInv
    <2>3. CASE ~Admitting
      BY <1>1, <2>1, <2>3, GateSteps DEF IInv
    <2> QED BY <2>2, <2>3
  <1>5. CASE StartRoomExit /\ queue[1].kind = "room-exit"
    <2>1. Blocked
      BY <1>1, <1>5 DEF Blocked, Gated
    <2>2. ~Admitting /\ ~Pending' /\ ~Moving'
      BY <1>3, <1>5, <2>1, GateState DEF StartRoomExit
    <2>3. ~Admitting'
      <3>1. CASE IsOpen(port)
        BY <1>5, <3>1 DEF StartRoomExit, Blocked, Admitting
      <3>2. CASE ~IsOpen(port)
        BY <1>1, <3>2 DEF Admitting, PortReady, IsOpen, portVars
      <3> QED BY <3>1, <3>2
    <2> QED BY <1>1, <2>2, <2>3, GateSteps DEF IInv
  <1> QED BY <1>2, <1>4, <1>5 DEF StartOperation

LEMMA LifecycleGate ==
    ASSUME IInv, PortsInv, TypeOK', Lifecycle
    PROVE  GateStep
  <1>o. "lifecycle" \in Owners
    BY DEF Owners
  \* while there is no port before the step and no open one after it
  <1>n. ASSUME port = None, UNCHANGED outVars, UNCHANGED testVars, ~IsOpen(port)'
        PROVE  GateStep
    <2>1. NothingPending'
      BY <1>n DEF IInv, PendingIsForReadyPort, NothingPending, outVars, testVars
    <2> QED BY <1>n, <2>1, GateShuts DEF outVars
  \* performConnect has no ready port before its end
  <1>r. pc \in Connecting => readyPort = None /\ ~Admitting /\ ~Pending
    BY GateState DEF PortsInv, ReadyReference
  <1>1. CASE StopSettled
    <2>1. /\ UNCHANGED portVars /\ UNCHANGED outVars /\ UNCHANGED testVars /\ UNCHANGED devVars
      BY <1>1 DEF StopSettled
    <2>2. ~Pending /\ ~Admitting
      BY <1>1, GateState DEF StopSettled, IInv, OperationState, Disconnecting, Blocked
    <2>3. ~Pending' /\ ~Moving /\ ~Moving'
      BY <1>1, <2>1, <2>2 DEF StopSettled, IInv, StopIsLast, Pending, Moving, IsOpen, outVars,
         testVars, portVars, devVars
    <2> QED BY <2>1, <2>2, <2>3, GateOpens DEF outVars
  <1>2. CASE ReleasePort
    <2>1. NothingPending' /\ UNCHANGED emergencyStopped
      BY <1>2 DEF ReleasePort, IInv, OperationState, Disconnecting, LatchAndBlockClearOutput,
         Blocked, NothingPending, outVars, testVars
    <2>2. ~IsOpen(port)'
      <3>1. port # None /\ closing[port] # "none" => ~IsOpen(port)
        BY DEF IInv, CloseRecords, IsOpen, TypeOK, PortsTyped, DevicesTyped
      <3> QED BY <1>2, <3>1 DEF ReleasePort, IsOpen, portVars, devVars
    <2> QED BY <2>1, <2>2, GateShuts
  <1>3. CASE RetryFailed \/ RetryClose \/ (\E p \in Ports : CleanupStalePort(p)) \/ Disconnected
    <2>1. port = None
      BY <1>3 DEF RetryFailed, RetryClose, CleanupStalePort, Disconnected, IInv, OperationState,
         Released, Disconnecting
    <2>2. UNCHANGED port /\ UNCHANGED outVars /\ UNCHANGED testVars
      BY <1>3 DEF RetryFailed, RetryClose, CleanupStalePort, Disconnected, portVars
    <2> QED BY <1>n, <2>1, <2>2 DEF IsOpen
  <1>4. ASSUME NEW p \in Ports, CreatePort(p) PROVE GateStep
    <2>1. port = None /\ port' = p /\ dev'[p] = "opening"
      BY <1>4 DEF CreatePort, IInv, OperationState, Released, TypeOK, DevicesTyped
    <2> QED BY <1>4, <1>n, <2>1 DEF IsOpen, CreatePort
  <1>5. ASSUME NEW p \in Ports, OpenDone(p) PROVE GateStep
    <2>1. /\ pc = "opening" /\ cur = p /\ port = p /\ lastCmd[p] = "none" /\ dev[p] = "opening"
          /\ UNCHANGED portVars /\ UNCHANGED outVars /\ UNCHANGED testVars /\ UNCHANGED lastCmd
      BY <1>5 DEF OpenDone, Awaiting, PortsInv, PortReferences, IInv, CurrentPort
    <2>2. ~Admitting /\ ~Pending /\ ~Moving
      BY <1>r, <2>1 DEF Connecting, Moving
    <2>3. ~Pending' /\ ~Moving'
      BY <2>1, <2>2 DEF Pending, Moving, outVars, testVars, portVars
    <2> QED BY <2>1, <2>2, <2>3, GateOpens DEF outVars
  <1>6. ASSUME NEW p \in Ports, OpenError(p) PROVE GateStep
    BY <1>6, FailCurrentGate DEF OpenError, Awaiting, Connecting
  <1>7. CASE OpenTimeout \/ SignalsFailed
    BY <1>7, FailCurrentGate DEF OpenTimeout, SignalsFailed, Connecting
  <1>8. ASSUME NEW p \in Ports, LateOpen(p) \/ LateOpenError(p) PROVE GateStep
    <2>1. /\ port # p /\ UNCHANGED <<port, readyPort, lastCmd>> /\ UNCHANGED outVars
          /\ UNCHANGED testVars /\ UNCHANGED lifeVars
      BY <1>8 DEF LateOpen, LateOpenError, BeginClose, Awaiting, IInv, CurrentPort, portVars
    <2>2. port # None => dev'[port] = dev[port]
      BY <1>8, <2>1 DEF LateOpen, LateOpenError, BeginClose, IInv, TypeOK, PortsTyped, DevicesTyped
    <2> QED BY <2>1, <2>2, GateStays, UnchangedLemma DEF outVars, testVars, NothingPending, IInv
  <1>9. ASSUME pc \in Connecting, UNCHANGED portVars, UNCHANGED outVars, UNCHANGED testVars,
               UNCHANGED <<dev, closing>>,
               lastCmd' = lastCmd \/ (IsOpen(port) => lastCmd'[port] = "probe")
        PROVE  GateStep
    <2>1. ~Admitting /\ ~Pending /\ ~Pending'
      BY <1>9, <1>r DEF Pending, outVars, testVars
    <2>2. ~Admitting'
      BY <1>9, <1>r, GateState DEF portVars
    <2>3. Moving' => Moving
      BY <1>9 DEF Moving, IsOpen, portVars
    <2> QED BY <1>9, <2>1, <2>2, <2>3, GateSteps DEF IInv, outVars
  <1>10. ASSUME pc \in Connecting, NEW label, Probe(label) PROVE GateStep
    <2>1. /\ UNCHANGED portVars /\ UNCHANGED outVars /\ UNCHANGED testVars
          /\ UNCHANGED <<dev, closing>> /\ BeginWrite("lifecycle", "probe")
      BY <1>10 DEF Probe
    <2>2. IsOpen(port) => lastCmd'[port] = "probe"
      BY <1>o, <2>1, BeginWriteInv
    <2> QED BY <1>9, <1>10, <2>1, <2>2
  <1>11. CASE SignalsDone
    <2>1. pc \in Connecting
      BY <1>11 DEF SignalsDone, Connecting
    <2> QED BY <1>10, <1>11, <2>1, FailCurrentGate DEF SignalsDone
  <1>12. CASE ProbeSettled \/ VersionArrives
    <2>1. pc \in Connecting /\ UNCHANGED <<portVars, outVars, testVars, devVars>>
      BY <1>12 DEF ProbeSettled, VersionArrives, Connecting
    <2> QED BY <1>9, <2>1 DEF devVars
  <1>13. ASSUME pc \in Connecting, ConcludeProbe PROVE GateStep
    <2>1. CASE FailPort(cur, dev) /\ port = cur /\ Finish(FALSE)
      BY <1>13, <2>1, FailCurrentGate DEF FailCurrent
    <2>2. CASE UNCHANGED <<portVars, outVars, testVars, writeVars, devVars>>
      BY <1>9, <1>13, <2>2 DEF devVars
    <2>3. CASE port = cur /\ UNCHANGED <<port, outVars, testVars, devVars>>
      <3>1. ~Moving /\ ~Moving'
        BY <1>13, <2>3 DEF PortsInv, GateIsShut, Moving, devVars
      <3>2. ~Admitting /\ ~Pending /\ ~Pending'
        BY <1>13, <1>r, <2>3 DEF Pending, outVars, testVars
      <3> QED BY <2>3, <3>1, <3>2, GateOpens DEF outVars
    <2> QED BY <1>13, <2>1, <2>2, <2>3 DEF ConcludeProbe, Holding
  <1>14. CASE VersionHeard \/ ProbeWindowOver
    BY <1>10, <1>13, <1>14 DEF VersionHeard, ProbeWindowOver, Connecting
  <1> QED BY <1>1, <1>2, <1>3, <1>4, <1>5, <1>6, <1>7, <1>8, <1>11, <1>12, <1>14, StartGate
          DEF Lifecycle

LEMMA PortEventsGate ==
    ASSUME IInv, PortsInv, TypeOK', PortEvents
    PROVE  GateStep
  <1>p. PICK p \in Ports : \/ ClosedInTime(p) \/ CloseErrorInTime(p) \/ CloseTimeout(p)
                           \/ ClosedLate(p) \/ CloseErrorLate(p)
                           \/ PortError(p) \/ Unplug(p) \/ PortClosed(p)
    BY DEF PortEvents
  <1>n. p # None
    BY NoneAssumption
  <1>a. ASSUME NEW state, CloseAnswer(p, state)
        PROVE  /\ dev'[p] = state /\ UNCHANGED lastCmd
               /\ \A q \in Ports \ {p} : dev'[q] = dev[q]
    BY <1>a DEF CloseAnswer, IInv, TypeOK, DevicesTyped
  <1>t. port \in Ports \cup {None}
    BY DEF IInv, TypeOK, PortsTyped
  \* an answer about another port
  <1>x. ASSUME port # p, UNCHANGED port, UNCHANGED outVars, UNCHANGED testVars, UNCHANGED lastCmd,
               \A q \in Ports \ {p} : dev'[q] = dev[q],
               readyPort' = readyPort \/ (readyPort = p /\ readyPort' = None),
               Blocked' <=> Blocked
        PROVE  GateStep
    BY <1>t, <1>x, GateStays DEF outVars, testVars, NothingPending
  \* the operation that awaits the close of p goes on, or ends without a port
  <1>r. ASSUME NEW ok \in BOOLEAN, Resume(p, ok)
        PROVE  (Blocked' <=> Blocked) \/ (port = None /\ ~ok)
    <2>1. CASE UNCHANGED lifeVars
      BY <2>1, UnchangedLemma DEF IInv
    <2>2. ASSUME NEW label, Goto(label) PROVE Blocked' <=> Blocked
      BY <2>2 DEF Goto, Blocked, Gated
    <2>3. pc \in {"closingOwned", "closingFailed", "closingStale"} => port = None
      BY DEF IInv, OperationState, Released, Disconnecting
    <2> QED BY <1>r, <2>1, <2>2, <2>3 DEF Resume
  <1>1. CASE ClosedInTime(p)
    <2>1. /\ closing[p] # "none" /\ p \notin timedOut /\ CloseAnswer(p, "closed")
          /\ readyPort' = (IF readyPort = p THEN None ELSE readyPort)
          /\ Resume(p, TRUE) /\ UNCHANGED port /\ UNCHANGED outVars /\ UNCHANGED testVars
      BY <1>1 DEF ClosedInTime
    <2>2. port # p
      BY <1>n, <2>1 DEF IInv, CloseRecords, TypeOK, DevicesTyped
    <2>3. Blocked' <=> Blocked
      BY <1>r, <2>1
    <2> QED BY <1>a, <1>x, <2>1, <2>2, <2>3
  <1>2. CASE CloseErrorInTime(p) \/ CloseTimeout(p)
    <2>1. /\ closing[p] # "none" /\ p \notin timedOut
          /\ port' = (IF closing[p] = "owned" /\ port = None THEN p ELSE port)
          /\ Resume(p, FALSE) /\ UNCHANGED <<readyPort, lastCmd>>
          /\ UNCHANGED outVars /\ UNCHANGED testVars
          /\ CloseAnswer(p, "open") \/ UNCHANGED dev
      BY <1>2 DEF CloseErrorInTime, CloseTimeout, CloseAnswer
    <2>2. \A q \in Ports \ {p} : dev'[q] = dev[q]
      BY <1>a, <2>1
    <2>3. CASE closing[p] = "owned"
      <3>1. port = None /\ port' = p /\ lastCmd[p] = "stop" /\ Blocked
        BY <2>1, <2>3 DEF IInv, CloseRecords, OperationState, Disconnecting, Blocked
      <3>2. ~Admitting /\ ~Pending /\ ~Pending' /\ ~Moving /\ ~Moving'
        BY <2>1, <3>1, GateState DEF Pending, Moving, IsOpen, outVars, testVars
      <3> QED BY <2>1, <3>2, GateOpens DEF outVars
    <2>4. CASE closing[p] # "owned"
      <3>1. port # p /\ port' = port
        BY <1>n, <2>1, <2>4 DEF IInv, CloseRecords, TypeOK, DevicesTyped
      <3>2. CASE Blocked' <=> Blocked
        BY <1>x, <2>1, <2>2, <3>1, <3>2
      <3>3. CASE port = None
        <4>1. ~Admitting /\ ~Pending /\ ~Pending' /\ ~Moving /\ ~Moving'
          BY <2>1, <3>1, <3>3, GateState DEF Pending, Moving, IsOpen, outVars, testVars
        <4> QED BY <2>1, <4>1, GateOpens DEF outVars
      <3> QED BY <1>r, <2>1, <3>2, <3>3
    <2> QED BY <2>3, <2>4
  <1>3. CASE ClosedLate(p)
    <2>1. /\ CloseAnswer(p, "closed") /\ UNCHANGED lifeVars
          /\ readyPort' = (IF readyPort = p THEN None ELSE readyPort)
      BY <1>3 DEF ClosedLate
    <2>2. CASE port = p
      <3>1. port' = None /\ ClearOutput /\ UNCHANGED emergencyStopped
        BY <1>3, <2>2 DEF ClosedLate, ReleaseCurrent
      <3> QED BY <3>1, ClearOutputLemma, GateShuts DEF IsOpen, IInv
    <2>3. CASE port # p
      <3>1. UNCHANGED port /\ UNCHANGED outVars /\ UNCHANGED testVars /\ (Blocked' <=> Blocked)
        BY <1>3, <2>1, <2>3, UnchangedLemma DEF ClosedLate, IInv
      <3> QED BY <1>a, <1>x, <2>1, <2>3, <3>1
    <2> QED BY <2>2, <2>3
  <1>4. CASE CloseErrorLate(p)
    <2>1. /\ closing[p] # "none" /\ p \in timedOut /\ CloseAnswer(p, "open") /\ UNCHANGED lifeVars
          /\ UNCHANGED readyPort /\ UNCHANGED outVars /\ UNCHANGED testVars
      BY <1>4 DEF CloseErrorLate
    <2>2. closing[p] = "owned" => port = p /\ lastCmd[p] = "stop"
      BY <2>1 DEF IInv, CloseRecords
    <2>3. UNCHANGED port
      BY <1>4, <2>2 DEF CloseErrorLate
    <2>4. CASE closing[p] = "owned"
      <3>1. dev[p] = "closing" /\ lastCmd'[p] = "stop"
        BY <1>a, <2>1, <2>2, <2>4 DEF IInv, CloseRecords
      <3>2. ~Admitting /\ ~Pending /\ ~Moving
        BY <1>n, <2>2, <2>4, <3>1, GateState DEF PortsInv, GateIsShut, Moving, IsOpen
      <3>3. ~Pending' /\ ~Moving'
        BY <2>1, <2>2, <2>3, <2>4, <3>1, <3>2 DEF Pending, Moving, outVars, testVars
      <3> QED BY <2>1, <3>2, <3>3, GateOpens DEF outVars
    <2>5. CASE closing[p] # "owned"
      <3>1. port # p
        BY <1>n, <2>1, <2>5 DEF IInv, CloseRecords, TypeOK, DevicesTyped
      <3> QED BY <1>a, <1>x, <2>1, <2>3, <3>1, UnchangedLemma DEF IInv
    <2> QED BY <2>4, <2>5
  <1>5. CASE PortError(p)
    BY <1>5, FailPortGate DEF PortError
  <1>6. CASE PortClosed(p) /\ port = p
    BY <1>6, FailPortGate DEF PortClosed
  <1>7. CASE Unplug(p) \/ (PortClosed(p) /\ port # p)
    <2>1. /\ UNCHANGED portVars /\ UNCHANGED outVars /\ UNCHANGED testVars /\ UNCHANGED lastCmd
          /\ UNCHANGED lifeVars
          /\ \E state \in {"lost", "closed"} : dev' = [dev EXCEPT ![p] = state]
      BY <1>7 DEF Unplug, PortClosed
    <2>2. dev'[p] \in {"lost", "closed"} /\ \A q \in Ports \ {p} : dev'[q] = dev[q]
      BY <2>1 DEF IInv, TypeOK, DevicesTyped
    <2>3. CASE port # p
      BY <1>x, <2>1, <2>2, <2>3, UnchangedLemma DEF portVars, IInv
    <2>4. CASE port = p
      <3>1. dev[p] = "open" /\ ~Admitting' /\ ~Moving' /\ (Pending' <=> Pending)
        BY <1>7, <2>1, <2>2, <2>4, GateState DEF Unplug, Pending, Moving, IsOpen, portVars,
           outVars, testVars
      <3>2. CASE Admitting
        BY <2>1, <3>1, <3>2, GateState, GateSteps DEF outVars, IInv
      <3>3. CASE ~Admitting
        <4>1. ~Pending
          BY <1>n, <2>4, <3>1, <3>3, GateState DEF IsOpen
        <4> QED BY <2>1, <3>1, <3>3, <4>1, GateSteps DEF outVars, IInv
      <3> QED BY <3>2, <3>3
    <2> QED BY <2>3, <2>4
  <1> QED BY <1>p, <1>1, <1>2, <1>3, <1>4, <1>5, <1>6, <1>7

\* Every step of the controller is a step of the output gate or leaves it alone:
\* movement accepted before a stop, a loss or a lifecycle request reaches no
\* device afterwards, and a device is admitted only when nothing is left to move
\* it (the promise of HardwareController to the rest of the application).
THEOREM GateImplemented == Spec => ImplementsGate
  <1>1. Init => Gate!Init
    BY DEF Init, Gate!Init, PortReady, IsOpen
  <1>2. ASSUME IInv, PortsInv, IInv', [Next]_vars PROVE [Gate!Next]_(Gate!vars)
    <2>1. TypeOK'
      BY <1>2 DEF IInv
    <2>2. CASE Next
      BY <1>2, <2>1, <2>2, CallsGate, OutputGateStep, LifecycleGate, PortEventsGate
         DEF Next, GateStep
    <2>3. CASE UNCHANGED vars
      <3>1. /\ UNCHANGED portVars /\ UNCHANGED outVars /\ UNCHANGED testVars
            /\ UNCHANGED devVars /\ UNCHANGED lifeVars
        BY <2>3 DEF vars
      <3>2. NothingPending => NothingPending'
        BY <3>1 DEF NothingPending, outVars, testVars
      <3> QED BY <1>2, <2>1, <3>1, <3>2, GateStays, UnchangedLemma
              DEF outVars, portVars, devVars, GateStep, IInv
    <2> QED BY <1>2, <2>2, <2>3
  <1> QED BY <1>1, <1>2, PortsInductive, PTL DEF Spec, ImplementsGate, Gate!Spec
=============================================================================
