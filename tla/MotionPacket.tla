---------------------------- MODULE MotionPacket ----------------------------
(***************************************************************************)
(* A frame on its way from a host to a viewer: what the host's client puts *)
(* into a packet (electron/motion-packet.ts), what the relay makes of it   *)
(* (src/shared/motion-packet.ts, the same code, and forwardMotion), and    *)
(* what the viewer's client reads.  Old hosts send the four-byte packet.   *)
(* One frame: neither side keeps anything of it for the next but the       *)
(* sequence, which MotionPath has.                                         *)
(*                                                                         *)
(* Positions are in units of 1/Fine and may lie outside 0..Fine; a packet  *)
(* has them in units of 1/Scale.                                           *)
(***************************************************************************)
EXTENDS Integers

CONSTANTS
    Fine,        \* a position's full range
    Scale,       \* UINT16_SCALE
    Widest,      \* the largest number of the duration and flag fields
    SourceTimes  \* what performance.now and Date.now give

ASSUME PacketAssumption ==
    Fine \in Nat \ {0} /\ Scale \in Nat \ {0} /\ Widest \in Nat /\ SourceTimes \subseteq Nat

VARIABLES
    motion,     \* the frame that the host published, or NothingSent
    toRelayed,  \* the packet to the relay, or NothingSent
    relayedOn,  \* the packet to the viewer, or NothingSent
    relayClock, \* the relay's clock
    handedOn    \* the frame the viewer's client hands on, or NothingSent

packetVars == <<motion, toRelayed, relayedOn, relayClock, handedOn>>

NothingSent == [version |-> 0]

\* A missing number is written as Absent.
Absent     == -100
Wide       == {Absent, -1, 1, Widest + 1}
Published  == [version : {1, 2}, position : -1..Fine + 1, flags : {Absent, 1},
               sourceTime : SourceTimes \cup {Absent}, duration : Wide]
PacketFields == {"version", "flags", "sourceTime", "duration", "position"}

PacketTypeOK ==
    /\ motion \in Published \cup {NothingSent}
    /\ \A packet \in {toRelayed, relayedOn} :
          packet.version = 2 =>
             /\ DOMAIN packet = PacketFields
             /\ packet.position \in 0..Scale /\ packet.duration \in 0..Widest
    /\ relayClock \in SourceTimes

PacketInit ==
    /\ motion = NothingSent /\ toRelayed = NothingSent /\ relayedOn = NothingSent
    /\ relayClock \in SourceTimes /\ handedOn = NothingSent

(***************************************************************************)
(* The packet.                                                             *)
(***************************************************************************)
\* clamp01
Clamp01(v) == IF v < 0 THEN 0 ELSE IF v > Fine THEN Fine ELSE v

\* Math.round(clamp01(value) * UINT16_SCALE)
ToUint16(v) == (2 * Scale * Clamp01(v) + Fine) \div (2 * Fine)

\* toUint8, toUint16Raw
Narrow(v) == IF v < 0 THEN 0 ELSE IF v > Widest THEN Widest ELSE v

Given(v, other) == IF v = Absent THEN other ELSE v

EncodeMotionPacket(frame) ==
    [version |-> 2, flags |-> Narrow(Given(frame.flags, 0)), sourceTime |-> frame.sourceTime,
     duration |-> Narrow(Given(frame.duration, 0)), position |-> ToUint16(frame.position)]

\* A position that was read is in units of 1/Scale.
DecodedV2(packet) == [packet EXCEPT !.position = packet.position * Fine]
DecodedV1(packet, now) ==
    [version |-> 1, flags |-> Absent, sourceTime |-> now, duration |-> 0,
     position |-> packet.position * Fine]

\* toUint16 of a position that was read: of n/Scale, in units of 1/(Fine*Scale).
ReEncoded(v) ==
    LET clamped == IF v < 0 THEN 0 ELSE IF v > Fine * Scale THEN Fine * Scale ELSE v
    IN  (2 * clamped + Fine) \div (2 * Fine)

(***************************************************************************)
(* The host, the relay and the viewer.                                     *)
(***************************************************************************)
\* flushLatest; a frame without source time or duration gets its timestamp and
\* the interval of the client.  An old host has only position and intensity.
SendFrame ==
    /\ motion = NothingSent
    /\ motion' \in Published
    /\ \E timestamp \in SourceTimes :
          toRelayed' =
             IF motion'.version = 2
             THEN EncodeMotionPacket([motion' EXCEPT
                     !.sourceTime = Given(motion'.sourceTime, timestamp),
                     !.duration = Given(motion'.duration, 1)])
             ELSE [version |-> 1, position |-> ToUint16(motion'.position)]
    /\ UNCHANGED <<relayedOn, relayClock, handedOn>>

\* Mutant: the relay puts its own clock into every frame.
SafeFrameAtNow(frame, now) == [frame EXCEPT !.sourceTime = now, !.version = 2]

\* safeFrame of forwardMotion
SafeFrame(frame, now) == [frame EXCEPT !.sourceTime = Given(frame.sourceTime, now), !.version = 2]

\* The relay reads a packet, looks at its clock once more, and forwards it.
ForwardFrame ==
    /\ toRelayed # NothingSent
    /\ relayClock' \in {t \in SourceTimes : t >= relayClock}
    /\ LET frame == IF toRelayed.version = 2 THEN DecodedV2(toRelayed)
                    ELSE DecodedV1(toRelayed, relayClock)
           safe  == SafeFrame(frame, relayClock')
       IN  relayedOn' = [version |-> 2, flags |-> Narrow(Given(safe.flags, 0)),
                        sourceTime |-> safe.sourceTime, duration |-> Narrow(safe.duration),
                        position |-> ReEncoded(safe.position)]
    /\ toRelayed' = NothingSent /\ UNCHANGED <<motion, handedOn>>

ReadFrame ==
    /\ relayedOn # NothingSent
    /\ handedOn' = DecodedV2(relayedOn) /\ relayedOn' = NothingSent
    /\ UNCHANGED <<motion, toRelayed, relayClock>>

PacketNext == SendFrame \/ ForwardFrame \/ ReadFrame

PacketSpec == PacketInit /\ [][PacketNext]_packetVars

(***************************************************************************)
(* Properties.                                                             *)
(***************************************************************************)
\* A frame reaches the viewer with the position that was published, clamped, to
\* within half a unit of the packet though it is rounded twice; one of a current
\* host also with the host's own time and duration, from which the viewer's
\* controller works out how long the device takes for the movement
\* (hardware-controller.ts:1363-1387); when the delay buffer plays a frame
\* depends on its reception alone (relay-server.ts:443-455, relay-
\* client.ts:181-193, 547-553, motion-packet.ts:9-57).
FrameSurvives ==
    handedOn # NothingSent =>
       /\ 2 * (handedOn.position - Clamp01(motion.position) * Scale) \in -Fine..Fine
       /\ motion.version = 2 =>
             /\ motion.sourceTime # Absent => handedOn.sourceTime = motion.sourceTime
             /\ motion.duration # Absent => handedOn.duration = Narrow(motion.duration)

(***************************************************************************)
(* The inductive invariant of the proofs.                                  *)
(***************************************************************************)
\* The position in a packet is within half a unit of the published one.
NearPublished(position) ==
    /\ position \in 0..Scale
    /\ 2 * (position * Fine - Clamp01(motion.position) * Scale) \in -Fine..Fine

CurrentPackets == [version : {2}, flags : 0..Widest, sourceTime : SourceTimes,
                   duration : 0..Widest, position : 0..Scale]

\* A current packet that is under way has the host's time and duration.
CarriesFrame(packet) ==
    /\ NearPublished(packet.position)
    /\ packet.version = 2 =>
          /\ packet \in CurrentPackets
          /\ motion.version = 2 =>
                /\ motion.sourceTime # Absent => packet.sourceTime = motion.sourceTime
                /\ motion.duration # Absent => packet.duration = Narrow(motion.duration)

PacketInv ==
    /\ motion \in Published \cup {NothingSent} /\ relayClock \in SourceTimes
    /\ toRelayed # NothingSent =>
          /\ motion \in Published /\ toRelayed.version = motion.version
          /\ CarriesFrame(toRelayed)
    /\ relayedOn # NothingSent =>
          motion \in Published /\ relayedOn.version = 2 /\ CarriesFrame(relayedOn)
    /\ handedOn # NothingSent => motion \in Published
    /\ FrameSurvives
=============================================================================
