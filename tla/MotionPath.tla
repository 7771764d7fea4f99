----------------------------- MODULE MotionPath -----------------------------
(***************************************************************************)
(* The numbers of motion frames on their way from a host over the relay to *)
(* a viewer: RelayClient numbers what it publishes modulo 2^32, the relay  *)
(* (resolveForwardedSequence) numbers the frames of hosts that send the    *)
(* older packet without a number, and the viewer's MotionSequenceTracker   *)
(* takes a frame only if it is newer by less than half the range.          *)
(*                                                                         *)
(* Frames are sent as volatile packets and dropped without notice; what    *)
(* does arrive keeps its order.  The relay's stops and removals travel the *)
(* same way as its frames and reset the tracker.  A packet is the serial   *)
(* number of its frame, which only the model knows, and its sequence.      *)
(***************************************************************************)
EXTENDS Integers, Sequences, FiniteSetsExt

CONSTANTS
    Modulus,    \* 2^32
    MaxSent,    \* bound on the frames that are published
    MaxLoss,    \* bound on consecutive frames that are lost
    MaxBreaks,  \* bound on stops, removals and hosts that come anew
    MaxFlight   \* bound on packets in flight

ASSUME PathAssumption ==
    /\ Modulus \in Nat \ {0} /\ Modulus % 2 = 0
    /\ MaxSent \in Nat /\ MaxBreaks \in Nat /\ MaxFlight \in Nat
    /\ MaxLoss \in Nat /\ 2 * (MaxLoss + 1) < Modulus

VARIABLES
    sent,           \* history: frames published so far, by any host
    numbered,       \* whether the host's packets carry a sequence (version 2)
    outSequence,    \* outgoingSequence
    toRelay,        \* packets from the host
    lastForwarded,  \* lastForwardedSequenceByRoom, or NoSequence
    toViewer,       \* packets to the viewer
    tracker,        \* its MotionSequenceTracker
    first, newest,  \* history: first and last frame accepted since its reset
    lost,           \* history: frames lost after they were numbered
    vanished,       \* history: frames lost before
    breaks,         \* how many of the above happened
    restartAt,      \* history: frames sent when a host last took the room over
    renumberedAt    \* history: the same, when its numbers did not go on

pathVars == <<sent, numbered, outSequence, toRelay, lastForwarded, toViewer, tracker,
              first, newest, lost, vanished, breaks, restartAt, renumberedAt>>

NoSequence == -1
Half       == Modulus \div 2
Sequences  == 0..Modulus - 1
Frames     == 1..MaxSent
Packets    == [n : Frames, seq : Sequences \cup {NoSequence}]
Reset      == [n |-> 0, seq |-> NoSequence]
NoStats    == [last |-> NoSequence, accepted |-> 0, refused |-> 0, lost |-> 0]

PathTypeOK ==
    /\ sent \in 0..MaxSent /\ numbered \in BOOLEAN /\ outSequence \in Sequences
    /\ toRelay \in Seq(Packets) /\ toViewer \in Seq(Packets \cup {Reset})
    /\ lastForwarded \in Sequences \cup {NoSequence}
    /\ tracker \in [last : Sequences \cup {NoSequence},
                    accepted : Nat, refused : Nat, lost : Nat]
    /\ first \in 0..MaxSent /\ newest \in 0..MaxSent
    /\ lost \subseteq Frames /\ vanished \subseteq Frames
    /\ breaks \in 0..MaxBreaks /\ restartAt \in 0..MaxSent /\ renumberedAt \in 0..MaxSent

PathInit ==
    /\ sent = 0 /\ numbered \in BOOLEAN /\ outSequence = 0
    /\ toRelay = <<>> /\ lastForwarded = NoSequence /\ toViewer = <<>>
    /\ tracker = NoStats /\ first = 0 /\ newest = 0
    /\ lost = {} /\ vanished = {} /\ breaks = 0 /\ restartAt = 0 /\ renumberedAt = 0

Forward(from, to) == (to - from) % Modulus

IsNewer(from, to) == Forward(from, to) \in 1..Half - 1

NextSequence(sequence) == (sequence + 1) % Modulus

(***************************************************************************)
(* The host.                                                               *)
(***************************************************************************)
Break == breaks < MaxBreaks /\ breaks' = breaks + 1

\* flushLatest
HostSends ==
    /\ sent < MaxSent /\ Len(toRelay) < MaxFlight
    /\ sent' = sent + 1
    /\ toRelay' = Append(toRelay, [n   |-> sent + 1,
                                   seq |-> IF numbered THEN outSequence ELSE NoSequence])
    /\ outSequence' = NextSequence(outSequence)
    /\ UNCHANGED <<numbered, lastForwarded, toViewer, tracker, first, newest,
                   lost, vanished, breaks, restartAt, renumberedAt>>

\* A new process of the host binds the room while its viewers stay.
HostTakesOver ==
    /\ Break
    /\ restartAt' = sent /\ sent > 0
    /\ numbered' \in BOOLEAN
    /\ renumberedAt' = IF numbered' \/ renumberedAt > 0 THEN sent ELSE 0
    /\ outSequence' = 0
    /\ toRelay' = <<>>
    /\ vanished' = vanished \cup {toRelay[i].n : i \in DOMAIN toRelay}
    /\ UNCHANGED <<sent, lastForwarded, toViewer, tracker, first, newest, lost>>

(***************************************************************************)
(* The relay.                                                              *)
(***************************************************************************)
\* Mutant: frames without a number are all given the first one.
ResolveConstant(sequence) == IF sequence = NoSequence THEN 0 ELSE sequence

\* The sequence the relay forwards a frame with.
ResolveSequence(sequence) ==
    IF sequence # NoSequence THEN sequence
    ELSE IF lastForwarded = NoSequence THEN 0 ELSE NextSequence(lastForwarded)

\* forwardMotion, a token being left
RelayForwards ==
    /\ toRelay # <<>> /\ Len(toViewer) < MaxFlight
    /\ LET frame    == Head(toRelay)
           sequence == ResolveSequence(frame.seq)
       IN  /\ toViewer' = Append(toViewer, [frame EXCEPT !.seq = sequence])
           /\ lastForwarded' =
                 IF lastForwarded = NoSequence \/ IsNewer(lastForwarded, sequence)
                 THEN sequence ELSE lastForwarded
    /\ toRelay' = Tail(toRelay)
    /\ UNCHANGED <<sent, numbered, outSequence, tracker, first, newest,
                   lost, vanished, breaks, restartAt, renumberedAt>>

\* room:stop, or a removal of the viewer, who joins again
RelayResetsViewer ==
    /\ Break /\ Len(toViewer) < MaxFlight /\ toViewer' = Append(toViewer, Reset)
    /\ UNCHANGED <<sent, numbered, outSequence, toRelay, lastForwarded, tracker,
                   first, newest, lost, vanished, restartAt, renumberedAt>>

\* closeViewerSessions; a host, old or new, opens the room again.
RoomReopens ==
    /\ Break /\ Len(toViewer) < MaxFlight /\ toViewer' = Append(toViewer, Reset)
    /\ lastForwarded' = NoSequence
    /\ toRelay' = <<>> /\ restartAt' = sent
    /\ vanished' = vanished \cup {toRelay[i].n : i \in DOMAIN toRelay}
    /\ \/ UNCHANGED <<numbered, outSequence>>
       \/ numbered' \in BOOLEAN /\ outSequence' = 0
    /\ UNCHANGED <<sent, tracker, first, newest, lost, renumberedAt>>

(***************************************************************************)
(* Losses.                                                                 *)
(***************************************************************************)
\* At most MaxLoss frames in a row are lost, whichever is lost first.
MayLose(n) ==
    \A k \in n - MaxLoss..n :
        \E j \in k..k + MaxLoss : j # n /\ j \notin lost \cup vanished

\* Lost before the relay, or dropped there for want of a token.
LostBeforeRelay ==
    /\ toRelay # <<>> /\ MayLose(Head(toRelay).n)
    /\ toRelay' = Tail(toRelay)
    /\ IF numbered THEN lost' = lost \cup {Head(toRelay).n} /\ UNCHANGED vanished
                   ELSE vanished' = vanished \cup {Head(toRelay).n} /\ UNCHANGED lost
    /\ UNCHANGED <<sent, numbered, outSequence, lastForwarded, toViewer, tracker,
                   first, newest, breaks, restartAt, renumberedAt>>

LostAfterRelay ==
    /\ toViewer # <<>> /\ Head(toViewer) # Reset /\ MayLose(Head(toViewer).n)
    /\ toViewer' = Tail(toViewer)
    /\ lost' = lost \cup {Head(toViewer).n}
    /\ UNCHANGED <<sent, numbered, outSequence, toRelay, lastForwarded, tracker,
                   first, newest, vanished, breaks, restartAt, renumberedAt>>

(***************************************************************************)
(* The viewer.                                                             *)
(***************************************************************************)
\* MotionSequenceTracker.accept
Accept(sequence) ==
    IF tracker.last = NoSequence
    THEN [tracker EXCEPT !.last = sequence, !.accepted = @ + 1]
    ELSE IF IsNewer(tracker.last, sequence)
         THEN [tracker EXCEPT !.last = sequence, !.accepted = @ + 1,
                              !.lost = @ + Forward(tracker.last, sequence) - 1]
         ELSE [tracker EXCEPT !.refused = @ + 1]

FrameReachesViewer ==
    /\ toViewer # <<>> /\ Head(toViewer) # Reset
    /\ toViewer' = Tail(toViewer)
    /\ tracker' = Accept(Head(toViewer).seq)
    /\ IF tracker'.accepted > tracker.accepted
       THEN newest' = Head(toViewer).n /\ first' = IF first = 0 THEN newest' ELSE first
       ELSE UNCHANGED <<first, newest>>
    /\ UNCHANGED <<sent, numbered, outSequence, toRelay, lastForwarded,
                   lost, vanished, breaks, restartAt, renumberedAt>>

ResetReachesViewer ==
    /\ toViewer # <<>> /\ Head(toViewer) = Reset
    /\ toViewer' = Tail(toViewer)
    /\ tracker' = NoStats /\ first' = 0 /\ newest' = 0
    /\ UNCHANGED <<sent, numbered, outSequence, toRelay, lastForwarded,
                   lost, vanished, breaks, restartAt, renumberedAt>>

PathNext ==
    \/ HostSends \/ HostTakesOver
    \/ RelayForwards \/ RelayResetsViewer \/ RoomReopens
    \/ LostBeforeRelay \/ LostAfterRelay
    \/ FrameReachesViewer \/ ResetReachesViewer

PathSpec == PathInit /\ [][PathNext]_pathVars

(***************************************************************************)
(* Properties.                                                             *)
(***************************************************************************)
LostBetween(m, n) == Cardinality({k \in lost : m < k /\ k < n})

\* A viewer refuses no frame: what reaches it is newer than what it accepted
\* (relay-client.ts:53-94), also around the wrap of the sequence, across stops,
\* removals and a room that is opened again, and when a host without numbers
\* takes the room over.  The exception is a numbering host that takes over a
\* room whose viewers stay: it counts from zero again.
NewerFramesAccepted == tracker.refused > 0 => first <= renumberedAt

\* The viewer's lostFrames is the number of frames that were really lost
\* between the first and the last one it accepted of one host.
LossIsCounted ==
    first > restartAt =>
        tracker.lost = LostBetween(first, newest)

\* What a viewer plays and what it reports of its connection is right: it
\* refuses no frame and counts as lost what was lost, but for what
\* NewerFramesAccepted excepts.
FramesAreCounted == NewerFramesAccepted /\ LossIsCounted

\* Without the exception: no frame is dropped as a duplicate or out of order,
\* since none that arrives is either: the documents say that such frames are
\* removed (docs/IMPLEMENTATION_GUIDE.md:441), and that a host which ended
\* abnormally has a grace time to come back to its viewers
\* (docs/DEVELOPMENT_HANDOFF.md:78).  Violated: the host that comes back has a
\* new RelayClient, which numbers from zero (relay-client.ts:134), while
\* neither the relay nor the viewers' trackers begin anew.
NoFrameRefused == tracker.refused = 0

(***************************************************************************)
(* The inductive invariant of the proofs.                                  *)
(***************************************************************************)
\* Every frame up to this one was forwarded or is missing; the others wait.
Left == sent - Len(toRelay)

\* The number that a numbering host gave or will give to a frame.
NumberOf(n) == (outSequence - (sent + 1 - n)) % Modulus

AllMissing(m, n) == \A k \in m + 1..n - 1 : k \in lost \cup vanished

\* What the viewer accepted last and then what is on its way to it; a reset takes
\* the place of a chain that began before the numbers went wrong.
At(i) == IF i > 0 THEN toViewer[i]
         ELSE IF first > renumberedAt THEN [n |-> newest, seq |-> tracker.last]
         ELSE Reset

Way == 0..Len(toViewer)

\* Frames that wait for the relay have consecutive numbers.
WaitInTurn ==
    /\ renumberedAt <= restartAt /\ restartAt <= Left
    /\ lost \cup vanished \subseteq 1..Left
    /\ \A i \in DOMAIN toRelay :
          /\ toRelay[i].n = Left + i
          /\ toRelay[i].seq = IF numbered THEN NumberOf(Left + i) ELSE NoSequence
    /\ numbered => \A k \in vanished : k <= restartAt

\* Frames come to the viewer in order.
ComeInTurn ==
    /\ \A i \in Way : At(i) # Reset =>
          /\ At(i).n \in 1..Left /\ At(i).n \notin lost \cup vanished /\ At(i).seq \in Sequences
          /\ numbered /\ At(i).n > restartAt => At(i).seq = NumberOf(At(i).n)
    /\ \A i, j \in Way : i < j /\ At(i) # Reset /\ At(j) # Reset => At(i).n < At(j).n
    /\ \A i \in DOMAIN toViewer : toViewer[i] # Reset => newest < toViewer[i].n

\* The numbers of two frames are as far from each other as the frames lost between
\* them say, or less if a host without numbers came between.
FarApart(from, to, m, n) ==
    /\ Forward(from, to) <= LostBetween(m, n) + 1 /\ Forward(from, to) >= 1
    /\ m > restartAt => Forward(from, to) = LostBetween(m, n) + 1

NumbersFollow ==
    \A i, j \in Way : j = i + 1 /\ At(i) # Reset /\ At(j) # Reset =>
        /\ AllMissing(At(i).n, At(j).n)
        /\ At(i).n > renumberedAt => FarApart(At(i).seq, At(j).seq, At(i).n, At(j).n)

\* The frame that is forwarded next will continue them.
NextFollows ==
    LET end == At(Len(toViewer)) IN
    end # Reset =>
        /\ AllMissing(end.n, Left + 1) /\ lastForwarded # NoSequence
        /\ ~numbered /\ end.n > renumberedAt =>
              FarApart(end.seq, NextSequence(lastForwarded), end.n, Left + 1)

\* After the last reset there is no frame of an earlier host that numbered.
NumbersOfOneHost ==
    numbered => \A i \in Way :
        (\A j \in Way : j >= i => At(j) # Reset) /\ At(i).n > renumberedAt => At(i).n > restartAt

\* The relay remembers the number of the last frame it forwarded.
ForwardedLast ==
    numbered /\ renumberedAt = 0 /\ lastForwarded # NoSequence =>
        \E k \in restartAt + 1..Left :
            lastForwarded = NumberOf(k) /\ AllMissing(k, Left + 1)

\* At most MaxLoss frames of those missing in a row were lost.
LossIsBounded ==
    \A m, n \in 0..MaxSent + 1 : AllMissing(m, n) => LostBetween(m, n) <= MaxLoss

TrackerBegins ==
    /\ tracker.last = NoSequence <=> first = 0
    /\ first = 0 => newest = 0 /\ tracker.refused = 0 /\ tracker.lost = 0
    /\ first <= newest /\ newest <= Left

PathInv ==
    /\ PathTypeOK /\ TrackerBegins
    /\ WaitInTurn /\ ComeInTurn /\ NumbersFollow /\ NextFollows
    /\ NumbersOfOneHost /\ ForwardedLast /\ LossIsBounded
    /\ FramesAreCounted
=============================================================================
