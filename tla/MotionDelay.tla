----------------------------- MODULE MotionDelay -----------------------------
(***************************************************************************)
(* A viewer plays the frames it receives a fixed delay after they came     *)
(* (electron/services/motion-delay-buffer.ts), with one sampling timer     *)
(* that electron/services/relay-client.ts arms and re-arms.  Between two   *)
(* frames that are close to each other a sample is interpolated.           *)
(*                                                                         *)
(* Time is counted in coarse units.  A timer fires at its due time or up   *)
(* to MaxLate later, as Node's timers do, so a sample rarely meets the     *)
(* very moment a frame was received.  A frame is its serial number and the *)
(* time it was received; its positions are left out.                       *)
(***************************************************************************)
EXTENDS Integers, Sequences, FiniteSetsExt

CONSTANTS
    Delays,       \* the delays the user may set; 0 plays at once
    Interval,     \* MOTION_PLAYBACK_INTERVAL_MS
    MaxGap,       \* MAX_INTERPOLATION_GAP_MS
    MaxFrames,    \* capacity of the buffer
    MaxLate,      \* how late a timer may fire
    LastArrival,  \* bound on the time at which frames arrive
    MaxReceived,  \* bound on the frames that arrive
    Horizon       \* bound on the time

ASSUME DelayAssumption ==
    /\ Delays \subseteq Nat /\ 0 \in Delays
    /\ Interval \in Nat \ {0} /\ MaxGap \in Nat \ {0} /\ MaxFrames \in Nat \ {0} /\ MaxLate \in Nat
    /\ LastArrival \in Nat /\ MaxReceived \in Nat /\ Horizon \in Nat

VARIABLES
    now,         \* performance.now()
    delay,       \* motionDelayMs
    entries,     \* the buffered frames, [n, at], oldest first
    lastTarget,  \* lastSampleTargetMs, or Never
    emitted,     \* serial of lastEmittedRealEntry, or 0
    playTimer,   \* when incomingMotionTimer is due, or Never
    received,    \* history: frames received so far
    played       \* history: the last frame handed to onMotion

bufferVars == <<now, delay, entries, lastTarget, emitted, playTimer, received, played>>

Never == -1

Times == 0..Horizon

BufferTypeOK ==
    /\ now \in Times /\ delay \in Delays
    /\ entries \in Seq([n : Nat \ {0}, at : Times]) /\ Len(entries) <= MaxFrames
    /\ lastTarget \in Int /\ emitted \in Nat
    /\ playTimer \in Nat \cup {Never}
    /\ received \in 0..MaxReceived
    /\ played \in [n : Nat, at : Int, real : BOOLEAN]

BufferInit ==
    /\ now = 0 /\ delay = 0 /\ entries = <<>> /\ lastTarget = Never
    /\ emitted = 0 /\ playTimer = Never
    /\ received = 0 /\ played = [n |-> 0, at |-> Never, real |-> FALSE]

Newest == entries[Len(entries)]

(***************************************************************************)
(* The sample that is played at time t of the received frames.             *)
(***************************************************************************)
\* The first frame received at t, or else the last one before it; 0 if none.
Before(t) ==
    LET same    == {i \in DOMAIN entries : entries[i].at = t}
        earlier == {i \in DOMAIN entries : entries[i].at < t}
    IN  IF same # {} THEN Min(same) ELSE Max(earlier \cup {0})

\* Two frames too far apart give nothing; else one that moves on to the next.
InterpolateMotionFrame(previous, next, t) ==
    {f \in {[n |-> next.n, at |-> t, real |-> FALSE]} : next.at - previous.at <= MaxGap}

\* A real frame is handed on once.
Sample(t) ==
    LET b == Before(t) IN
    IF b = 0 THEN {}
    ELSE IF b = Len(entries) \/ entries[b].at = t
         THEN {f \in {[n |-> entries[b].n, at |-> entries[b].at, real |-> TRUE]} :
                  f.n # emitted}
         ELSE InterpolateMotionFrame(entries[b], entries[b + 1], t)

\* When the next sample of the buffer is due (now + nextSampleWaitMs).
NextSample(buffer, shown) ==
    LET target == now - delay IN
    IF buffer = <<>> THEN Never
    ELSE IF target < Head(buffer).at THEN now + (Head(buffer).at - target)
    ELSE IF target < buffer[Len(buffer)].at THEN now + Interval
    ELSE IF buffer[Len(buffer)].n # shown THEN now
    ELSE Never

(***************************************************************************)
(* Actions.                                                                *)
(***************************************************************************)
Tick ==
    /\ now < Horizon /\ now' = now + 1
    /\ playTimer # Never => now' <= playTimer + MaxLate
    /\ UNCHANGED <<delay, entries, lastTarget, emitted, playTimer, received, played>>

\* enqueue: the buffer keeps the newest frames; a running timer is kept.
FrameArrives ==
    /\ now <= LastArrival /\ received < MaxReceived
    /\ received' = received + 1
    /\ \/ /\ delay = 0
          /\ played' = [n |-> received + 1, at |-> now, real |-> TRUE]
          /\ UNCHANGED <<entries, playTimer>>
       \/ /\ delay # 0
          /\ LET added == Append(entries, [n |-> received + 1, at |-> now])
             IN  entries' = IF Len(added) > MaxFrames THEN Tail(added) ELSE added
          /\ playTimer' = IF playTimer # Never THEN playTimer
                          ELSE NextSample(entries', emitted)
          /\ UNCHANGED played
    /\ UNCHANGED <<now, delay, lastTarget, emitted>>

\* sample: frames before the one that is still needed are dropped; then the
\* timer is armed again.
PlayTimerFires ==
    /\ playTimer # Never /\ playTimer <= now
    /\ LET target == now - delay IN
       IF lastTarget # Never /\ target <= lastTarget
       THEN UNCHANGED <<entries, lastTarget, emitted, played>>
       ELSE /\ lastTarget' = target
            /\ entries' = SubSeq(entries, Max({1, Before(target)}), Len(entries))
            /\ \/ Sample(target) = {} /\ UNCHANGED <<emitted, played>>
               \/ /\ played' \in Sample(target)
                  /\ emitted' = IF played'.real THEN played'.n ELSE emitted
    /\ playTimer' = NextSample(entries', emitted')
    /\ UNCHANGED <<now, delay, received>>

\* Mutant: what was played is forgotten, what was received is not.
EmptyBufferKeepingFrames ==
    UNCHANGED entries /\ lastTarget' = Never /\ emitted' = 0 /\ playTimer' = Never

\* clearDelayedMotion
EmptyBuffer == entries' = <<>> /\ lastTarget' = Never /\ emitted' = 0 /\ playTimer' = Never

\* setMotionDelay: a new delay starts over.
ChangeDelay ==
    /\ \E d \in Delays \ {delay} : delay' = d
    /\ EmptyBuffer
    /\ UNCHANGED <<now, received, played>>

\* A stop, a removal, a lost connection or a new session clears what waits.
ClearBuffer ==
    /\ entries # <<>> /\ EmptyBuffer
    /\ UNCHANGED <<now, delay, received, played>>

BufferNext == Tick \/ FrameArrives \/ PlayTimerFires \/ ChangeDelay \/ ClearBuffer

BufferSpec ==
    BufferInit /\ [][BufferNext]_bufferVars
    /\ WF_bufferVars(Tick) /\ WF_bufferVars(PlayTimerFires)

(***************************************************************************)
(* Properties.                                                             *)
(***************************************************************************)
\* What sample hands to the device never goes back: neither to an earlier
\* moment of what was received nor to an earlier frame, nor after others to a
\* received frame it has had, whatever changes of the delay and clears come
\* between (motion-delay-buffer.ts:91-131, relay-client.ts:515-528).
PlaybackGoesForward ==
    [][played' # played =>
          /\ played'.at >= played.at
          /\ played'.n >= played.n
          /\ played'.real /\ played.real => played'.n > played.n]_bufferVars

\* The newest received frame - the one that holds the device's last position,
\* a safe stop for instance - is played in the end, unless what waits is
\* cleared: the timer chain of scheduleDelayedMotion does not end before
\* (motion-delay-buffer.ts:51-89, relay-client.ts:515-528).
NewestFramePlayed == entries # <<>> ~> entries = <<>> \/ emitted = Newest.n

\* Received frames are handed to the device in turn, and the newest in the end.
FramesPlayInTurn == PlaybackGoesForward /\ NewestFramePlayed

\* docs/superpowers/specs/2026-08-17-viewer-motion-interpolation-design.md:57:
\* after a gap too long to interpolate, the app "delivers the newer real frame
\* when its playback time becomes due": playback should not pass such a frame
\* without handing anything on.  It does if another gap follows at once.
FrameAfterGapDelivered ==
    [][\A i \in 2..Len(entries) :
          /\ entries[i].at - entries[i - 1].at > MaxGap
          /\ lastTarget' # lastTarget
          /\ entries' # <<>> /\ Head(entries').n = entries[i].n
          => played' # played]_bufferVars

(***************************************************************************)
(* The inductive invariant of the proofs.                                  *)
(***************************************************************************)
\* Frames are buffered in the order they were received in; none waits without a
\* delay.
EntriesInOrder ==
    /\ \A i \in DOMAIN entries : entries[i].n <= received /\ entries[i].at <= now
    /\ \A i, j \in DOMAIN entries :
          i < j => entries[i].n < entries[j].n /\ entries[i].at <= entries[j].at
    /\ delay = 0 => entries = <<>>

\* A buffered frame is still to be played, ...
StillToPlay(i) ==
    /\ played.n <= entries[i].n /\ played.at <= entries[i].at
    /\ played.real => played.n < entries[i].n

\* ... or it is the one the samples have reached: what comes next lies between it
\* and the next one, and it was handed on if there is none.
Reached(i) ==
    /\ i = 1 /\ lastTarget # Never
    /\ entries[i].at <= lastTarget /\ played.at <= lastTarget
    /\ Len(entries) = 1 => emitted = entries[i].n

BufferInv ==
    /\ BufferTypeOK
    /\ EntriesInOrder
    /\ played.n <= received /\ played.at <= now
    /\ \A i \in DOMAIN entries : StillToPlay(i) \/ Reached(i)
=============================================================================
