----------------------------- MODULE DemoMotion -----------------------------
(***************************************************************************)
(* The motion a host makes itself (electron/services/                      *)
(* demo-motion-stream.ts): by hand, towards a target and no faster than a  *)
(* set speed, or by a pattern.  An interval timer publishes to the room    *)
(* and to the host's own device; the position survives stops and changes   *)
(* of the mode.                                                            *)
(*                                                                         *)
(* Positions are a few integers.  What a pattern plays at a given moment   *)
(* (demo-motion-pattern.ts and the entry ramp) may be any of them.         *)
(***************************************************************************)
EXTENDS Integers

CONSTANTS
    Positions,    \* an interval of integers
    Center,       \* the position that it starts from
    Intensities,  \* 0 is no motion
    Speeds,       \* the manual limit, in positions per interval of the timer
    DefaultSpeed  \* DEFAULT_MANUAL_MAX_POSITION_SPEED

ASSUME DemoAssumption ==
    /\ Positions \subseteq Int /\ \E low, high \in Positions : Positions = low..high
    /\ Center \in Positions /\ DefaultSpeed \in Speeds
    /\ 0 \in Intensities /\ Intensities \subseteq Nat
    /\ Speeds \subseteq Nat /\ 0 \notin Speeds

VARIABLES
    streaming,  \* whether the interval timer runs
    mode,
    target,     \* manualTarget
    pattern,    \* the intensity of the pattern that plays, or NoPattern
    latest,
    speed,      \* manualMaxPositionSpeed
    published   \* history: the last frame published

demoVars == <<streaming, mode, target, pattern, latest, speed, published>>

NoPattern == -1
Motions   == [intensity : Intensities, position : Positions]

DemoTypeOK ==
    /\ streaming \in BOOLEAN /\ mode \in {"manual", "pattern"}
    /\ target \in Motions /\ latest \in Motions /\ published \in Motions
    /\ pattern \in Intensities \cup {NoPattern} /\ speed \in Speeds

DemoInit ==
    /\ streaming = FALSE /\ mode = "manual" /\ pattern = NoPattern
    /\ latest = [intensity |-> 0, position |-> Center]
    /\ target = latest /\ published = latest
    /\ speed = DefaultSpeed

Distance(p, q) == IF p < q THEN q - p ELSE p - q

\* Mutant: a manual frame is the target itself.
StepAtOnce(to) == to.position

\* At most speed from the latest position towards the target.
Step(to) ==
    LET p == latest.position IN
    CASE Distance(p, to.position) <= speed -> to.position
      [] to.position > p + speed           -> p + speed
      [] to.position < p - speed           -> p - speed

PublishManual(to) ==
    /\ latest' = [intensity |-> to.intensity, position |-> Step(to)]
    /\ published' = latest'

PublishSafeStop == published' = [intensity |-> 0, position |-> latest.position]

Transition(next) == streaming /\ mode # next

(***************************************************************************)
(* Operations.                                                             *)
(***************************************************************************)
\* start: a running pattern is stopped first, and the first step is the timer's.
StartManual(next) ==
    /\ streaming' = TRUE /\ mode' = "manual" /\ pattern' = NoPattern /\ target' = next
    /\ IF Transition("manual") THEN PublishSafeStop /\ UNCHANGED latest
                               ELSE PublishManual(next)
    /\ UNCHANGED speed

UpdateManual(next) ==
    /\ streaming /\ mode = "manual"
    /\ target' = next
    /\ UNCHANGED <<streaming, mode, pattern, latest, speed, published>>

StartPattern(intensity) ==
    /\ streaming' = TRUE /\ mode' = "pattern" /\ pattern' = intensity
    /\ latest' = [latest EXCEPT !.intensity = intensity]
    /\ IF Transition("pattern") THEN PublishSafeStop ELSE published' = latest'
    /\ UNCHANGED <<target, speed>>

UpdatePattern(intensity) ==
    /\ streaming /\ mode = "pattern"
    /\ pattern' = intensity
    /\ UNCHANGED <<streaming, mode, target, latest, speed, published>>

Stop ==
    /\ streaming /\ streaming' = FALSE /\ pattern' = NoPattern
    /\ PublishSafeStop
    /\ UNCHANGED <<mode, target, latest, speed>>

SetSpeed(s) == speed' = s /\ UNCHANGED <<streaming, mode, target, pattern, latest, published>>

\* The interval timer's callback; the position of a pattern is calculated.
TimerPublishes ==
    /\ streaming
    /\ \/ mode = "manual" /\ PublishManual(target)
       \/ /\ mode = "pattern" /\ pattern # NoPattern
          /\ \E p \in Positions : latest' = [intensity |-> pattern, position |-> p]
          /\ published' = latest'
    /\ UNCHANGED <<streaming, mode, target, pattern, speed>>

DemoNext ==
    \/ \E next \in Motions : StartManual(next) \/ UpdateManual(next)
    \/ \E intensity \in Intensities : StartPattern(intensity) \/ UpdatePattern(intensity)
    \/ Stop
    \/ \E s \in Speeds : SetSpeed(s)
    \/ TimerPublishes

DemoSpec == DemoInit /\ [][DemoNext]_demoVars

(***************************************************************************)
(* Properties.                                                             *)
(***************************************************************************)
\* While no timer runs the last thing the room and the device were told is to
\* stop, and by hand no frame is further from the one before it - whichever
\* mode, stop or target published that - than the speed limit allows
\* (demo-motion-stream.ts:73-80, 91-99, 134-142).
StopsAndSteps ==
    [][/\ ~streaming' => published'.intensity = 0
       /\ mode' = "manual" => Distance(published.position, published'.position) <= speed]_demoVars

(***************************************************************************)
(* The inductive invariant of the proofs.                                  *)
(***************************************************************************)
\* Whatever was published last was published at the position that the next step
\* goes out from, and while no timer runs it was a stop.
DemoInv ==
    /\ DemoTypeOK
    /\ published.position = latest.position
    /\ ~streaming => published.intensity = 0
=============================================================================
