----------------------------- MODULE OutputRange -----------------------------
(***************************************************************************)
(* What a device is told, and the settings it depends on: the stroke       *)
(* control and the protection panel of the window, the checks on their way *)
(* to the hardware controller, its transformation of a frame, and the      *)
(* numbers of a T-Code command.                                            *)
(*                                                                         *)
(* Settings, intensities and positions are in units of 1/Full; the         *)
(* transformations keep their products exact instead of rounding them as   *)
(* floats do.  A command's magnitude is the code's.  A protection that is   *)
(* paused lets no frame pass; HardwareController has that.                 *)
(***************************************************************************)
EXTENDS Integers

CONSTANTS
    Full,   \* 100 percent
    Limits  \* what intensityLimit is set to

ASSUME RangeAssumption ==
    Full \in Nat \ {0, 1} /\ Limits \subseteq 0..Full /\ Full \in Limits

VARIABLES
    shown,           \* hardwareProfile of the window
    settingsPending, \* the settings of the start are on their way
    connected,
    profile,         \* the controller's, set by connect
    protection,      \* the controller's
    queued,          \* latestFrame, after the protection
    command          \* what the step told the device, and its frame's limit

rangeVars == <<shown, settingsPending, connected, profile, protection, queued, command>>

Percents   == 0..Full
Profile    == [min : Percents, max : Percents, stop : Percents, invert : BOOLEAN]
Protection == [limit : Limits, low : Percents, high : Percents]

\* the number of four digits
Largest == 9999

QueuedFrames   == [position : -1..Full * Full, intensity : Percents, limit : Percents]
DeviceCommands == [magnitude : -1..Largest, intensity : Percents, limit : Percents]

ValidProfile(p)    == p.min < p.max /\ p.min <= p.stop /\ p.stop <= p.max
ValidProtection(p) == p.low < p.high

DefaultProtection == [limit |-> Full, low |-> 0, high |-> Full]
FullStroke        == [min |-> 0, max |-> Full, stop |-> 0, invert |-> FALSE]

NoFrame   == [position |-> -1, intensity |-> 0, limit |-> 0]
NoCommand == [magnitude |-> -1, intensity |-> 0, limit |-> 0]

RangeTypeOK ==
    /\ shown \in Profile /\ profile \in Profile /\ protection \in Protection
    /\ settingsPending \in BOOLEAN /\ connected \in BOOLEAN
    /\ queued \in QueuedFrames /\ command \in DeviceCommands

RangeInit ==
    /\ shown = FullStroke /\ profile = FullStroke /\ protection = DefaultProtection
    /\ settingsPending = TRUE /\ connected = FALSE
    /\ queued = NoFrame /\ command = NoCommand

Least(a, b)    == IF a < b THEN a ELSE b
Greatest(a, b) == IF a < b THEN b ELSE a
Clamped(v, low, high) == Greatest(low, Least(high, v))

(***************************************************************************)
(* The window.                                                             *)
(***************************************************************************)
\* Mutant: the handles may meet.
RangesThatMeet(r, handle, requested) ==
    LET value == Clamped(requested, 0, Full)
        min   == IF handle = "min" THEN Least(value, r.max) ELSE r.min
        max   == IF handle = "max" THEN Greatest(value, r.min) ELSE r.max
    IN  [min |-> min, max |-> max, stop |-> Clamped(r.stop, min, max)]

\* Whatever is typed or dragged, the range keeps a width and holds the stop.
UpdateMotionRange(r, handle, requested) ==
    LET value == Clamped(requested, 0, Full)
        wide  == CASE r.min < r.max                   -> r
                   [] r.min >= r.max /\ r.min = Full  -> [r EXCEPT !.min = Full - 1, !.max = Full]
                   [] r.min >= r.max /\ r.min # Full  -> [r EXCEPT !.max = r.min + 1]
        min   == IF handle = "min" THEN Least(value, wide.max - 1) ELSE wide.min
        max   == IF handle = "max" THEN Greatest(value, min + 1) ELSE wide.max
    IN  [min |-> min, max |-> max, stop |-> Clamped(r.stop, min, max)]

\* updateProfileValue
Patched(p, min, max, stop) ==
    [p EXCEPT !.min = min, !.max = max, !.stop = Clamped(stop, Least(min, max), Greatest(min, max))]

InWindow == UNCHANGED <<settingsPending, connected, profile, protection, queued>> /\ command' = NoCommand

\* The fields and both sliders of the range.
ChangeRange(handle, requested) ==
    /\ ~connected
    /\ LET stop == Clamped(shown.stop, shown.min, shown.max)
           next == UpdateMotionRange([min |-> shown.min, max |-> shown.max, stop |-> stop],
                                     handle, requested)
       IN  shown' = Patched(shown, next.min, next.max, next.stop)
    /\ InWindow

\* The slider of the stop position goes from the minimum to the maximum.
ChangeStop ==
    /\ ~connected
    /\ \E stop \in shown.min..shown.max : shown' = Patched(shown, shown.min, shown.max, stop)
    /\ InWindow

ChangeInversion == ~connected /\ shown' = [shown EXCEPT !.invert = ~@] /\ InWindow

\* The settings at the start, or at a press while no device is connected; what
\* the store holds was valid when it was saved.  Of the protections it may hold
\* these are enough: SetProtection reaches the others.
LoadSettings ==
    /\ settingsPending \/ ~connected
    /\ \E p \in Profile : ValidProfile(p) /\ shown' = p
    /\ protection' \in {protection, DefaultProtection}
    /\ settingsPending' = FALSE /\ command' = NoCommand
    /\ UNCHANGED <<connected, profile, queued>>

(***************************************************************************)
(* The controller.                                                         *)
(***************************************************************************)
\* setProtection; the main process lets no other values through.
SetProtection(guard) ==
    /\ ValidProtection(guard)
    /\ protection' = guard /\ command' = NoCommand
    /\ UNCHANGED <<shown, settingsPending, connected, profile, queued>>

NormalizedProfile(p) ==
    [p EXCEPT !.stop = Clamped(p.stop, Least(p.min, p.max), Greatest(p.min, p.max))]

Connect ==
    /\ ~connected /\ ValidProfile(shown)
    /\ connected' = TRUE /\ profile' = NormalizedProfile(shown)
    /\ queued' = NoFrame /\ command' = NoCommand
    /\ UNCHANGED <<shown, settingsPending, protection>>

\* A frame keeps the limit that it was accepted under; its position is in units
\* of 1 / Full^2.
Protected(position, intensity) ==
    [limit |-> protection.limit, intensity |-> Least(intensity, protection.limit),
     position |-> protection.low * Full + position * (protection.high - protection.low)]

QueueMotion(position, intensity) ==
    /\ connected
    /\ queued' = Protected(position, intensity)
    /\ command' = NoCommand
    /\ UNCHANGED <<shown, settingsPending, connected, profile, protection>>

\* applyProfile, in units of 1 / Full^3.
Profiled(position) ==
    LET at == IF profile.invert THEN Full * Full - position ELSE position
    IN  profile.min * Full * Full + at * (profile.max - profile.min)

\* encodeAxis: four digits, rounded half up.
Magnitude(value, unit) == Least(Largest, (2 * 10000 * value + unit) \div (2 * unit))

Command(frame) ==
    [magnitude |-> Magnitude(Profiled(frame.position), Full * Full * Full),
     intensity |-> frame.intensity, limit |-> frame.limit]

Output == queued' = NoFrame /\ UNCHANGED <<shown, settingsPending, profile, protection>>

FlushLatest ==
    /\ connected /\ queued # NoFrame
    /\ command' = Command(queued)
    /\ Output /\ UNCHANGED connected

\* A step of the test pattern; the pattern starts by clearing what waits.
TestPosition(position, intensity) ==
    /\ connected
    /\ command' = Command(Protected(position, intensity))
    /\ Output /\ UNCHANGED connected

\* encodeTCodeStop: DSTOP, and a command to the stop position.
StopCommand == [magnitude |-> Magnitude(profile.stop, Full), intensity |-> 0, limit |-> 0]

\* A disconnect sends it too.
WriteStopPayload ==
    /\ connected
    /\ command' = StopCommand
    /\ Output /\ connected' \in BOOLEAN

RangeNext ==
    \/ \E handle \in {"min", "max"}, requested \in -1..Full + 1 : ChangeRange(handle, requested)
    \/ ChangeStop \/ ChangeInversion \/ LoadSettings
    \/ \E guard \in Protection : SetProtection(guard)
    \/ Connect \/ FlushLatest \/ WriteStopPayload
    \/ \E position \in Percents, intensity \in {0, Full} :
          QueueMotion(position, intensity) \/ TestPosition(position, intensity)

RangeSpec == RangeInit /\ [][RangeNext]_rangeVars

(***************************************************************************)
(* Properties.                                                             *)
(***************************************************************************)
\* Whatever is typed, dragged, loaded, applied and connected in between: the
\* range shown is one that connect accepts and that holds the stop position
\* shown with it, and a device is told no position outside the stroke it was
\* connected with, nor more intensity than the limit in force when the frame
\* was accepted (hardware-settings-values.ts:28-50, hardware-controller.ts:
\* 1390-1439, app-settings.ts:81-105).
CommandsInRange ==
    /\ ValidProfile(shown)
    /\ command # NoCommand =>
          /\ command.magnitude >= Magnitude(profile.min, Full)
          /\ command.magnitude <= Magnitude(profile.max, Full)
          /\ command.intensity <= command.limit

(***************************************************************************)
(* The inductive invariant of the proofs.                                  *)
(***************************************************************************)
\* The settings the controller works with are valid, and a frame that waits is
\* within the range and the limit it was accepted under.
RangeInv ==
    /\ RangeTypeOK
    /\ ValidProfile(profile) /\ ValidProtection(protection)
    /\ queued # NoFrame => queued.position >= 0 /\ queued.intensity <= queued.limit
    /\ CommandsInRange
=============================================================================
