------------------------------- MODULE Shutdown -------------------------------
(***************************************************************************)
(* How the application ends (window-all-closed, before-quit, activate and  *)
(* shutdownApplication of electron/main.ts): the last window is closed, or *)
(* the user or the system quits while one is open.  The demo and the room  *)
(* end, the device is stopped and disconnected and the log is flushed; the *)
(* first request to quit is held back until then.                          *)
(*                                                                         *)
(* A window that is open meanwhile is served as ever.  On a Mac the        *)
(* shutdown of the last window does not quit, and another window may be    *)
(* opened while it is under way.  Of the hardware there is its queue of    *)
(* operations, modelled in HardwareController, and whether the last        *)
(* command that was tried is a stop; that of the log is in DiagnosticLog.  *)
(***************************************************************************)
EXTENDS Naturals, SequencesExt

CONSTANT MaxTasks  \* bound: a window asks for no more while so many wait

ASSUME ShutdownAssumption == MaxTasks \in Nat

VARIABLES
    onMac,
    opened,     \* there is a window
    inRoom, demoRuns,
    device,     \* disconnected, or what the last command to it was
    frameWaits, \* an accepted frame is not written yet
    tasks,      \* the lifecycle operations of the hardware; the head's runs
    awaited,    \* how many of them end before shutdownApplication goes on
    shutdown,   \* what shutdownApplication awaits
    quitting,   \* quitAfterShutdown
    gone,       \* the process has ended
    late        \* history: a window made a request since the shutdown began

shutdownVars == <<onMac, opened, inRoom, demoRuns, device, frameWaits, tasks,
                  awaited, shutdown, quitting, gone, late>>

Kinds == {"room-exit", "disconnect", "connect"}

ShutdownTypeOK ==
    /\ {onMac, opened, inRoom, demoRuns, frameWaits, quitting, gone, late} \subseteq BOOLEAN
    /\ device \in {"disconnected", "stopped", "moved"}
    /\ tasks \in Seq(Kinds) /\ awaited \in 0..Len(tasks)
    /\ shutdown \in {"none", "stop", "disconnect", "flush"}

ShutdownInit ==
    /\ onMac \in BOOLEAN /\ opened = TRUE
    /\ inRoom = FALSE /\ demoRuns = FALSE
    /\ device = "disconnected" /\ frameWaits = FALSE
    /\ tasks = <<>> /\ awaited = 0
    /\ shutdown = "none" /\ quitting = FALSE /\ gone = FALSE /\ late = FALSE

(***************************************************************************)
(* The hardware.                                                           *)
(***************************************************************************)
\* Mutant: an operation is shared although another was asked for since.
AskSharingAny(kind) ==
    LET same == SelectInSeq(tasks, LAMBDA task : task = kind) IN
    /\ tasks' = IF same = 0 THEN Append(tasks, kind) ELSE tasks
    /\ awaited' = IF same = 0 THEN Len(tasks) + 1 ELSE same

\* stopForRoomExit, disconnect and connect: the operation asked for last is
\* shared while it is not over.  awaited' is for who awaits it.
Ask(kind) ==
    /\ tasks' = IF tasks # <<>> /\ Last(tasks) = kind THEN tasks ELSE Append(tasks, kind)
    /\ awaited' = Len(tasks')

\* A window's request; shutdownApplication awaits what it did.
AskFor(kind) ==
    /\ tasks' = IF tasks # <<>> /\ Last(tasks) = kind THEN tasks ELSE Append(tasks, kind)
    /\ UNCHANGED awaited

\* Output is shut while a stop or a disconnect waits or runs.
MotionComes ==
    /\ ~gone /\ (inRoom \/ demoRuns)
    /\ device # "disconnected" /\ \A i \in DOMAIN tasks : tasks[i] = "connect"
    /\ frameWaits' = TRUE
    /\ UNCHANGED <<onMac, opened, inRoom, demoRuns, device, tasks, awaited,
                   shutdown, quitting, gone, late>>

MotionIsWritten ==
    /\ ~gone /\ frameWaits /\ frameWaits' = FALSE /\ device' = "moved"
    /\ UNCHANGED <<onMac, opened, inRoom, demoRuns, tasks, awaited, shutdown,
                   quitting, gone, late>>

\* An operation ends.  A disconnect that fails has tried the stop; a connect
\* begins with a disconnect.
TaskEnds ==
    /\ ~gone /\ tasks # <<>>
    /\ tasks' = Tail(tasks)
    /\ awaited' = IF awaited = 0 THEN 0 ELSE awaited - 1
    /\ device' \in (IF device # "disconnected" \/ Head(tasks) = "connect"
                    THEN {"stopped"} ELSE {})
                   \cup (IF device # "disconnected" /\ Head(tasks) = "room-exit"
                         THEN {} ELSE {"disconnected"})
    /\ frameWaits' = FALSE
    /\ UNCHANGED <<onMac, opened, inRoom, demoRuns, shutdown, quitting, gone, late>>

DeviceUnplugged ==
    /\ ~gone /\ device # "disconnected"
    /\ device' = "disconnected" /\ frameWaits' = FALSE
    /\ UNCHANGED <<onMac, opened, inRoom, demoRuns, tasks, awaited, shutdown,
                   quitting, gone, late>>

(***************************************************************************)
(* A window's requests, and the relay's removal from the room.             *)
(***************************************************************************)
Served == ~gone /\ opened /\ late' = (late \/ shutdown # "none")

AskHardware ==
    /\ Served /\ Len(tasks) < MaxTasks
    /\ \E kind \in {"connect", "disconnect"} :
          AskFor(kind) /\ frameWaits' = (frameWaits /\ kind = "connect")
    /\ UNCHANGED <<onMac, opened, inRoom, demoRuns, device, shutdown, quitting, gone>>

\* motion-demo:start; room:start-host or room:join is answered
EnterOrStart ==
    /\ Served
    /\ \/ ~inRoom /\ inRoom' = TRUE /\ UNCHANGED demoRuns
       \/ ~demoRuns /\ demoRuns' = TRUE /\ UNCHANGED inRoom
    /\ UNCHANGED <<onMac, opened, device, frameWaits, tasks, awaited, shutdown,
                   quitting, gone>>

\* room:disconnect, and viewer:removed, which lets the demo run on
RoomEnds ==
    /\ ~gone /\ Len(tasks) < MaxTasks
    /\ inRoom /\ inRoom' = FALSE
    /\ \/ Served /\ demoRuns' = FALSE
       \/ UNCHANGED <<demoRuns, late>>
    /\ AskFor("room-exit") /\ frameWaits' = FALSE
    /\ UNCHANGED <<onMac, opened, device, shutdown, quitting, gone>>

(***************************************************************************)
(* The end.                                                                *)
(***************************************************************************)
\* shutdownApplication up to its first await; one that is under way is shared.
ShutDown ==
    IF shutdown # "none"
    THEN UNCHANGED <<inRoom, demoRuns, device, frameWaits, tasks, awaited, shutdown, late>>
    ELSE /\ demoRuns' = FALSE /\ inRoom' = FALSE
         /\ frameWaits' = FALSE /\ late' = FALSE
         /\ IF inRoom THEN Ask("room-exit") /\ shutdown' = "stop"
                      ELSE Ask("disconnect") /\ shutdown' = "disconnect"
         /\ UNCHANGED device

\* window-all-closed: elsewhere than on a Mac it asks to quit.
LastWindowCloses ==
    /\ ~gone /\ opened /\ opened' = FALSE
    /\ ShutDown
    /\ quitting' = (quitting \/ ~onMac)
    /\ UNCHANGED <<onMac, gone>>

\* activate
ReopenWindow ==
    /\ ~gone /\ onMac /\ ~opened /\ opened' = TRUE
    /\ UNCHANGED <<onMac, inRoom, demoRuns, device, frameWaits, tasks, awaited,
                   shutdown, quitting, gone, late>>

\* before-quit, the first time
Quit ==
    /\ ~gone /\ ~quitting /\ quitting' = TRUE
    /\ ShutDown
    /\ UNCHANGED <<onMac, opened, gone>>

StopEnds ==
    /\ ~gone /\ shutdown = "stop" /\ awaited = 0
    /\ shutdown' = "disconnect" /\ Ask("disconnect") /\ frameWaits' = FALSE
    /\ UNCHANGED <<onMac, opened, inRoom, demoRuns, device, quitting, gone, late>>

DisconnectEnds ==
    /\ ~gone /\ shutdown = "disconnect" /\ awaited = 0
    /\ shutdown' = "flush"
    /\ UNCHANGED <<onMac, opened, inRoom, demoRuns, device, frameWaits, tasks,
                   awaited, quitting, gone, late>>

\* The flush ends or takes too long; before-quit's app.quit closes the windows.
FlushEnds ==
    /\ ~gone /\ shutdown = "flush"
    /\ shutdown' = "none" /\ gone' = quitting /\ opened' = (opened /\ ~quitting)
    /\ UNCHANGED <<onMac, inRoom, demoRuns, device, frameWaits, tasks, awaited,
                   quitting, late>>

ShutdownNext ==
    \/ MotionComes \/ MotionIsWritten \/ TaskEnds \/ DeviceUnplugged
    \/ AskHardware \/ EnterOrStart \/ RoomEnds
    \/ LastWindowCloses \/ ReopenWindow \/ Quit
    \/ StopEnds \/ DisconnectEnds \/ FlushEnds

ShutdownSpec == ShutdownInit /\ [][ShutdownNext]_shutdownVars

(***************************************************************************)
(* Properties.                                                             *)
(***************************************************************************)
\* Whenever and however the application is quit - from a room or not, with
\* operations of the hardware waiting, from a shutdown that is under way - it
\* ends with nothing under way: the last command that was tried on the device
\* is a stop, the hardware's operations are over, no room is left behind.
\* Excepted is what a window asked for while the shutdown went on, which main
\* serves and shutdownApplication does not look at again (main.ts:358-379,
\* 706-733).
QuitLeavesNothing ==
    gone => late \/ (device # "moved" /\ tasks = <<>> /\ ~inRoom /\ ~demoRuns)

(***************************************************************************)
(* The inductive invariant of the proofs.                                  *)
(***************************************************************************)
\* While a shutdown goes on and no window makes a request, nothing can move the
\* device: no source of motion is left and no frame waits, and what moved the
\* device before is stopped by an operation that still waits.
NothingMoves ==
    /\ ~inRoom /\ ~demoRuns /\ ~frameWaits
    /\ tasks # <<>> \/ device # "moved"

\* It awaits all of the hardware's operations.
AllAwaited ==
    /\ shutdown # "flush" => awaited = Len(tasks)
    /\ shutdown = "flush" => tasks = <<>>

ShutdownInv ==
    /\ ShutdownTypeOK
    /\ shutdown # "none" /\ ~late => NothingMoves /\ AllAwaited
    /\ QuitLeavesNothing
=============================================================================
