----------------------------- MODULE OutputGate -----------------------------
(***************************************************************************)
(* What the desktop application promises about a device that can move: the *)
(* abstract specification of HardwareController.  No ports, writes, queues *)
(* or timers: only whether movement is latched off, admitted, pending and  *)
(* what the device was last told.                                          *)
(***************************************************************************)
VARIABLES
    latched,    \* the emergency stop is latched
    admitting,  \* a device is ready and no lifecycle operation is in the way
    pending,    \* a movement was accepted and is not written yet
    moving      \* the last command the device was handed is a movement

vars == <<latched, admitting, pending, moving>>

Init == ~latched /\ ~admitting /\ ~pending /\ ~moving

\* A stop, or the loss of the device: nothing is left of what was accepted.
Latch ==
    /\ latched' = TRUE
    /\ pending' = FALSE
    /\ moving' = FALSE
    /\ UNCHANGED admitting

\* The latch is released by the user, and brings nothing back.
Release ==
    /\ latched' = FALSE
    /\ UNCHANGED <<admitting, pending, moving>>

\* A disconnect, connect or room exit is requested, or the device is lost.
Close ==
    /\ admitting
    /\ admitting' = FALSE
    /\ latched => latched'
    /\ pending' => pending
    /\ moving' => moving
    /\ latched' => ~pending' /\ ~moving'

\* Movement is admitted again only when nothing old can move the device.
Open ==
    /\ ~admitting /\ ~pending /\ ~moving
    /\ admitting' = TRUE
    /\ UNCHANGED <<latched, pending, moving>>

Accept ==
    /\ admitting /\ ~latched
    /\ pending' = TRUE
    /\ UNCHANGED <<latched, admitting, moving>>

\* Paused, superseded, failed or finished.
Withdraw ==
    /\ pending' = FALSE
    /\ UNCHANGED <<latched, admitting, moving>>

\* An accepted movement is handed to the device.
Move ==
    /\ admitting /\ ~latched
    /\ pending \/ pending'
    /\ moving' = TRUE
    /\ UNCHANGED <<latched, admitting>>

\* A stop is handed to the device, or the device is given up.
Halt ==
    /\ pending' = FALSE
    /\ moving' = FALSE
    /\ UNCHANGED <<latched, admitting>>

Next == Latch \/ Release \/ Close \/ Open \/ Accept \/ Withdraw \/ Move \/ Halt

Spec == Init /\ [][Next]_vars
=============================================================================
