---------------------------- MODULE BatteryLoop ----------------------------
(***************************************************************************)
(* One battery in the loop with the balancer: what it can deliver, what    *)
(* the rest of the pool leaves to it, and the command it is sent.  The     *)
(* judgements the balancer forms of it (Saturation, Ceilings) share this   *)
(* battery.                                                                *)
(***************************************************************************)
EXTENDS Watts

CONSTANTS
    Limits,         \* outputs the battery may be physically limited to
    Shares,         \* what the rest of the pool leaves to this battery
    Slices,         \* its slice of the grid error in one poll
    Gaps,           \* seconds between two of its polls
    MaxStep,        \* the most the balance term corrects in a poll
    PaceCap         \* the most pacing lets through in a poll

VARIABLES
    role,       \* its place in the rotation
    power,      \* the output it last reported
    limit,      \* what it can physically deliver, in either direction
    share,      \* what the others leave to it
    sent,       \* the command on the wire
    known       \* whether the control state remembers that command
=============================================================================
