-------------------------- MODULE CeilingVerdicts --------------------------
(***************************************************************************)
(* The ceilings the balancer has learned of a battery, and what they       *)
(* promise: a battery that follows is not capped, and a cap that is wrong  *)
(* falls.  How they are learned, applied and retested is in Ceilings.      *)
(***************************************************************************)
EXTENDS BatteryLoop

CONSTANTS
    Push,           \* CEILING_PUSH_W
    Flat,           \* CEILING_FLAT_W
    MinPower,       \* CEILING_MIN_POWER_W
    StallPolls,     \* CEILING_STALL_POLLS
    StallSeconds,   \* CEILING_STALL_SECONDS
    AtMargin,       \* CEILING_AT_MARGIN_W
    Release,        \* CEILING_RELEASE_W
    Ttl,            \* CEILING_TTL_SECONDS
    Retest,         \* CEILING_RETEST_SECONDS
    RetestPush,     \* CEILING_RETEST_PUSH_W
    OscFull,        \* polls of one sign in which a full osc_score stops mattering
    OscThreshold    \* osc_damp_threshold

VARIABLES
    ceil,       \* its ceilings and the present run of flat polls
    osc,        \* polls of one sign until its hunting no longer holds a push back
    swing,      \* osc_last_sign
    able,       \* history: it could do what the last command asked
    bridged,    \* history: the run of flat polls spans polls not judged
    wronged     \* history: polls in a row spent at a ceiling below its limit

Dirs == {-1, 1}

-----------------------------------------------------------------------------
\* A battery is only capped, or a cap of it confirmed, when it fell short of
\* what it was asked in that poll or in the one before: wherever the limits,
\* the demand, the roles and the user move between two polls of a run, a
\* battery that follows is never taken to be at its limit.  (One poll of the
\* two is not enough: a push is less than twice the flat band, so a battery
\* that dipped to its edge may follow the next push and still be in it.)  Runs
\* that bridge a rest or a handoff are left out: _track_ceiling does not run
\* then and does not end them, and one of those can cap a battery that follows.
HealthyNotCapped ==
    [][\A d \in Dirs :
         ceil'.value[d] > 0 /\ ceil'.seen[d] = 0 /\ ceil'.polls > 1
         /\ (ceil.value[d] # ceil'.value[d] \/ ceil.seen[d] > 0)
            => ~able' \/ ~able \/ bridged]_<<ceil, able, bridged>>

\* A ceiling that keeps a battery from output it could deliver and is wanted
\* for is pushed past within the retest interval, and falls after as many
\* pushes as its margins take, once a battery that was hunting has been asked in
\* one direction for as long as its damping lasts: no order of confirmations,
\* retests, reversals and polls lets the balancer hold the battery at it and
\* call that a confirmation, but for one in the second poll, when the run of flat
\* polls bridges a rest.  (Polls the regulation path does not answer, of a fade
\* or of an unload, retest nothing: they start the count anew.)
RetestIsPrompt ==
    (wronged - Retest - 2 - OscFull) * Least(Push, PaceCap) <= AtMargin + Release
=============================================================================
