---------------------------- MODULE Saturation ----------------------------
(***************************************************************************)
(* How the balancer finds out that a battery cannot follow its commands,   *)
(* full or empty, and that it can again.  At every poll the battery        *)
(* reports the output its last command led to; SaturationTracker scores    *)
(* that, the allocation pass gives the battery its role in the rotation,   *)
(* which may clear the score or open a grace window, and the battery is    *)
(* commanded again, with a share that shrinks as its score grows.          *)
(*                                                                         *)
(* Data.  Powers and commands are small signed integers, times are ages    *)
(* that stop growing where no decision tells them apart.  The score, a     *)
(* real-valued EMA in the code, is a band 0 .. Full that a second of       *)
(* evidence moves by Rise and a second without any lets sink by Decay.     *)
(* The rest of the pool is what it leaves to this battery (share) and the  *)
(* slice of the grid error a poll hands it.  The gain of the balance term  *)
(* is taken as 1, without its deadband and taper, and the damping of a     *)
(* hunting battery is left out: nothing is said here of commands so small  *)
(* that the deadband swallows them, or of ones that reverse at every poll. *)
(***************************************************************************)
EXTENDS BatteryLoop

CONSTANTS
    Full,           \* top band of the saturation score
    Rise, Decay,    \* bands a second of evidence, or of none, moves it by
    MinTarget,      \* output below which it counts as producing nothing
    Actionable,     \* saturation_floor: the smallest command it is judged by
    LongGap,        \* SATURATION_LONG_GAP_SECONDS
    Grace,          \* SATURATION_GRACE_SECONDS
    JoinGrace,      \* SPILL_JOIN_GRACE_SECONDS
    StallTimeout    \* SATURATION_STALL_TIMEOUT_SECONDS

ASSUME SaturationAssumption ==
    /\ Limits \subseteq Nat /\ Shares \subseteq Int /\ Slices \subseteq Int
    /\ Gaps \subseteq Nat
    /\ Full \in Nat \ {0} /\ Rise \in Nat \ {0} /\ Decay \in 1 .. Rise
    /\ MinTarget \in Nat \ {0}
    /\ Actionable \in Nat /\ Actionable >= MinTarget
    /\ LongGap \in Nat /\ Grace \in Nat /\ JoinGrace \in Nat
    /\ MaxStep \in Nat \ {0} /\ PaceCap \in Nat \ {0}
    /\ StallTimeout \in Nat /\ StallTimeout * Rise >= Full

VARIABLES
    intent,     \* last_intent_reading: the command before pacing
    sat,        \* its saturation score and grace window
    earned      \* history: the score that its seconds without output, or
                \* unobserved, in the present role explain

vars == <<role, power, limit, share, sent, intent, known, sat, earned>>
world == <<limit, share>>

\* The battery is judged as "auto" and as "spilling" (carrying the standby
\* reserve's overflow).  "probing" and "backing" are the participants of a
\* handoff, "resting" is deprioritized, "away" is manual, paused or evicted.
Roles == {"auto", "spilling", "probing", "backing", "resting", "away"}
Judged == role \in {"auto", "spilling"}

-----------------------------------------------------------------------------
(* SaturationTracker                                                         *)

Never == -1     \* last_saturation_update = 0: the next update is a first one

Cleared == [score |-> 0, on |-> FALSE, left |-> 0, ran |-> 0, since |-> Never]

WithGrace(s, seconds) ==
    [s EXCEPT !.on = TRUE, !.left = seconds, !.ran = 0, !.since = Never]
NoGrace(s) == [s EXCEPT !.on = FALSE, !.left = 0, !.ran = 0]

Aged(s, dt) ==
    [s EXCEPT !.left = Most(0, s.left - dt),
              !.ran = IF s.on THEN Least(StallTimeout, s.ran + dt) ELSE 0,
              !.since = IF s.since = Never THEN Never
                        ELSE Least(LongGap + 1, s.since + dt)]

\* (mutant) a poll that says nothing leaves the score where it is
ScoredNoDecay(s, target, actual) ==
    LET dt == IF s.since = Never THEN 1 ELSE s.since
    IN  [s EXCEPT !.since = 0,
                  !.score = IF dt > LongGap \/ Abs(target) < Actionable
                               \/ target * actual < 0 THEN @
                            ELSE IF Abs(actual) < MinTarget
                            THEN Least(Full, @ + Rise * dt)
                            ELSE Most(0, @ - Rise * dt)]

\* One step of the EMA.  A first update counts as one second; a repeat within
\* the same second and a long absence only stamp the clock.
Scored(s, target, actual) ==
    LET dt == IF s.since = Never THEN 1 ELSE s.since
        excused == Abs(target) < Actionable \/ target * actual < 0
    IN  [s EXCEPT !.since = 0,
                  !.score = IF dt > LongGap THEN @
                            ELSE IF excused THEN Most(0, @ - Decay * dt)
                            ELSE IF Abs(actual) < MinTarget
                            THEN Least(Full, @ + Rise * dt)
                            ELSE Most(0, @ - Rise * dt)]

Update(s, target, actual) ==
    LET running == s.on /\ s.left > 0
        quiet == Abs(actual) < MinTarget
        stalled == Abs(target) >= Actionable /\ s.ran >= StallTimeout
    IN  IF running /\ quiet
        THEN IF stalled THEN [Cleared EXCEPT !.score = Full] ELSE s
        ELSE Scored(IF s.on THEN [NoGrace(s) EXCEPT !.since = Never] ELSE s,
                    target, actual)

-----------------------------------------------------------------------------
(* Roles and commands: what an allocation pass does to the battery           *)

Role(r, s) == [role |-> r, sat |-> s]

\* (mutant) a promotion keeps the score of the role before
PromotedAsIs(s) == WithGrace(s, Grace)

\* A promotion clears the score and opens a grace window.  A battery that was
\* spilling then leaves the reserve in the same pass, which clears both.
Promoted(s) == IF role = "spilling" THEN Cleared ELSE WithGrace(Cleared, Grace)

Rejected(s) == [NoGrace(s) EXCEPT !.score = Full]

RoleChanges(s) ==
    CASE role = "auto" -> {Role("resting", Cleared), Role("backing", s)}
      [] role = "resting" -> {Role("auto", Promoted(s)),
                              Role("spilling", WithGrace(s, JoinGrace)),
                              Role("probing", WithGrace(Cleared, Grace))}
      [] role = "spilling" -> {Role("auto", Promoted(s)), Role("resting", Cleared),
                               Role("probing", Cleared)}
      [] role = "probing" -> {Role("auto", NoGrace(s)), Role("auto", Rejected(s)),
                              Role("auto", s), Role("resting", Cleared)}
      [] role = "backing" -> {Role("auto", s), Role("resting", Cleared)}
      [] OTHER -> {}

\* The slice shrinks with the score.  The balance term moves the battery to its
\* share; a saturated one has none, and is pulled to nothing unless there is no
\* healthy battery left to balance (alone).
Wanted(s, actual, slice, alone) ==
    LET goal == IF s.score < Full THEN share ELSE IF alone THEN actual ELSE 0
    IN  Sign(slice) * ((Abs(slice) * (Full - s.score)) \div Full)
        + Within(goal - actual, MaxStep)

Command(r, s, actual, slice, alone) ==
    CASE r \in {"auto", "spilling", "backing"} -> Wanted(s, actual, slice, alone)
      [] r = "probing" -> Sign(share) * Abs(slice)
      [] r = "resting" -> -actual
      [] OTHER -> share - actual

\* Pacing clamps the pool's own commands, never a probe's or the user's.
Paced(r, out) == IF r \in {"probing", "away"} THEN out ELSE Within(out, PaceCap)

\* (mutant) judged by what pacing let through
IntentPaced(r, out) == IF r \in {"resting", "away"} THEN 0 ELSE Paced(r, out)

\* Winding down is a command to produce nothing, not one it failed to follow.
Intent(r, out) == IF r \in {"resting", "away"} THEN 0 ELSE out

\* What the battery delivers for the command on the wire.
Answer == Within(power + sent, limit)

\* History.  A battery that enters or leaves the active set starts with a
\* clean slate; a rejected candidate that stays in it is marked at once.
Serving == {"auto", "backing", "probing"}
Evidence(next, soFar) ==
    IF role = "probing" /\ next.role = "auto" /\ next.sat.score = Full THEN Full
    ELSE IF next.role = role \/ {next.role, role} \subseteq Serving THEN soFar
    ELSE 0
Unproductive == ~(Judged /\ known) \/ Abs(Answer) < MinTarget

Tracked(dt) ==
    IF Judged /\ known THEN Update(Aged(sat, dt), intent, Answer) ELSE Aged(sat, dt)

Poll(dt, slice) ==
    /\ power' = Answer
    /\ \E next \in {Role(role, Tracked(dt))} \cup RoleChanges(Tracked(dt)), alone \in BOOLEAN :
         LET out == Command(next.role, next.sat, Answer, slice, alone) IN
         /\ role' = next.role
         /\ sat' = next.sat
         /\ sent' = Paced(next.role, out)
         /\ intent' = Intent(next.role, out)
         /\ known' = (next.role # "away")
         /\ earned' = Evidence(next, IF Unproductive
                                     THEN Least(Full, earned + Rise * Most(1, dt))
                                     ELSE earned)
    /\ UNCHANGED world

\* Another battery's poll runs the allocation pass that changes this one's role.
OthersPoll ==
    /\ \E next \in RoleChanges(sat) :
         /\ role' = next.role
         /\ sat' = next.sat
         /\ earned' = Evidence(next, earned)
    /\ UNCHANGED <<power, sent, intent, known, world>>

\* Manual, paused or evicted: the control state is dropped.
Leave ==
    /\ role # "away"
    /\ role' = "away" /\ known' = FALSE /\ sat' = Cleared /\ earned' = 0
    /\ intent' = 0
    /\ UNCHANGED <<power, sent, world>>

Return ==
    /\ role = "away"
    /\ role' = "auto" /\ sat' = WithGrace(Cleared, Grace) /\ earned' = 0
    /\ UNCHANGED <<power, sent, intent, known, world>>

\* The battery fills, empties or recovers; the others' output or the house's
\* demand moves.
BatteryChanges ==
    /\ limit' \in Limits \ {limit}
    /\ UNCHANGED <<role, power, share, sent, intent, known, sat, earned>>
DemandChanges ==
    /\ share' \in Shares \ {share}
    /\ UNCHANGED <<role, power, limit, sent, intent, known, sat, earned>>

Init ==
    /\ role = "auto" /\ power = 0 /\ sent = 0 /\ intent = 0 /\ known = FALSE
    /\ limit \in Limits /\ share \in Shares
    /\ sat = WithGrace(Cleared, Grace)
    /\ earned = 0

Next ==
    \/ \E dt \in Gaps, slice \in Slices : Poll(dt, slice)
    \/ OthersPoll
    \/ Leave
    \/ Return
    \/ BatteryChanges
    \/ DemandChanges

Spec == Init /\ [][Next]_vars

\* A battery in service goes on polling, not always in the same second.  The
\* passes that change its role are not counted on.
TimelyPoll == \E dt \in Gaps \ {0}, slice \in Slices :
                  dt <= LongGap /\ Poll(dt, slice) /\ role' = role
FairSpec == Spec /\ WF_vars(TimelyPoll)

-----------------------------------------------------------------------------
\* The score stays in its bands and the grace window's counters in theirs.
TypeOK ==
    /\ role \in Roles
    /\ power \in Int /\ share \in Int /\ sent \in Int /\ intent \in Int
    /\ limit \in Nat /\ known \in BOOLEAN
    /\ sat \in [score : 0 .. Full, on : BOOLEAN, left : Nat,
                ran : 0 .. StallTimeout, since : Never .. LongGap + 1]
    /\ earned \in 0 .. Full

\* A battery is never scored for more than it earned in its present role: every
\* band is explained by seconds in which it produced nothing or was not judged
\* since it last entered or left the active set (or by the one rejection that
\* marks it at once).  Graces, stalls, role changes by other batteries' polls
\* and absences never carry a verdict over from commands of another role.
ScoreIsEarned == sat.score <= earned

\* A battery that can deliver nothing and goes on being asked is found out,
\* however small the steps that pacing lets through: the score is judged by the
\* command before pacing, and no grace window renews itself for ever.  (A share
\* under the balance deadband on a covered grid is no command, in the code.)
EmptyIsFound ==
    <>[](role = "auto" /\ limit = 0
         /\ \A slice \in Slices : Abs(share + slice) >= Actionable)
        => []<>(sat.score = Full)

\* A battery that can deliver its share again does not stay marked, though a
\* marked battery is given nothing it could prove itself by.
RecoveredIsForgiven ==
    \A x \in Shares :
        <>[](role = "auto" /\ share = x /\ limit >= Abs(x)) => <>[](sat.score < Full)
=============================================================================
