----------------------------- MODULE Ceilings -----------------------------
(***************************************************************************)
(* The output ceilings the balancer learns of a battery.  A battery that   *)
(* holds flat at some output while it is pushed further is taken to be     *)
(* limited there, and from then on is asked for no more.  Nothing else     *)
(* would ever prove a wrong ceiling wrong, so one that binds is retested,  *)
(* and one that goes unconfirmed expires.                                  *)
(*                                                                         *)
(* Data.  Powers and commands are small signed integers (a unit is about   *)
(* 25 W), times are ages that stop growing where no decision tells them    *)
(* apart.  A battery that does not move for a while is one whose limit is  *)
(* lowered to its output for that while.  The rest of the pool is what it  *)
(* leaves to this battery with the others' ceilings applied (share) and    *)
(* the slice of the grid error a poll hands it.                            *)
(*                                                                         *)
(* The damping of a hunting battery comes between a retest's push and the  *)
(* wire.  Its score is a real number that falls by a fixed part per poll;  *)
(* what matters here is for how many polls it may still keep the push of a *)
(* retest under the push a ceiling is judged by, so the score is that      *)
(* number, and what it leaves of a command is any part of it.  The gain,   *)
(* deadband and taper of the balance term are taken as 1, none and none.   *)
(***************************************************************************)
EXTENDS CeilingVerdicts

ASSUME CeilingsAssumption ==
    /\ Limits \subseteq Nat /\ Shares \subseteq Int /\ Slices \subseteq Int
    /\ Gaps \subseteq Nat
    /\ Flat \in Nat /\ StallSeconds \in Nat /\ AtMargin \in Nat /\ Release \in Nat
    /\ Ttl \in Nat /\ Retest \in Nat
    /\ MinPower \in Nat \ {0} /\ StallPolls \in Nat \ {0}
    /\ MaxStep \in Nat \ {0} /\ PaceCap \in Nat \ {0}
    /\ Push \in Nat /\ Push > Flat
    /\ Flat < 2 * MinPower
    /\ RetestPush \in Nat /\ RetestPush >= Push
    /\ OscFull \in Nat /\ OscThreshold \in Nat

\* The role is "judged", "skipped" (resting or in a handoff) or "away".
vars == <<role, power, limit, share, sent, known, ceil, osc, swing, able, bridged,
          wronged>>

\* The paths of compute_target that answer a battery of the pool: the regulation,
\* the fade of a handoff, the unloading of a spilling pool.
Paths == {"regulation", "fade", "unload"}

NoCeilings == [value |-> [d \in Dirs |-> 0], seen |-> [d \in Dirs |-> 0],
               anchor |-> 0, polls |-> 0, span |-> 0]

Aged(c, dt) ==
    [c EXCEPT !.seen = [d \in Dirs |-> IF c.value[d] = 0 THEN 0
                                       ELSE Least(Ttl + 1, c.seen[d] + dt)],
              !.span = IF c.polls = 0 THEN 0 ELSE Least(StallSeconds, c.span + dt)]

\* Output past it, or time without a confirmation, takes a ceiling away.
Disproved(c, d, actual) ==
    \/ actual * d > c.value[d] + Release
    \/ c.seen[d] > Ttl

Standing(c, actual) ==
    LET Kept(f) == [d \in Dirs |-> IF Disproved(c, d, actual) THEN 0 ELSE f[d]]
    IN  [c EXCEPT !.value = Kept(@), !.seen = Kept(@)]

\* (mutant) a battery that is asked for nothing more counts as pushed
PushedAnyhow(target, actual) == Abs(actual) >= MinPower

Pushed(target, actual) ==
    /\ Abs(actual) >= MinPower
    /\ target * Sign(actual) >= Push

\* The anchor of a run of no polls is never read, and kept at 0.
NewRun(c, pushed, actual) ==
    [c EXCEPT !.anchor = IF pushed THEN actual ELSE 0, !.span = 0,
              !.polls = IF pushed THEN 1 ELSE 0]

LongerRun(c, actual) ==
    LET polls == Least(StallPolls, c.polls + 1)
    IN  IF polls = StallPolls /\ c.span >= StallSeconds
        THEN [c EXCEPT !.polls = polls, !.value[Sign(actual)] = Abs(actual),
                       !.seen[Sign(actual)] = 0]
        ELSE [c EXCEPT !.polls = polls]

TrackCeiling(c, target, actual) ==
    IF ~Pushed(target, actual) \/ c.polls = 0 \/ Abs(actual - c.anchor) > Flat
    THEN NewRun(Standing(c, actual), Pushed(target, actual), actual)
    ELSE LongerRun(Standing(c, actual), actual)

-----------------------------------------------------------------------------
(* The command                                                               *)

\* (mutant) what it would be asked for is taken with its own ceiling applied
RetestOwnCeiling(c, actual, slice) ==
    LET d == Sign(share)
    IN  IF /\ d # 0 /\ c.value[d] > 0
           /\ actual * d >= c.value[d] - AtMargin /\ c.seen[d] >= Retest
           /\ slice * d >= -2 * Push
           /\ Least(Abs(share), c.value[d]) - actual * d >= Push
        THEN d ELSE 0

\* The direction to push the battery past its ceiling in, or 0: it sits at a
\* ceiling that binds and has gone unconfirmed for long, and the grid does
\* not clearly ask the pool for less.
RetestDue(c, actual, slice) ==
    LET d == Sign(share)
    IN  IF /\ d # 0
           /\ c.value[d] > 0
           /\ actual * d >= c.value[d] - AtMargin
           /\ c.seen[d] >= Retest
           /\ slice * d >= -2 * Push
           /\ (share - actual) * d >= Push
        THEN d ELSE 0

\* The balance term stops at the ceiling; a retest overrides both terms.
Goal(c) ==
    LET d == Sign(share)
    IN  IF d # 0 /\ c.value[d] > 0 THEN d * Least(Abs(share), c.value[d]) ELSE share

Wanted(c, actual, slice) ==
    LET out == slice + Within(Goal(c) - actual, MaxStep)
        push == RetestDue(c, actual, slice)
    IN  IF push # 0 THEN push * Most(out * push, RetestPush) ELSE out

\* A demand step is no hunting: past the threshold a residual goes out in full.
Steps(residual) == OscThreshold > 0 /\ Abs(residual) > OscThreshold

\* A reversal raises the score, anything else lowers it.
Scores(residual) ==
    IF residual * swing < 0 /\ ~Steps(residual) THEN osc .. OscFull ELSE {Most(0, osc - 1)}

\* What the damping may leave of a residual: any part of it while the score
\* matters, and after that enough of a retest's push to be a push.
Damped(residual, score) ==
    {Sign(residual) * w : w \in
        {w \in 0 .. Abs(residual) :
            /\ Steps(residual) => w = Abs(residual)
            /\ score = 0 /\ Abs(residual) >= RetestPush => w >= Push}}

Damp(residual) ==
    /\ osc' \in Scores(residual)
    /\ swing' = IF residual = 0 THEN swing ELSE Sign(residual)
    /\ \E damped \in Damped(residual, osc') : sent' = Within(damped, PaceCap)

\* The command of a poll that no regulation answers is not damped.
Commanded(c, actual, slice, path) ==
    \/ role = "judged" /\ path = "regulation" /\ Damp(Wanted(c, actual, slice))
    \/ role = "judged" /\ path = "unload" /\ Damp(slice)
    \/ /\ role = "judged" /\ path = "fade"
       /\ sent' = Within(slice, PaceCap) /\ UNCHANGED <<osc, swing>>
    \/ role = "skipped" /\ sent' = slice /\ UNCHANGED <<osc, swing>>
    \/ role = "away" /\ sent' = share - actual /\ UNCHANGED <<osc, swing>>

\* What the battery delivers for the command on the wire.
Answer == Within(power + sent, limit)

Tracked(dt) ==
    IF role = "judged" THEN TrackCeiling(Aged(ceil, dt), IF known THEN sent ELSE 0, Answer)
    ELSE Aged(ceil, dt)

\* History: at a ceiling it could leave behind by more than the release margin
\* and is wanted beyond, in a poll that could retest it.
HeldBack(c, dt, slice, path) ==
    LET d == Sign(share)
    IN  /\ role = "judged" /\ path = "regulation" /\ known /\ dt > 0 /\ slice * d >= -2 * Push
        /\ d # 0 /\ c.value[d] > 0
        /\ Answer * d >= c.value[d] - AtMargin
        /\ Least(limit, Abs(share)) >= c.value[d] + Release + Push

Poll(dt, slice, path) ==
    /\ power' = Answer
    /\ ceil' = Tracked(dt)
    /\ Commanded(ceil', Answer, slice, path)
    /\ known' = (role # "away")
    /\ able' = (Abs(power + sent) <= limit)
    /\ bridged' = (ceil'.polls > 0 /\ (role # "judged" \/ (bridged /\ ceil'.polls > 1)))
    /\ wronged' = IF HeldBack(ceil', dt, slice, path) THEN Least(Ttl + 1, wronged + 1) ELSE 0
    /\ UNCHANGED <<role, limit, share>>

\* An allocation pass puts the battery into a handoff or to rest, or back.
RoleChanges ==
    /\ role' \in {"judged", "skipped"} \ {role} /\ role # "away"
    /\ UNCHANGED <<power, limit, share, sent, known, ceil, osc, swing, able, bridged,
                   wronged>>

\* Manual, paused or evicted: the control state is dropped.
Leave ==
    /\ role # "away" /\ role' = "away"
    /\ known' = FALSE /\ ceil' = NoCeilings /\ osc' = 0 /\ swing' = 0
    /\ bridged' = FALSE /\ wronged' = 0
    /\ UNCHANGED <<power, limit, share, sent, able>>

Return ==
    /\ role = "away" /\ role' = "judged" /\ known' = FALSE
    /\ UNCHANGED <<power, limit, share, sent, ceil, osc, swing, able, bridged, wronged>>

LimitChanges ==
    /\ limit' \in Limits \ {limit}
    /\ UNCHANGED <<role, power, share, sent, known, ceil, osc, swing, able, bridged,
                   wronged>>
DemandChanges ==
    /\ share' \in Shares \ {share}
    /\ UNCHANGED <<role, power, limit, sent, known, ceil, osc, swing, able, bridged,
                   wronged>>

Init ==
    /\ role = "judged" /\ power = 0 /\ sent = 0 /\ known = FALSE
    /\ limit \in Limits /\ share \in Shares
    /\ ceil = NoCeilings /\ osc = 0 /\ swing = 0 /\ able = TRUE /\ bridged = FALSE /\ wronged = 0

Next ==
    \/ \E dt \in Gaps, slice \in Slices, path \in Paths : Poll(dt, slice, path)
    \/ RoleChanges
    \/ Leave
    \/ Return
    \/ LimitChanges
    \/ DemandChanges

Spec == Init /\ [][Next]_vars

-----------------------------------------------------------------------------
\* The record of ceilings keeps its shape, and a run's counters their bounds.
TypeOK ==
    /\ role \in {"judged", "skipped", "away"}
    /\ power \in Int /\ share \in Int /\ sent \in Int /\ limit \in Nat
    /\ known \in BOOLEAN /\ able \in BOOLEAN /\ bridged \in BOOLEAN
    /\ ceil \in [value : [Dirs -> Nat], seen : [Dirs -> 0 .. Ttl + 1], anchor : Int,
                 polls : 0 .. StallPolls, span : 0 .. StallSeconds]
    /\ osc \in 0 .. OscFull /\ swing \in {-1, 0, 1}
    /\ wronged \in 0 .. Ttl + 1
=============================================================================
