----------------------------- MODULE AutoPool -----------------------------
(***************************************************************************)
(* The automatic pool closed over the house: every poll of a battery runs  *)
(* the whole allocation (LoadBalancer._compute_auto_target), the battery   *)
(* follows the command as far as it can, and the meter shows what is left. *)
(* The standby reserve, the probe that watches a handoff, the fade that    *)
(* ends one, the minimum power and the shares are all decided in the poll. *)
(*                                                                         *)
(* Data.  Powers are whole units (positive is discharge), a battery        *)
(* follows a command at once, and the control grid is the meter.  When the *)
(* rotation moves on, when a probe ends and when a battery is found empty  *)
(* are EfficiencyPool's and Saturation's subjects: here they happen at any *)
(* time.  A battery's limit is its ceiling and maximum.                    *)
(***************************************************************************)
EXTENDS Sharing, Sequences

CONSTANTS
    Batteries,      \* identifiers, numbers that break ties
    FirstOrder,     \* the rotation order at the start
    DcOnly,         \* those that cannot charge from AC
    Loads,          \* what the house may draw (surplus is negative)
    Weight,         \* distribution weights, none of them parked at 0
    Limit,          \* the most each can output, in either direction
    MinRun,         \* the least each may run at
    StartGap,       \* how far above its minimum an idle one starts again
    Slots,          \* how many batteries the rotation may want active
    Scale,          \* 1 / SPILL_WEIGHT, and 1 / the weight of a saturated one
    Margin,         \* CEILING_AT_MARGIN_W
    MinDemand,      \* SPILL_MIN_DEMAND_W
    HoldPower,      \* SPILL_HOLD_W
    ReleaseDelay,   \* SPILL_RELEASE_SECONDS
    UnloadBand,     \* SPILL_UNLOAD_DEADBAND_W
    ProbeStep,      \* what a probe asks its candidate for more at each poll
    ProbeProof,     \* what its candidate must deliver (_probe_success_threshold)
    BalanceBand,    \* balance_deadband
    MaxStep,        \* max_correction_per_step
    ConcentrateBand,\* concentrate_deadband
    Failing,        \* batteries that may run empty
    PaceCap         \* the most pacing lets through in a poll

ASSUME AutoPoolAssumption ==
    /\ Batteries \subseteq Nat \ {0} /\ IsFiniteSet(Batteries)
    /\ DcOnly \subseteq Batteries /\ Failing \subseteq Batteries /\ Loads \subseteq Int
    /\ FirstOrder \in Seq(Batteries) /\ Len(FirstOrder) = Cardinality(Batteries)
    /\ \A c \in Batteries : \E i \in DOMAIN FirstOrder : FirstOrder[i] = c
    /\ Weight \in [Batteries -> Nat \ {0}]
    /\ Limit \in [Batteries -> Nat] /\ MinRun \in [Batteries -> Nat]
    /\ Slots \subseteq 1 .. Cardinality(Batteries)
    /\ Scale \in Nat \ {0} /\ StartGap \in Nat /\ Margin \in Nat /\ HoldPower \in Nat
    /\ UnloadBand \in Nat /\ BalanceBand \in Nat /\ ConcentrateBand \in Nat
    /\ MinDemand \in Nat \ {0} /\ ReleaseDelay \in Nat /\ ProbeStep \in Nat \ {0}
    /\ ProbeProof \in Nat \ {0}
    /\ MaxStep \in Nat \ {0} /\ PaceCap \in Nat \ {0}

VARIABLES
    load,           \* what the house draws
    out,            \* each battery's output, as it reports it
    order,          \* _priority
    slots,          \* how many of order are active
    fade,           \* 2 full participation, 1 fading, 0 faded out
    probe,          \* the handoff being watched, or NoProbe
    empty,          \* batteries that deliver nothing
    marked,         \* batteries whose score says so
    idle,           \* min_power_idle
    quiet,          \* history: those whose polls changed nothing, since anything did
    spill           \* [line, dir, caps, free]: the reserve's batteries in the
                    \* order they joined, their direction, the caps of the
                    \* batteries ahead, seconds since those regained headroom

vars == <<load, out, order, slots, fade, probe, empty, marked, idle, spill, quiet>>
pool == <<out, fade, probe, idle, spill>>

NoProbe == [cand |-> 0, active |-> {}, backup |-> {}, restore |-> <<>>, asked |-> 0]
NotFree == -1
NoSpill == [line |-> <<>>, dir |-> 0, caps |-> [c \in {} |-> 0], free |-> NotFree]

InSeq(s) == {s[i] : i \in DOMAIN s}
Orders == {o \in [1 .. Cardinality(Batteries) -> Batteries] : InSeq(o) = Batteries}
Active == {order[i] : i \in 1 .. slots}
Resting == Batteries \ Active
Participants == probe.active \cup probe.backup
Grid == load - Total(out, Batteries)

-----------------------------------------------------------------------------
(* The pass: fade, reserve, participation                                    *)

\* Every poll moves every fade one step towards its goal.
Faded ==
    [c \in Batteries |->
        IF c \in Participants THEN 2
        ELSE IF c \in Resting THEN Most(0, fade[c] - 1) ELSE Least(2, fade[c] + 1)]

Blind(g) ==
    IF /\ DcOnly # Batteries
       /\ g < 0 \/ (g = 0 /\ \E c \in Batteries \ DcOnly : out[c] < 0)
    THEN DcOnly ELSE {}

\* (mutant) a battery that stopped following still counts as having headroom
HeadroomAsRated(c, sign, margin) ==
    (sign < 0 /\ c \in DcOnly) \/ out[c] * sign >= Limit[c] - margin

NoHeadroom(c, sign, margin) ==
    \/ sign < 0 /\ c \in DcOnly
    \/ c \in marked
    \/ out[c] * sign >= Limit[c] - margin

StuckAt(c, sign) ==
    IF sign < 0 /\ c \in DcOnly THEN 0
    ELSE IF c \in marked THEN Abs(out[c]) ELSE Limit[c]

\* One standby after the other, in merit order: [line, ahead, caps, held, free,
\* open], open while the next one may still join.
Considered(st, c, sign) ==
    LET staying == c \in InSeq(spill.line) /\ spill.dir = sign
        margin == IF staying THEN 2 * Margin ELSE Margin
        stuck == {d \in st.ahead : NoHeadroom(d, sign, margin)}
        blocked == stuck = st.ahead
        hold == staying /\ ~blocked /\ out[c] * sign > HoldPower
        free == IF hold /\ st.free = NotFree THEN 0 ELSE st.free
        joins == IF staying THEN blocked \/ (hold /\ free < ReleaseDelay)
                 ELSE blocked /\ Grid * sign > 0
        capped == [d \in DOMAIN st.caps \cup stuck |->
                     IF d \in stuck THEN StuckAt(d, sign) ELSE st.caps[d]]
    IN  IF ~st.open \/ (sign < 0 /\ c \in DcOnly) THEN st
        ELSE [line |-> IF joins THEN Append(st.line, c) ELSE st.line,
              ahead |-> IF joins THEN st.ahead \cup {c} ELSE st.ahead,
              caps |-> capped, held |-> st.held \/ hold, free |-> free, open |-> joins]

Standby(f) == {c \in Batteries : f[c] = 0}

\* What the pool delivers plus the grid is what the house draws.
Spilled(f) ==
    LET sign == IF Standby(f) # {} /\ Abs(load) >= MinDemand THEN Sign(load) ELSE 0
        walk[n \in 0 .. Len(order)] ==
            IF n = 0
            THEN [line |-> <<>>, ahead |-> {c \in Batteries : f[c] > 0}, caps |-> NoSpill.caps,
                  held |-> FALSE, free |-> spill.free, open |-> sign # 0]
            ELSE IF order[n] \in Standby(f) THEN Considered(walk[n - 1], order[n], sign)
            ELSE walk[n - 1]
        end == walk[Len(order)]
    IN  [line |-> end.line,
         dir |-> IF end.line = <<>> THEN 0 ELSE sign,
         caps |-> IF end.line = <<>> THEN NoSpill.caps ELSE end.caps,
         free |-> IF end.held THEN end.free ELSE NotFree]

-----------------------------------------------------------------------------
(* Shares.  A pass p carries what the poll decided so far: the fade, the     *)
(* reserve, the eff_part map and whom a surplus leaves out.                  *)

SpillRank(p, c) == IF c \in InSeq(p.spill.line)
                   THEN CHOOSE i \in DOMAIN p.spill.line : p.spill.line[i] = c ELSE 0
ShareWeight(p, c) == Weight[c] * Power(Scale, Len(p.spill.line) - SpillRank(p, c))
ShareWeights(p) == [c \in Batteries |-> ShareWeight(p, c)]

\* min(limit, spill cap), where sign is a direction.
Ceilings(p, ids, sign) ==
    [c \in {d \in ids : sign # 0} |->
        IF sign = p.spill.dir /\ c \in DOMAIN p.spill.caps
        THEN Least(Limit[c], p.spill.caps[c]) ELSE Limit[c]]

Pinned(p, sign) ==
    LET ceil == Ceilings(p, Batteries, sign)
    IN  {c \in DOMAIN ceil : out[c] * sign >= ceil[c] - Margin}

\* eff_part as multiples of 1 / Scale: a saturated battery keeps one.
FullPart == Scale
Participating(p) == {c \in DOMAIN p.eff : p.eff[c] = FullPart}

FairShare(p, c, error, ids, pinned) ==
    LET part == [d \in ids |-> p.eff[d] * ShareWeight(p, d)]
        all == Total(part, ids)
        free == Total(part, ids \ pinned)
    IN  IF all = 0 THEN Share(error, Cardinality(Batteries))
        ELSE Share(error * part[c], IF c \notin pinned /\ free > 0 THEN free ELSE all)

\* What balancing asks each of ids to move by; one that is not among them is
\* pulled to nothing.
Errors(p, ids) ==
    LET total == Total(out, ids)
        shares == CappedShares(total, ShareWeights(p), ids, Ceilings(p, ids, Sign(total)))
    IN  [c \in Batteries |-> (IF c \in ids THEN Whole(shares[c]) ELSE 0) - out[c]]

Correction(error) == IF Abs(error) < BalanceBand THEN 0 ELSE Within(error, MaxStep)

\* Deadband concentration, on a balanced pool: the most active battery takes a
\* small error whole.  The batteries it is between, or none.
Concentrating(p, g, pinned) ==
    LET ids == Participating(p) \ (p.blind \cup pinned)
        error == Errors(p, ids)
    IN  IF /\ g # 0 /\ Abs(g) < ConcentrateBand /\ Cardinality(ids) > 1
           /\ \A d \in ids : Abs(error[d]) < BalanceBand
        THEN ids ELSE {}
MostActive(ids, c) ==
    \A d \in ids : Abs(out[d]) < Abs(out[c]) \/ (Abs(out[d]) = Abs(out[c]) /\ d <= c)

\* What the reserve gives back of an error against its direction: last in,
\* first out, each down to nothing.
Takes(p, error) ==
    LET line == p.spill.line d == p.spill.dir
        carried(c) == Most(0, out[c] * d)
        after(i) == Total([c \in InSeq(line) |-> carried(c)], {line[k] : k \in i + 1 .. Len(line)})
    IN  [c \in {x \in InSeq(line) : error * d < 0} |->
            -d * Most(0, Least(carried(c), -error * d - after(SpillRank(p, c))))]

\* (mutant) the reserve shares what is given back like everybody else
UnloadingNever(p, error) == FALSE

Unloading(p, error) ==
    p.spill.line # <<>> /\ error * p.spill.dir < -UnloadBand

GivesBack(p, error) ==
    LET takes == Takes(p, error) IN Total(takes, DOMAIN takes)

\* While the reserve gives back there is no balance term.
Unloaded(p, c, g) ==
    IF c \in InSeq(p.spill.line) THEN Takes(p, g)[c]
    ELSE Whole(FairShare(p, c, g - GivesBack(p, g), Batteries \ InSeq(p.spill.line), {}))

Shared(p, c, g) ==
    LET pinned == Pinned(p, Sign(g))
        among == Concentrating(p, g, pinned)
    IN  IF c \in among THEN IF MostActive(among, c) THEN g ELSE 0
        ELSE Whole(FairShare(p, c, g, Batteries, pinned))
             + (IF Participating(p) = {} THEN 0
                ELSE Correction(Errors(p, Participating(p))[c]))

Residual(p, c, g) == IF Unloading(p, g) THEN Unloaded(p, c, g) ELSE Shared(p, c, g)

-----------------------------------------------------------------------------
(* What a poll asks a battery to deliver, one operator per path              *)

\* While a probe (hold) or a fade owns the rest, a spiller keeps its output,
\* gives back first, and in a fade the last one takes what is left over.
SpillTarget(p, c, hold) ==
    LET d == p.spill.dir
        take == IF Grid * d < 0
                THEN IF hold /\ ~Unloading(p, Grid) THEN 0 ELSE Takes(p, Grid)[c]
                ELSE IF ~hold /\ c = p.spill.line[Len(p.spill.line)] THEN Grid ELSE 0
    IN  IF (out[c] + take) * d < 0 THEN 0 ELSE out[c] + take

SpillDelivery(p) ==
    Total(out, InSeq(p.spill.line)) + (IF Unloading(p, Grid) THEN GivesBack(p, Grid) ELSE 0)

ProbeDemand(p) == load - SpillDelivery(p)

CandidateTarget(p) ==
    LET want == ProbeDemand(p)
    IN  IF want # 0
        THEN Sign(want) * Most(Abs(out[probe.cand]),
                               Least(Most(Abs(want), ProbeStep), probe.asked + ProbeStep))
        ELSE Most(0, probe.asked - ProbeProof)

\* The batteries that back the probe split what the candidate has not proven;
\* when its output counts as proven is the probe's affair.
Supports == Participants \ {probe.cand}
SupportTarget(p, c, proven) ==
    LET want == ProbeDemand(p) - proven
        weights == [d \in Supports |-> Most(1, p.eff[d]) * Weight[d]]
        fair == Whole(WeightedShares(want, weights, Supports)[c])
        healthy == {d \in Supports : weights[d] * 10 > FullPart}
    IN  IF Abs(want) < BalanceBand \/ healthy = {} THEN fair
        ELSE fair + Correction(Errors(p, healthy)[c])

FadingTarget(p, c) ==
    Whole(WeightedShares(load, p.fade, Batteries)[c])

\* (mutant) a spiller follows its share across zero
SharedThroughZero(p, c) == out[c] + Residual(p, c, Grid)

SharedTarget(p, c) ==
    LET want == out[c] + Residual(p, c, Grid)
    IN  IF c \in InSeq(p.spill.line) /\ want * p.spill.dir < 0 THEN 0 ELSE want

\* The minimum power gate: an idle battery's floor is its start point.
Floors(sign) ==
    [c \in Batteries |->
        IF c \in idle /\ MinRun[c] > 0
        THEN IF Limit[c] >= MinRun[c] THEN Least(MinRun[c] + StartGap, Limit[c])
             ELSE MinRun[c] + StartGap
        ELSE MinRun[c]]

GateIds(p) == {c \in Batteries \ InSeq(p.spill.line) : p.eff[c] > 0}
GateDemand(p) == Total(out, GateIds(p)) + Grid
GateWeights(p) == [c \in Batteries |-> p.eff[c] * Weight[c]]

Idles(p) ==
    LET ids == GateIds(p) demand == GateDemand(p)
    IN  IF demand = 0 THEN ids \cap idle
        ELSE ids \ Running(demand, GateWeights(p), ids,
                            Ceilings(p, ids, Sign(demand)), Floors(Sign(demand)))

-----------------------------------------------------------------------------
(* Actions                                                                   *)

Part(f, line, blind) ==
    [c \in Batteries |->
        IF c \in InSeq(line) THEN FullPart
        ELSE IF c \in blind THEN 0 ELSE IF c \in marked THEN 1 ELSE FullPart]

PassOf(f, sp) ==
    LET blind == Blind(Grid) \ (IF sp.dir > 0 THEN InSeq(sp.line) ELSE {})
    IN  [fade |-> f, spill |-> sp, blind |-> blind, eff |-> Part(f, sp.line, Blind(Grid))]

Out(p) == {c \in Batteries : p.fade[c] = 0} \ InSeq(p.spill.line)
Without(p, ids) == [p EXCEPT !.eff = [c \in Batteries |-> IF c \in ids THEN 0 ELSE @[c]]]
Fading(p) == \E c \in Batteries : p.fade[c] = 1

\* What a battery delivers when told to change its output by reading.
Delivers(c, reading) ==
    IF c \in empty THEN 0
    ELSE LET o == Within(out[c] + reading, Limit[c])
         IN  IF c \in DcOnly THEN Most(0, o) ELSE o

Emit(c, want) == out' = [out EXCEPT ![c] = Delivers(c, Within(want, Limit[c]) - @)]
EmitPaced(c, want) ==
    out' = [out EXCEPT ![c] = Delivers(c, Within(Within(want, Limit[c]) - @, PaceCap))]

PollProbe(c, p) ==
    /\ c \in Participants
    /\ \/ /\ c = probe.cand
          /\ \E want \in {CandidateTarget(p)} :
               Emit(c, want) /\ probe' = [probe EXCEPT !.asked = Abs(want)]
       \/ /\ c # probe.cand
          /\ \E proven \in {0, out[probe.cand]} : Emit(c, SupportTarget(p, c, proven))
          /\ UNCHANGED probe
    /\ UNCHANGED idle

PollBlind(c, p) ==
    /\ c \notin Participants /\ c \in p.blind
    /\ EmitPaced(c, 0)
    /\ UNCHANGED <<probe, idle>>

PollHandoff(c, p) ==
    /\ c \notin Participants \cup p.blind
    /\ IF c \in InSeq(p.spill.line)
       THEN /\ probe # NoProbe \/ Fading(p)
            /\ EmitPaced(c, SpillTarget(p, c, probe # NoProbe))
       ELSE Fading(p) /\ EmitPaced(c, FadingTarget(p, c))
    /\ UNCHANGED <<probe, idle>>

PollResting(c, p) ==
    /\ c \in Out(p) \ p.blind /\ ~Fading(p)
    /\ EmitPaced(c, 0)
    /\ UNCHANGED <<probe, idle>>

PollSettled(c, p) ==
    /\ c \notin Participants \cup p.blind \cup Out(p)
    /\ ~Fading(p) /\ (c \in InSeq(p.spill.line) => probe = NoProbe)
    /\ \E q \in {Without(p, Out(p))} : \E gated \in {Idles(q)} :
         /\ idle' = (idle \ GateIds(q)) \cup gated
         /\ EmitPaced(c, IF c \in gated THEN 0 ELSE SharedTarget(Without(q, gated), c))
    /\ UNCHANGED probe

\* A battery at rest or in a probe is not judged.
VerdictDue(c) ==
    /\ (c \in empty) # (c \in marked)
    /\ c \notin Participants /\ (c \in Resting => c \in InSeq(spill.line))

Poll(c) ==
    /\ fade' = Faded
    /\ \E p \in {PassOf(Faded, Spilled(Faded))} :
         /\ spill' = p.spill
         /\ PollProbe(c, p) \/ PollBlind(c, p) \/ PollHandoff(c, p)
            \/ PollResting(c, p) \/ PollSettled(c, p)
    /\ marked' = marked \ (InSeq(spill.line) \ InSeq(spill'.line))
    /\ quiet' = IF pool' = pool /\ probe = NoProbe /\ \A d \in Batteries : ~VerdictDue(d)
                THEN quiet \cup {c} ELSE {}
    /\ UNCHANGED <<load, order, slots, empty>>

MovedToTail(c) ==
    LET at == CHOOSE i \in DOMAIN order : order[i] = c
    IN  [i \in DOMAIN order |->
            IF i < at THEN order[i] ELSE IF i < Len(order) THEN order[i + 1] ELSE c]

\* A battery that takes or leaves an active slot starts with a clean score.
NewRoles(o, n) == {c \in Batteries : (c \in Active) # (c \in {o[i] : i \in 1 .. n})}

\* The rotation moves the head to the tail, or wants more or fewer batteries;
\* an exchange of a battery for another is watched by a probe.
Reorder(o, n) ==
    LET was == Active
        now == {o[i] : i \in 1 .. n}
    IN  /\ order' = o /\ slots' = n /\ marked' = marked \ NewRoles(o, n)
        /\ IF now \ was # {} /\ was \ now # {}
           THEN LET first == CHOOSE i \in 1 .. n : o[i] \notin was /\ \A k \in 1 .. i - 1 : o[k] \in was
                IN  /\ probe' = [cand |-> o[first], active |-> now, backup |-> was \ now,
                                 restore |-> [i \in 1 .. slots |-> order[i]], asked |-> 0]
                    /\ fade' = [c \in Batteries |-> IF c \in now \cup was THEN 2 ELSE fade[c]]
           ELSE probe' = NoProbe /\ UNCHANGED fade

Rotate ==
    /\ probe = NoProbe
    /\ \E n \in Slots, o \in {order, MovedToTail(order[1])} : Reorder(o, n)
    /\ quiet' = {}
    /\ UNCHANGED <<load, out, empty, idle, spill>>

\* A commit, once the candidate delivers on the demand's side, leaves everyone
\* at its share of what the participants deliver.
FadeAt(part, whole) == IF part = 0 THEN 0 ELSE IF part < whole THEN 1 ELSE 2
Committed ==
    LET carried == [c \in Batteries |-> Abs(out[c])]
        all == Total(carried, Participants)
    IN  [c \in Batteries |->
            IF c \notin Participants THEN fade[c]
            ELSE FadeAt(carried[c], all)]
CommitProbe ==
    /\ load # 0 /\ out[probe.cand] * Sign(load) >= ProbeProof
    /\ fade' = Committed
    /\ UNCHANGED <<order, marked>>

\* A rejection puts those the probe displaced back in front, as they were, and
\* the candidate behind everyone.
RejectRank(c) ==
    LET place(s) == CHOOSE i \in DOMAIN s : s[i] = c
    IN  IF c \in InSeq(probe.restore) THEN place(probe.restore)
        ELSE Len(order) + (IF c = probe.cand THEN Len(order) + 1 ELSE place(order))
RejectProbe ==
    /\ \E o \in Orders :
         /\ \A i, j \in DOMAIN o : i < j => RejectRank(o[i]) < RejectRank(o[j])
         /\ order' = o /\ marked' = (marked \cup {probe.cand}) \ NewRoles(o, slots)
    /\ fade' = [c \in Batteries |-> IF c = probe.cand THEN 0
                                    ELSE IF c \in InSeq(probe.restore) THEN 2 ELSE fade[c]]

\* In a pool whose batteries all stay and take part, a probe ends no other way.
ProbeEnds ==
    /\ probe # NoProbe /\ probe' = NoProbe
    /\ CommitProbe \/ RejectProbe
    /\ quiet' = {}
    /\ UNCHANGED <<load, out, slots, empty, idle, spill>>

LoadChanges ==
    /\ load' \in Loads \ {load}
    /\ quiet' = {}
    /\ UNCHANGED <<out, order, slots, fade, probe, empty, marked, idle, spill>>

\* A battery runs empty or full, or can deliver again; its score follows.
BatteryFails(c) ==
    /\ c \in Failing \ empty
    /\ empty' = empty \cup {c} /\ out' = [out EXCEPT ![c] = 0]
    /\ quiet' = {}
    /\ UNCHANGED <<load, order, slots, fade, probe, marked, idle, spill>>
BatteryRecovers(c) ==
    /\ c \in empty
    /\ empty' = empty \ {c}
    /\ quiet' = {}
    /\ UNCHANGED <<load, out, order, slots, fade, probe, marked, idle, spill>>
Judge(c) ==
    /\ VerdictDue(c)
    /\ marked' = IF c \in empty THEN marked \cup {c} ELSE marked \ {c}
    /\ quiet' = {}
    /\ UNCHANGED <<load, out, order, slots, fade, probe, empty, idle, spill>>

Tick ==
    /\ spill.free # NotFree /\ spill.free < ReleaseDelay
    /\ spill' = [spill EXCEPT !.free = @ + 1]
    /\ quiet' = {}
    /\ UNCHANGED <<load, out, order, slots, fade, probe, empty, marked, idle>>

Init ==
    /\ load \in Loads /\ out = [c \in Batteries |-> 0]
    /\ order = FirstOrder /\ slots \in Slots
    /\ fade = [c \in Batteries |-> 2] /\ probe = NoProbe
    /\ empty = {} /\ marked = {} /\ idle = {} /\ spill = NoSpill /\ quiet = {}

Next ==
    \/ \E c \in Batteries : Poll(c) \/ BatteryFails(c) \/ BatteryRecovers(c) \/ Judge(c)
    \/ Rotate \/ ProbeEnds
    \/ LoadChanges \/ Tick

Spec == Init /\ [][Next]_vars

-----------------------------------------------------------------------------
\* Orders, fades and the reserve keep their shape: nobody is asked past its
\* limit, and the reserve has a direction exactly while somebody is in it.
TypeOK ==
    /\ load \in Loads /\ out \in [Batteries -> Int]
    /\ \A c \in Batteries : Abs(out[c]) <= Limit[c]
    /\ order \in Orders
    /\ slots \in Slots /\ fade \in [Batteries -> 0 .. 2]
    /\ probe \in [cand : Batteries \cup {0}, active : SUBSET Batteries,
                  backup : SUBSET Batteries, restore : Seq(Batteries), asked : Nat]
    /\ empty \subseteq Batteries /\ marked \subseteq Batteries /\ idle \subseteq Batteries
    /\ spill.dir \in {-1, 0, 1} /\ spill.free \in NotFree .. ReleaseDelay
    /\ InSeq(spill.line) \subseteq Batteries
    /\ spill.dir = 0 <=> spill.line = <<>>
    /\ quiet \subseteq Batteries

\* A standby carrying the overflow is never driven through 0 W to the other
\* side, whichever of the shared, fading and probing paths its poll takes and
\* however the house turns meanwhile; one recruited while it still winds down
\* from the other side only comes closer.
NoCrossing ==
    [][\A c \in Batteries :
         out'[c] # out[c] /\ empty' = empty /\ c \in InSeq(spill'.line) \ Participants =>
            \/ out'[c] * spill'.dir >= 0
            \/ Abs(out'[c]) < Abs(out[c])]_vars

\* Last in, first out: while the reserve carries as much as the house no longer
\* wants, no battery ahead of it is turned down.  A DC-only battery is left
\* out: below zero grid it is wound down whatever the reserve carries.
Carries == Total([c \in Batteries |-> Most(0, out[c] * spill.dir)], InSeq(spill.line))
GivesBackFirst ==
    [][\A c \in Batteries \ (InSeq(spill.line) \cup DcOnly) :
         /\ out'[c] # out[c] /\ empty' = empty /\ spill' = spill /\ fade' = fade
         /\ probe = NoProbe /\ fade[c] = 2 /\ \A d \in Batteries : fade[d] # 1
         /\ idle' = idle /\ c \notin idle
         /\ Grid * spill.dir < -UnloadBand /\ -Grid * spill.dir <= Carries
         => out'[c] * spill.dir >= out[c] * spill.dir]_vars

\* The pool never settles short or over: once every battery has polled and
\* nothing changed, the grid is covered to a unit, unless everything that can
\* deliver does all it can, or the battery in front idles below its minimum.
\* Emptied heads, verdicts, abandoned handoffs and reserves left from before
\* never leave a standing error.
Able(c) == c \notin empty /\ (load < 0 => c \notin DcOnly)
SettledIsCovered ==
    quiet = Batteries /\ spill.free \notin 0 .. ReleaseDelay - 1 =>
        \/ Abs(Grid) <= 1
        \/ \E c \in Active \cap idle : Abs(load) < Floors(Sign(load))[c]
        \/ \A c \in Batteries : Able(c) => out[c] * Sign(load) = Limit[c]

\* The water-fill under the caps and weights the reserve leaves behind is the
\* max-min fair one: nobody is left past its ceiling, and whoever was fixed at
\* its ceiling would have got at least that at the level of the others.
WaterFillIsFair ==
    \A total \in {load, 2 * load} \ {0} :
        LET weights == ShareWeights([spill |-> spill])
            ceil == Ceilings([spill |-> spill], Batteries, Sign(total))
            f == Filled(total, weights, Batteries, ceil)
            left == f.rest
            free == Total(weights, f.free)
        IN  /\ \A c \in f.free : left * weights[c] <= ceil[c] * free
            /\ f.free # {} => \A c \in Batteries \ f.free : left * weights[c] >= ceil[c] * free
=============================================================================
